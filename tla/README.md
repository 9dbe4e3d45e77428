# EC-SBT in TLA+

EC-SBT translates an x86_64 ELF program into an AArch64 one. It is a chain of
batch tools: a disassembler writes a CFG, `mcsema-lift` (with anvill and remill)
turns it into LLVM bitcode, EC-SBT's own LLVM passes rewrite the bitcode, and
clang compiles it. The tools are sequential, and what is hard to get right in
them is order: tables are filled by calls in any order, work lists run until they
are empty, a block or a byte is marked by whoever comes first and read by whoever
comes later, an object is replaced after others took a pointer to it. What they
produce is concurrent: the lifted program's threads share its data, its
initializer and the variables the passes add, each has a native and a lifted
stack, and native and lifted functions call each other in any nesting. Several
modules therefore model the output of a tool as well as the tool, and run it.

## Components

| Component | State it keeps | Operations | Interacts with | What makes it correct |
|---|---|---|---|---|
| Program (`anvill/src/Program.cpp`) | mapped ranges and a mark per byte, functions and variables with their tables, sorted flags | MapRange, Declare*, Find*, ForEach* | filled by the CFG loader, read by both lifters and the analyses | ranges disjoint, a look-up finds what is mapped, marks agree with the declarations, iteration visits everything once |
| CFG loader (`mcsema/CFG/CFG.cpp`) | segments, functions, blocks, externals, cross-references, forwarding | ReadProtoBuf, TryGet*, ForwardTo | fills Program (it inherits from it) and the lifters' NativeModule | every address and name leads to one live object, every byte of a segment is described by one entry |
| Function lifter (`mcsema/BC/Function.cpp`) | the LLVM blocks of the function, the work list, landing pads, stack variables | LiftFunction and what it calls | reads the CFG, calls the instruction lifter; the optimizer finds what it saved and restored | no block forgotten, every block terminated once, branches land, the loop ends, registers saved around calls and functions come back |
| Instruction lifter (`mcsema/BC/Instruction.cpp`) | none | LiftIntoBlock, operands | called by the function lifter | the operand means what the CFG's cross-reference says |
| Callbacks (`mcsema/BC/Callback.cpp`, `External.cpp`) | functions made on demand; in their output, a thread's State | GetOrCreateCallback, entry points, lifted-to-native calls | called by every lifter that meets a code address | State set up once per thread, data initialized before code runs, stacks back in place |
| Segment lifter (`mcsema/BC/Segment.cpp`) | LLVM globals, constructor lists, lazily initialized references | DeclareDataSegments, DefineDataSegments, MergeSegments | reads the CFG loader's segments | each reference resolved once and before use, the layout kept |
| mcsema driver (`mcsema/BC/Lift.cpp`) | none | LiftCodeIntoModule | calls the above in order | declare before define |
| Exception runtime (`mcsema/OS/Linux/X86/ABI_exceptions.cpp`) | stashed stack and frame pointers | the landing pads' intrinsics | called by landing pads, which are built without an operand to load from | not reached, see below |
| Machine runtime (`mcsema/Arch/X86/Runtime`) | State, two stacks | attach and detach, calls and returns | between lifted and native code | registers and stack pointers survive every crossing |
| Machine code lifter (`anvill/src/MCToIRLifter.cpp`, `Lift.cpp`) | work list, lifted functions | LiftFunction, wrappers | reads Program | the lifted code goes where the processor goes; each function lifted and wrapped once |
| Calling conventions (`anvill/src/Arch`) | the registers taken so far, the stack offset | AllocateSignature, BindParameters, BindReturnValues, AllocationState | used by declarations, so by both lifters | no two values share a place, none is cut short |
| Analyses and optimizers (`anvill/src/Analyze.cpp`, `RecoverMemRefs.cpp`, both `Optimize.cpp`) | LLVM IR | rewriting | read Program | the rewritten code means the same |
| Declarations and types (`anvill/src/Decl.cpp`, `Type*.cpp`) | none | conversions between strings, JSON and LLVM types; native calls of lifted code | used everywhere | printing and parsing are inverse; the stack pointer is right after a call |
| Front ends (`anvill/python`, `anvill/plugins`) | none | ask IDA or Binary Ninja, write types | write what anvill reads | a type is read as what was written |
| Generators (`mcsema/OS/Linux/*.py`) | none | print C | | |
| LLVM passes (`Passes`) | LLVM module | one pass each | run by the script, in a fixed order | the guest's calls find the host's ABI; registers keep their values |
| Runner (`script/EC-SBT-Runner-base`) | files | the stages | runs everything | the binary comes from the input it was given and from every pass |
| remill (`remill/bin`) | | a command line and vendored headers | | |

`PROJECT.json` has, for each component, whether it is modelled and why not, the
hazards at their lines, and the source lines behind every definition.

## Modules

| Module | Models | Kind |
|---|---|---|
| `Program` | anvill's Program, one action per call | state machine |
| `AddressSpace` | what Program's header promises, with the exception that force makes; `Program` implements it | abstract specification |
| `ProgramProofs` | theorems about `Program` | proofs |
| `FuncLift` | mcsema's LiftFunction over the work list | state machine |
| `LiftClosure` | the blocks that control reaches from a function's roots; `FuncLift` implements it | abstract specification |
| `FuncLiftProofs` | theorems about `FuncLift` | proofs |
| `MachineLift` | anvill's lifter, and the lifted code's control | state machine |
| `NativeMachine` | a processor with delay slots; `MachineLift` implements it | abstract specification |
| `MachineLiftProofs` | theorems about `MachineLift` | proofs |
| `CallingConventions` | the register tables and rules of every convention and architecture | operators |
| `AllocationState` | binding a signature: AllocationState and what the conventions do with it | state machine |
| `AllocationProofs` | theorems about `AllocationState` | proofs |
| `TypeSpecs` | the language of types: the front end and TypePrinter write it, TypeParser reads it | state machine |
| `PreservedRegs` | registers saved, restored and killed by the lifter, what the optimizer takes out of it, and the result beside the original | state machine |
| `SegmentBlobs` | how a segment's bytes are cut into blobs around its cross-references | operators |
| `CFGLoader` | mcsema's ReadProtoBuf, loop by loop; extends `SegmentBlobs` | state machine |
| `CFGLoaderProofs` | theorems about `SegmentBlobs` and `CFGLoader` | proofs |
| `DataSegments` | the data of the lifted module, and the linker's layout | state machine |
| `NativeEntry` | threads that enter lifted code and leave it; extends `DataSegments` | state machine |
| `NativeEntryProofs` | theorems about `NativeEntry` and the initialization in `DataSegments` | proofs |
| `MachineRuntime` | the routines between native and lifted code, on both stacks | state machine |
| `MachineRuntimeProofs` | theorems about `MachineRuntime` | proofs |
| `TLSLocalize` | the TLS pass, and the code it makes run | state machine |
| `RegisterProgram` | what a lifted function does to the registers; `TLSLocalize` implements it | abstract specification |
| `VariadicCalls` | va_listPass, and the variadic calls of threads | state machine |
| `HostCalls` | the code that fsRegisterPass, rdtscPass, statPass and fstatPass make | state machine |
| `PrintfCalls` | printfPass, and the calls it rewrote run | state machine |
| `SymbolPasses` | the passes that change symbols, flags, conventions and callbacks | operators |
| `Runner` | the script over its files, with failures, interruptions and reruns; extends `SymbolPasses` | state machine |
| `PassesProofs` | theorems about `HostCalls`, `VariadicCalls` and `Runner` | proofs |
| `*MC` | the instances for TLC; `DeclarationsMC` puts `TypeSpecs` beside `AllocationState`, `RegistersMC` puts `PreservedRegs` and `MachineRuntime` beside `TLSLocalizeMC`, `HostCallsMC` puts `VariadicCalls` beside `HostCalls` | instances |

A definition marked `\* mutant` is a plausible bug, used to see that a property
fails when the definition after it is replaced by it; no specification uses it.

### Program

State: `bytes` (the ranges by their end addresses), `meta` (the marks of each
mapped byte), `funcs` and `vars` in vector order with their indices and sorted
flags, and the loops that are running, since a callback of an iteration may
declare and iterate (a loop is `steady` until a call inside it reorders `vars`). Each public call that changes state is an action: its
guard is the call's success, its failure leaves the state alone. Look-ups are
operators: FindByte as the one `upper_bound` it is, FindNextByte as a step of a
raw pointer that trusts the mark of the byte it leaves. Left out: the table of
names, FindBytes (see below), and the values of bytes.

### FuncLift

State: per function the blocks and what each holds (`Store`s of an invoke,
instructions, terminator), the work list, the landing pads and whether the
stack variables exist, and the CFG block used as a hint. An instruction is its
category, the addresses it names, and its landing pad; what it computes is left
out. Actions follow LiftFunction: start, pop, already handled, tail call, decode
failure, lift, finish. Modelling decisions:

- a function whose CFG has blocks has one at its own address, and the landing
  pad of an instruction is in its function's frame table (`IsModule`);
- the order in which one instruction's new targets are pushed is left open;
- `IndirectJumpsReachAll` is not stated for a block that only blocks list which
  are not lifted to their end, or are taken for others (`LeadsTo`): those the code
  leaves out of the switch, and nothing of what it lifts leads to them;
- delay slots, tracers and two functions of one lifted name are left out;
  register saving is in `PreservedRegs`;
- the loads of a landing pad have a null operand (Function.cpp:677 runs before
  :1621). A build without assertions makes them and lifts on, which is what is
  modelled; no later stage takes such a module, so nothing is said of its runs.

### PreservedRegs

A CFG says which registers a function preserves up to an end, which are preserved
around a call, and which are dead at one. The lifter makes loads, stores and calls
of a restorer of it, LLVM forwards and drops values, and RemoveDeadRestores and
RemoveKilledStores take the marks out again. State: the lifted blocks as lists of
operations on registers, then the stack of running functions with the registers of
the lifted program (`state`) and of the original (`orig`), and what either showed
(`visible`). `Optimize` stands for LLVM: it forwards any set of registers and
may drop dead stores, and is marked external. `truthful` follows whether what the
CFG says was so in the original: a run in which it was not says nothing.
Modelling decisions:

- a function that ends without a set of its own takes that of any end
  (`LiftFuncRestoredRegs`: the code takes the first of an unordered map), and at a
  tail call the instruction looked up is the one decoded last, which may be any
  (`SetsAt`);
- an invoke is a call that keeps nothing, as in the code;
- a restorer accesses no memory (Function.cpp:1024), so that what LLVM knows of other
  registers holds across it; of its own register nothing is known then;
- a restore that leads to another, which comes of inlining, the program counter's
  own marks and `kCategoryError` are left out;
- `tookAway` records that RemoveDeadRestores took a move of the program's own:
  see the disagreements below.

### MachineLift

State: whose turn it is, the work list, the blocks with their paths, and which
functions have code and wrappers; then the block, path and instruction that the
lifted code runs. An instruction has length one and is its category, its target
and its delay slots; a block is the set of its paths, each with or without the
delayed instruction. `NativeMachine` is the processor: it keeps the address it is
at and the one after it, as SPARC does, and `at`, `then` are computed from the
lifted code's place. Modelling decisions:

- no transfer of control stands in a delay slot (`ProgramsAssumption`), where
  SPARC leaves open what it does;
- on SPARC something is mapped where a call returns (`ProgramsAssumption`): the
  lifter takes what is not mapped for an `unimp`, the processor faults there;
- a call is followed from its return address, and what the callee does is left
  out;
- values, type hints and register tracing are left out.

### AllocationState and CallingConventions

State: the convention, the signature bound so far, what each register is filled
to, the stack offset, the recursion of TryRegisterAllocate as a list of pending
parts, and the parts taken for the value at hand. A type is
`[kind, bits, elems, size]`; a register is a name and a number with its
variants' widths. Modelling decisions:

- MMX, parameter names and the JSON form are left out;
- a register is a name and a number; `Storage` is what it is kept in, which differs
  for SPARC's floats only;
- registers that remill does not know (XMM48 and up in the AVX tables) make the
  allocation abort, as the null pointer does;
- a scalar's alignment is its size; a struct-return argument is a pointer;
- the x86 conventions bind parameters on the stack only; on AMD64 the 32-bit
  convention ids yield the cdecl rules with 64-bit pointers, as in the code.

### TypeSpecs

State: who has the type (the front end, LLVM, or nobody while it is text or after
it was refused), the type with its table of structures, the specification written
last and what it was written of. A type is a tree of nodes, a structure in it its
place in the table; a specification is a sequence of tokens. Each writer and the
reader is a recursive operator with one operator for each method of the code, and
hands on what it numbered so far, as the code's dictionaries do. `Leaves` says what
a type is: which byte of it holds what. Modelling decisions:

- signedness and the letters are left out, a token has its width;
- the sizes and alignments are LLVM's for x86_64 and marked external;
- a pointee that has no size for LLVM may come back as a byte;
- `Sayable` names the types that the language can say. Each of its clauses is
  needed: without it TLC finds a type that does not survive (see below).

`DeclarationsMC` runs it beside `AllocationState`: a behaviour binds a signature
or carries a type, as a declaration does both and neither reads the other.

### CFGLoader and SegmentBlobs

State: the tables of NativeModule, every object ever made with the object it
forwards to, and which of ReadProtoBuf's loops is running. One action is one
iteration of one loop, with inner loops over variables, cross-references and
blocks as actions of their own. `Get` and `ForwardTo` work on the forwarding
tables as the pointers do, but for the shortening of chains. `SegmentBlobs`
gives the nested loops that cut a segment's bytes into blobs by what they
compute; only a byte's being zero is told apart. A failed CHECK, LOG(FATAL) or a
null pointer followed ends in `abort`. Modelling decisions:

- bytes read behind the end of the CFG's data are any bytes;
- a set of pointers is in any order, so `std::sort` may leave segments that it
  does not tell apart in any (`SortForMerge`, `Resolve`);
- what is said of segments' bytes is said of internal ones: an external segment is
  declared without data, and may be larger than the data that the CFG has for it;
- functions with the name of one of gModule's functions have distinct names;
- MapRange's overlap check is kept, the rest of Program is in module `Program`;
- declarations are left out, exception frames are in `FuncLift` and register sets
  in `PreservedRegs`.

### DataSegments and NativeEntry

State of `DataSegments`: what the initializer has in the place of each
cross-reference, the early initializer's stores in their order, which variables
stay constant, how many cross-references of the next segment are `placed` (one
action is one of them, as FillDataSegment takes them), what the constructor and destructor call, the offsets in the
merged variable, and the addresses that a linker picks under the alignment the
code asks for. `NativeEntry` adds threads: where each is, its State::RSP, its
lifted functions, the cells of the image now, the guard of the early initializer,
and which cells lifted code wrote. A frame counts the entries that `returned` from
its call of native code, since each leaves State::RSP one word higher. Threads interleave at the guard's test, each
store and the guard's store. Modelling decisions:

- a cross-reference names its target; that it is the right one is `CFGLoader`'s;
- the frame a callback takes from the stack is a few words of any number;
- the stores of the guard and of the cells are seen in their order (the code has
  plain stores and no fence, so a compiler or a machine may do otherwise);
- two threads that are in the early initializer at once may store over what the
  program wrote in between: `raced` excludes it from `WritesSurvive`, see below.

### MachineRuntime

State: the machine's registers, stack pointer and instruction pointer, State with
State::RSP, the memory of both stacks word by word, and beside them the functions
that are running with what each may rely on (`acts`). Actions are the routines as
they are printed, instruction by instruction in what they read and write, and the
calls, returns and tail jumps of native and lifted functions.
Modelling decisions: 64-bit Linux; one register stands for all that are only
copied; a lifted function that native code called is left by a return and not by a
tail jump (`CalledByLifted`); signal handlers are left out. So is
__mcsema_exception_ret: only landing pads call it, and no program with a landing
pad gets through the lifter (see `FuncLift`). `RegistersMC` runs a thread beside the
programs of the two modules about registers.

### The passes

- `TLSLocalize` runs the pass over the loops and then the blocks of a function and
  executes what it made. `reg` is what the registers would hold had the pass done
  nothing, `tls` and `local` what the memory holds; callees and callers read and
  write any register. `SupportedAssumption` states what the pass relies on without
  looking: no invoke in a loop, and aliases of one register in a region start at
  the same byte.
- `VariadicCalls` runs the pass over the library's functions and their uses in any
  order, one search at a time, and then threads that call the program's own functions.
  A value in a register is the call it is an argument of. `State`, the map of aliases,
  is filled when the first save is made, with the names the pass met so far, XMM8 to
  XMM15 among them. A save puts loads of XMM0 to XMM6 in the function it is in, and
  later searches see them (`Loads`), so that a function that loads XMM7 itself is then
  taken for one that starts a va_list; one that lacks the alias of a general register
  ends the run (`phase` is "undefined").
- `HostCalls` models the code that four passes put in: the variable that stands for
  an offset of FS, the helper of rdtsc with its global, and the copies of the stat
  structure around the host's call. Threads interleave at its loads, stores and
  calls. An access has a constant offset and at most eight bytes, and only accesses at
  one offset overlap (`HostAssumption`). Fields have a value and a width; a block size that does not fit the
  host's field loses its top half.
- `PrintfCalls` searches backwards for the format as the pass does, one block in a
  step, and then runs the function and compares. A format is the sequence of its
  conversions, each with its field and its letters, of which `Parsed` takes those that
  the pass's regular expression matches. `Understood` names the conversions, and
  `Straight` the calls, for which the pass can be right.
- `SymbolPasses` has one operator for each pass that changes the module's symbols;
  `Runner` applies them where the script runs them.

### Runner

State: the files with what is in them (the program each was made from, the passes
it went through, the module), the stage, the pass's input, the lists in `$HOME`,
what the script reported. Any tool may fail, or the script be interrupted between
two stages; files outlive a run and the program may be rebuilt.
## Runs

Each run is one question about one part of the system, with all the properties
that answer it.

| Run | What it asks | Bounds, and why they suffice |
|---|---|---|
| `program` | every order of mapping and declaring keeps look-ups exact and the marks of heads in agreement with them (`LookupsAgree`); once a range is linked to the next it stays so (`FindNextByteCrosses`); an iteration visits each variable once though its callback declares more, unless one inside it sorts them anew (`VisitsEachOnce`); the header's promise is kept, but for functions declared by force (`KeepsPromise`) | five addresses and three ranges (one may lie below, between, above and next to the others), two functions, one variable of two bytes among them; without ranges three variables of two sizes, functions at two addresses, and an iteration inside an iteration. Ranges with more than one variable, or with a loop, add states and no interaction |
| `addresses` | violated: no two functions share an address (`AddressesUnique`) | as `program` |
| `lift` | each function holds the blocks that control reaches and nothing else (`LiftsClosure`, `MatchesCFG`), blocks that no block lists, and those that a lifted block leads to, are targets (`IndirectJumpsReachAll`), each block ends once (`BlocksTerminated`), lifting ends (`Terminates`) | every program of three one-byte instructions (and undecodable bytes behind them), two functions, five layouts of CFG blocks: none, separate, shared, overlapping, and one of two instructions that alone names another; calls with landing pads apart. Three addresses are enough for a block to be pushed by one, owned by another and split by a third |
| `machine_lift` | the lifted code goes where the processor goes (`RunsTheMachine`), every function gets its two wrappers once (`FunctionsWrapped`), lifting ends (`LiftEnds`) | five instructions, two of them of any category with any delay slots; one function, two, and one declared twice |
| `declarations` | parameters never share storage (`ValuesApart`); nothing of an argument is lost but a vector lost whole, and no returned value is put over another (`DeclaredWhole`); registers are used before the stack (`StackOnlyWhenFull`); a type that was written is read with the same fields at the same places, and settles when it is written again (`TypesSurvive`) | five families of signatures: up to four arguments of six types under every convention and architecture; seventeen return types and nine scalars, more than any table but SPARC64's holds; seven returned and five passed types with vectors, and the AVX tables; floats of each width on SPARC64, and eighteen of one, which is more than it has names for. Types: a structure of up to two of ten elements (of thirteen for LLVM's, odd widths, packed and opaque ones among them) with a second structure, and a union, that it uses by value, behind pointers and in functions; written four times, once more than it takes to settle |
| `vectors` | violated: an argument of X86_64_SysV gets registers or a slot (`EveryArgumentDeclared`) | as `declarations` |
| `cfg_load` | bytes described once, also after merging (`SegmentsDescribed`); look-ups live (`LookupsLive`); duplicates become one (`SameVariable`); shared blocks complete (`BlocksComplete`) | external variables: lists of up to four of nine entries, enough for an object to be replaced, and replaced again through its other name; segments: three neighbours in three orders, a cut at every place; code: three functions, shared blocks and addresses |
| `data_segments` | each reference resolved by one of initializer and store (`XrefsResolved`), and outside thread-local segments before code sees it (`CodeSeesTargets`); what the program wrote survives (`WritesSurvive`); segments keep their place in the page and their order (`LayoutKept`); under `--explicit_args` each running lifted function finds a thread's stack pointer where it left it, and entries from one of its calls start one word higher for each that returned (`FramesKept`) | a page of four bytes, a shift of three bits: 168 pairs of addresses, merged and not, at every place a linker may choose; every pair of seven kinds of reference, run by two threads that enter twice, and three times where both lead to functions and are never written: then an entry returns and another is made from the same call |
| `registers` | each load, callee and caller sees what it would have seen without the TLS pass (`KeepsRegisters`); the program shows the original's registers, whatever is saved, restored, killed and taken out again (`Transparent`); between native and lifted code, control, stacks and kept registers are intact wherever a function runs and both stacks are aligned at calls (`RunningIntact`), arguments and results arrive (`ValuesCarried`) | TLS: a function of four blocks and a loop, filled with every choice of the listed code; three bytes of register state, two of which one register shares with its low half. Preserved registers: nine calling bodies with stack saves, moves, tail calls, indirect jumps, several ends and calls that do not return, five callees, two registers, every choice of sets and of what LLVM finds out. One register to keep and one to keep it in is what an end, a call and a kill can disagree about. Threads: every nesting of up to six calls and tail jumps, enough for a callback inside a callback |
| `host_calls` | FS-relative data is the thread's own (`FSIsTheThreads`), a thread reads its own clock (`ReadsItsClock`), stat fills in the file's fields, or leaves them if the host fails (`StatTellsTheFile`), a helper is given the registers of the variadic call it serves (`PrintsItsOwn`) | two threads of two operations; three accesses of two offsets; two files, one with a field that needs the wider half. Or twenty-nine programs with one or two functions that start a va_list, and one that only seems to, handed on never, once or twice, with other names met and without an alias of R9; two threads, three calls each |
| `printf` | a call prints with the arguments its format asks for (`PrintsRight`); the pass ends (`PassEnds`) | every function of three blocks of twelve kinds in five shapes; every format of up to nine integers and doubles, and any of C's conversions before an integer |
| `pipeline` | a binary went through every pass (`EveryPassApplied`), a completed run is of this program (`CompletedIsCurrent`), symbols, flags and conventions agree in the end (`PassesAgree`) | 96 programs, a quarter of them with two doubles, where one calls itself and one the function it replaces; one fault, and two of them rebuilt into each other in a second run |

Deadlock is checked where a stop would be an error; `program`, `lift`,
`declarations` and `pipeline` end at their bounds or when the work is done.

Fairness is `WF(Next)` and is assumed only for the termination properties of
`lift`, `machine_lift` and `printf`: one thread runs each of these functions to its
end, so some step is always taken while one is possible. Nothing stronger is
needed, and nothing is assumed of the threads of a lifted program, whose
properties are all of safety.

`PassEnds`, `PrintsRight`, `WritesSurvive`, `ReadsItsClock`, `CompletedIsCurrent`,
`VisitsEachOnce`, `StackOnlyWhenFull`, `TypesSurvive` and `Transparent` state what holds under a condition named in the
property (functions the search can trace, initializers that did not overlap, a clock read
that no other thread disturbed, a run whose tools worked, an iteration
that is not sorted under, scalars of more than a byte, types that the language can say, a CFG
that is right about registers and a program that does not move one away and back by itself); what happens otherwise
is listed below.

## Proofs

Eight modules prove, for every value of the constants:

- `Program`: the inductive invariant `Inv`, the conjunction of `TypeOK`,
  `RangesDisjoint`, `HeadsAgree`, `FunctionsExecutable` and `FindNextByteSound`.
  None but the first is inductive alone: MapRange's overlap walk stops at the
  first range it takes to be out of reach, which is right only while the ranges
  are disjoint (`OverlapFound`), and the marks it sets are right only if those of
  the other ranges are. From `Inv` follow each of its parts, `FindByteExact`
  (one `upper_bound` finds the only range that can hold an address), with the
  exactness of FindInVariable's one probe `LookupsAgree`, and that every step is a step of `AddressSpace` or a stutter (`Implements`);
  where nothing is declared by force no two functions share an address (`UniqueUnforced`).
  `VisitInv` says that a steady loop has seen the first of `vars`, in order: no two
  variables share an address, and what is appended comes behind, so `VisitsEachOnce`.
  `FindNextByteCrosses` is an action property: MapRange sets links and takes none away.
  Assumptions: `AddrAssumption`, `SizeAssumption`, `ForceAssumption`,
  `BoundAssumption`, all on the ranges of the constants.
- `AllocationState`: `IInv` says that what is declared in a place (a register or
  the stack) lies below what the place is filled to, that the declarations of one
  place are apart, and that each fits the register variant it names, both for the
  parameters and for the parts taken for the current value. A failed composite
  keeps what its elements took, so the parts taken have to be in the invariant
  with the fill they raised. From it follows `NamedCovers`, and, with `PlacesInv` (a
  value is in a register of the table, in RAX or on the stack), `ValuesApart`: two names
  of one storage are in no table but SPARC64's, as the assumption says. `FullInv`
  is for `StackOnlyWhenFull`: while all arguments are simple, an argument is one part
  (`AtHand`), so none gives up after taking something, and a register that is filled or
  reserved holds a parameter (`NotInVain`); one without room for a scalar that fits it
  is filled or reserved.
  Assumptions: `ConventionsAssumption` (a table lists a register once, each with
  its variants' widths, the widest one of those that sizes are rounded to, none of
  them the stack, and not RAX where RAX holds the address of a struct return; two of
  them share storage only in SPARC64's floats),
  `TypesAssumption` (sizes are natural numbers).
- `SegmentBlobs`, at the head of `CFGLoaderProofs`: cross-references that lie in a segment and do not overlap,
  together with the blobs, describe every byte of it once, whatever the bytes are,
  wherever variables cut and however long a group may be (`BlobsPartition`); a
  blob marked zero is zero (`ZerosAreZero`); merging keeps a partition
  (`MergingPartitions`). A byte's blob is found as the least address from which
  the gap runs on without a new blob. Nothing is assumed of the
  constant; what is assumed of the cross-references (`Apart`) is what the checks
  in the code catch. `SegmentsDescribed` takes these theorems through the whole loader.
- `CFGLoader`: its four properties, in `CFGLoaderProofs`. An object
  is replaced by letting it forward to a later one, so forwarding `Descends`: some
  rank falls along every step, every chain ends (`ChainEnds`), and after ForwardTo
  exactly those who led to either object lead to the new one (`ForwardToIs`). With
  this `Joining` says, of the entries read so far, that the two tables hold what they
  name and that two of them lead to one object just when a chain of shared addresses
  and names `Linked` them; a new entry may join two groups, and the links through it
  are those that `JoiningAdds` needs. `FuncInv` says that each entry of a block read
  so far is in what the function has of the block, which merging only adds to
  (`MergeReaches`). `TabInv` says that the segments not yet replaced are all listed and
  that an address leads to one that begins there. For `SegmentsDescribed`, `DescInv`
  follows each segment from the one of the CFG that it was made for: it is found at its
  address, or two of the CFG's share the address and the overlap check of MapRange will
  end the loading (`Doubled`); where loading goes on no two of them share a byte, so a
  segment's own data is all the CFG has for its bytes (`AllFilled`). For `LookupsLive`,
  `LiveInv` says of each entry that its segment and the one it sits in forward to the
  same, and that its target forwards to one that holds the address: merging widens that
  segment as it takes the other's place (`MergePlaces`). Assumption:
  `ModulesAssumption`, that the CFG's lists are lists, and addresses and sizes natural
  numbers.
- `FuncLift`: all its safety properties and its refinement of `LiftClosure`, in
  `FuncLiftProofs`. `LiftInv` says that a function's description in the CFG is dropped
  only after its turn (`NotDropped`), that everything on the work list has a block and
  what the CFG gave the function is on it by force (`Waiting`); the latter is why no
  one who jumps there first makes a tail call of it (`MatchesCFG`). With it each action
  is a step of `LiftClosure` or a stutter, leaves every block ended by its one
  terminator, and keeps `JumpInv`: each terminator leads, with the others, where the
  CFG says that its instruction does. `BlocksTerminated` needs the exception of the
  blocks that invokes return to, since the store appended there comes before or after
  the code as the work list has it. TryGetBlock is shown to find the closest start
  below, when there is one within `MaxWalk` (`FurthestFound`, by the well-foundedness
  of the naturals). Assumptions: `AddressAssumption`, `FunctionAssumption`,
  `ModuleAssumption`, that is `IsModule`, what a loaded CFG satisfies.
- `MachineLift`: its two safety properties, in `MachineLiftProofs`. `LiftInv` says that a
  block which is not on the work list has the paths of the instruction at its address,
  and everything they go on at, a call's return address among them, has a block too
  (`Complete`): when the list is empty that closes the function, loops or not. `RunInv`
  keeps the running code on a path of a block of the function, so its place is the
  processor's (`Where`) and each of its steps is one of the processor's or a stutter
  (`RunsTheMachine`); a branch is a stutter, and so is all of the lifting. `WrapInv` says
  whose turn is over: they have their wrappers, those of them with code are the ones
  lifted, and the one whose turn it is is none of them unless its address is declared
  twice (`FunctionsWrapped`). Assumption: `ProgramsAssumption`, what decoded machine
  code satisfies (an instruction that is not conditional has one path, and delay slots
  are not nested), and the mapped word behind SPARC's calls, which the code needs.
- `DataSegments` and `NativeEntry`: everything but `LayoutKept`, in
  `NativeEntryProofs`. `BuildInv` counts the stores: each cross-reference that
  FillDataSegment passed was placed, or is in the initializer's code once and cannot
  be in a constant (`XrefsResolved`). `GuardInv` relates the guard to the stores for any number of threads:
  it is set only when all were made, and whoever is past the test found it set or made
  them (`CodeSeesTargets`, of references outside thread-local segments: within one,
  only the first thread's copy is stored to); until two threads meet there, the one that stores is the
  only one and nothing was written before it (`WritesSurvive`). `StackInv` says of each
  thread where State::RSP is at each point of its nested calls: each function starts
  below its caller's words, one word higher for each entry that returned before it, and
  the pointer never comes back to 0 while functions run, which `EntryAssumption` (the
  stack is deeper than the entries go) is for (`FramesKept`, under `--explicit_args`). Assumptions also:
  `SegmentsAssumption`, on the shape of a module.
- `HostCalls`: its three properties, in `PassesProofs`. The variable of an
  offset agrees byte by byte with the thread's memory (`FSInv`), provided that an
  access has at most eight bytes and that two which overlap start at one offset, as
  `HostAssumption` says (the pass does not look); a thread whose `alone` still holds has its own reading in the global
  (`TscInv`); the host's structure has what the guest's had or what the host says of a
  file in the fields that are copied (`StatInv`), by the one-to-one table that both passes use in both directions.
  Assumptions also: `FieldAssumption`, that files' fields are natural numbers.
- `VariadicCalls`: `PrintsItsOwn`, in `PassesProofs`. `PassInv` says that by the time
  a call of the library is rewritten all who start its va_list, themselves or one call
  further out, have a save before each of their calls (`SavedFor`), in whatever order the
  pass meets the functions, that State came from the names met first, and that every use
  with a save before it leads, however deeply, to a function that starts a va_list
  (`LeadsToStart`): so do the uses of functions that the pass takes for such because of the
  loads it put in them. `StackOf` relates a
  thread's stack to its globals: a frame is fresh only if the globals are its call's; and
  in a flat program (`Linked`) each function was called by the one below it, what lies
  above is under what that one called, and whoever starts a va_list, once its uses are saved
  for, is still fresh, because nothing that leads to a starter runs above it. Without the
  last part a second variadic call could have saved over the first's registers. Assumption:
  `ModulesAssumption`, the shape of a program and its aliases.
- `Runner`: `EveryPassApplied`, `CompletedIsCurrent` and `PassesAgree`, in `PassesProofs`. `StagesInv`
  says of each file that is there, whichever run left it, that it went through exactly
  the passes before it, and that current_input is the last pass's file: a stage is
  reached over made files only, so a file that a failed tool leaves is an old one of the
  same stage. `FreshInv` says that while all tools have worked the files behind the
  running stage are this run's. Neither bounds the runs, faults or programs.
  `ModulesInv` says what module each file holds, as a function of the stage and the lifted
  module (`ModuleOK`): names and calls are those of the lifted module until
  FunctionNameDirectChange, and after it with each pair of its table applied (`NamesAt`,
  `CallsAt`, by induction along the table: before its turn only the double itself has its
  name); weak symbols are the list's from checkLinkerType on, and an inlined exit point
  has its function, which no renaming takes away, because a double's name holds an
  underscore and EXTInline's pattern allows none. Assumptions: `ChangedAssumption`, on
  the table, which the code fixes, and on names made from it; `LiftedAssumption`, what the
  lifter delivers on Linux: calls under C's convention, to functions of the module.

- `MachineRuntime`: both its properties, in `MachineRuntimeProofs`. `IInv` gives every
  running function, the i-th of `acts`, a level on the lifted stack (`Low`) and one on
  the native stack (`High`): below them lies nothing that it or those outside it need,
  and its frames there hold what its caller keeps and where that goes on (`Joins`). Low
  falls by eight words for a lifted function (a return address, six registers, one to
  align) and by ten for a native one (nine of them `Stash`), High always by eight, so
  alignment follows from the levels. `Where` says, for each place the code can be at,
  where the two pointers stand to the levels of the innermost function, and which
  registers, of the machine and of State, are whose. A routine moves between places and
  changes no level; an entry adds one and a return drops one, above which nothing was
  touched (`Left`, by `Cut`).
  `Carried`, with `IInv`, follows what is passed from place to place. Assumption:
  `RuntimeAssumption`, even stacks that are as deep as `MaxCalls` calls need: the code
  checks no depth, and a program that overflows a stack is not covered. Nor are
  exceptions, and tail jumps of functions that native code called (`LiftedJumps`).

Only model-checked: termination (liveness is beyond the prover); `LayoutKept`
and `PrintsRight`, which fold over or filter lists of any
length (an induction over data); `Transparent` and `TypesSurvive`, whose modules declare
RECURSIVE operators; `DeclaredWhole`, which adds up and filters lists of any length;
`KeepsRegisters`, whose rewriting joins and filters sequences of instructions; what depends
on the values in the conventions' tables; and every module not named above.

## Disagreements met while modelling

The code is modelled as it is; where it disagrees with what it says of itself, or
relies on something it does not check, the model follows the code, and the property
is stated for what the code does keep, or the input that would show it is left out
and named. Two runs show one each (`vectors`, `addresses`); the others were found by
reading, and several by a run of a property that was then narrowed.

Program, function lifter, CFG loader:

- A range mapped just below one that is mapped already is not linked to it, so
  FindNextByte stops between them (Program.cpp:901, against :48). FindBytes clamps
  to the size of the whole range, not to what is left of it (Program.cpp:786,
  Program.h:313). FindInVariable misses the outer of two nested variables
  (Program.cpp:617). ForEachFunction sorts `vars` and sets `funcs_are_sorted`
  (Program.cpp:928). "New variables *can* be declared while this method is actively
  iterating" (Program.h:281), but a callback that declares a variable below the last one
  and then starts an iteration has `vars` sorted under the outer loop (Program.cpp:1036),
  whose index then passes over one and visits another twice. A forced redeclaration adds a second
  function at the address, against Program.h:172 (run `addresses`; CFG.cpp:551 redeclares by
  force), and FindFunction goes on returning the first (Program.cpp:532).
- An invoke stores to the block of its return address; if that block is not lifted
  yet it then looks handled and stays without code (Function.cpp:445, :1648 "Already
  handled."). Landing pads are built before the variables they restore the frame
  from (Function.cpp:1604, :1621), so CreateLandingPad makes loads without an operand
  (:677, :693) that neither LLVM's passes nor its writer can take. remill's conditional calls and returns, which only
  AArch32 has, are missing from the switch at Function.cpp:1298. A block that only
  another one lists is no target of an indirect jump, though the lister may never be
  lifted to its end (Function.cpp:778); then nothing leads to it.
- `name_to_extern_func` is never filled, so the duplicates that the comment at
  CFG.cpp:711 speaks of are never found. The comment at CFG.cpp:989 has the data
  split at variables, but blobs of one kind are merged across them (CFG.cpp:1033).
  `is_thread_local` of a new variable in a thread-local segment stays false
  (CFG.cpp:892). A segment that stands for an external variable and has no segment at
  its own address is followed through a null pointer (CFG.cpp:964).

Preserved registers:

- RemoveDeadRestores takes equal arguments to mean that "the register being restored
  didn't change" (Optimize.cpp:775), and removes every store of the value to its
  register. A function that moves a register away itself, uses it, and moves it back
  has equal arguments too: its own move back is removed, and the register keeps the
  other value from there on. `tookAway` excludes these runs from `Transparent`.
- At a tail call `ctx.inst` is what was decoded last and not where the call is
  (Function.cpp:1168, :1664), so the set of any end of the function may be restored.
  A second set of registers for one end is dropped (Function.cpp:1633), like the
  sets of a second entry for one address in the CFG (CFG.cpp:1262).

Calling conventions:

- A composite that fits no registers keeps those its first elements took
  (AllocationState.cpp:202, X86_64_SysV.cpp:371); a vector that fits none is declared
  nowhere (AllocationState.cpp:221), against "pass the rest of the arguments on the stack"
  (X86_64_SysV.cpp:371): run `vectors` shows it, `DeclaredWhole` allows such a vector, and
  no other part of an argument, to be lost, and `StackOnlyWhenFull` is stated for scalars.
  SPARC's tables name one file of floating-point registers three times, as f, d and q,
  and AllocationState fills each name apart: f(float, double) binds f1 and d0 on SPARC64,
  which is f0 and f1 (SPARC64_C.cpp:37), and both SPARCs return a struct of a float and a
  double in f0 and d0 (SPARC32_C.cpp:46, SPARC64_C.cpp:89). `Storage` knows it;
  `ValuesApart` and `DeclaredWhole` exempt these pairs and no others. The
  size masks of 8 and 512 bits share a bit (AllocationState.cpp:114), so that an integer
  of up to a byte is taken for one of 512 bits and always goes to the stack (`StackOnlyWhenFull`
  does not speak of it); fastcall
  arguments always go to the stack (X86_FastCall.cpp:331), the AVX tables name XMM48
  and up (Arch.cpp:250), wide integers are returned as i32 in 64-bit registers
  (AArch64_C.cpp:259) and one too big for X0 to X7 takes the pointer type of a null
  type (:265), a vector that cannot be returned in registers is returned as nothing
  (AllocationState.cpp:221), a struct padded beyond its register is refused
  (AllocationState.cpp:514), cdecl's injected struct-return slot has the struct's
  size but is popped as four bytes (X86_C.cpp:335).

anvill's lifter:

- The test whether an address belongs to another function, which should end in a
  tail call, is never met, since FindFunction finds exact addresses only
  (MCToIRLifter.cpp:655): code of another function is lifted again into this one.
- A conditional return tail-calls `__remill_function_return` where a return returns.
  An unmapped return address counts as `unimp` and a word is skipped, which
  `ProgramsAssumption` excludes. An instruction
  that does not decode in a delay slot is still lifted. An asynchronous hyper call
  ends its block.
- A forced redeclaration has ForEachFunction visit the function twice, and the second
  visit fails a CHECK. Lift.cpp says that after OptimizeFunction only native
  functions are left; a callee later in the order is inlined by the module's pass.

Data segments and entries:

- `1u << ctzl` is undefined for an address below a page or with 32 trailing zeros,
  and the merged variable has no alignment at all (Segment.cpp:602, CFG.h:99).
- An absolute fixup to a thread-local variable is fatal, and a thread-offset fixup to
  another is ill-typed. `is_thread_local` is read from a variable that may have been
  replaced (Segment.cpp:302, :316).
- The lazy references of a thread-local segment are stored once, in the copy of the
  first thread to enter; other threads have nulls, where lifted code then sees them, against "make sure all
  lazy cross-reference initializers have been installed before any lifted bitcode is
  executed" (Callback.cpp:509).
- Two threads that enter at once may both run the early initializer, and the later one
  stores over what the program wrote since (Segment.cpp:645).
- The wrapper with explicit arguments stores the seventh and eighth over the words of
  the function it interrupts, and leaves State::RSP one word higher for each entry
  (Callback.cpp:576, :607), so that a second callback of one native call starts over
  words of its caller (`FramesKept` says by how many); the initial and final code calls an entry of eight
  parameters with none; ExportVariables does nothing. Of these only State::RSP is modelled.
- The comment at Callback.cpp:308 has RSP 16-byte aligned on entry to a function, and
  the initial stack pointer follows it; in the ABI it is so before the call.

Machine runtime:

- A jump out of a lifted function that native code called leaves the address of
  attach_ret where detach finds it (print_ELF_64_linux.cpp:453, :316);
  `CalledByLifted` excludes it.
- The load and store of the control word are swapped
  in the routines' names. The 32-bit attach passes its arguments in the reverse of
  what its comment says, and lifted code is given a null State; its return stores the
  base of FS where it should be GS. The Windows generators lag behind.

LLVM passes:

- TLS: an invoke in a loop, or two aliases of one register at different bytes, would
  be miscompiled; `SupportedAssumption` says so. The list of XMM prefixes is commented
  out.
- va_listPass: a name that the map lacks gets RDI's number (va_listPass.cpp:475), so that
  its i64 alias, one of XMM8 for instance, stands for RDI (`Supported` excludes it); a
  general register without an alias is loaded through a pointer that was never set;
  vscanf falls into vfprintf's branch; XMM7 is never saved, though the helper's comment
  declares eight doubles; a call through a pointer saves nothing, and a program in
  which no call is seen leaves State empty. The pass looks one level up, so a va_list
  that is handed on twice is never saved for (`HandedOnce`), and a register that no code
  uses as a whole has no alias to be saved from (`Supported`). `PrintsItsOwn` is stated
  for calls that were saved, and says which are.
- fsRegisterPass makes one variable of eight bytes for each offset and asks neither how
  wide an access is nor whether it overlaps one at another offset; an offset that is no
  constant is followed through a null pointer (fsRegisterPass.cpp:370).
- rdtscPass: the comment at :530 has element 1, the code at :548 takes element 2;
  a module with rdtscp alone never sets up State. The result passes through one global
  for all threads. statPass rewrites users while it iterates over them (:366) and calls
  alloca at each call.
- printfPass: a width with a 0 in it (`%10d`), a precision behind a width (`%5.2f`),
  `%li`, `%hi`, `%lli`, `%hhi`, `%ji`, `%zi`, `%ti`, `%jo` (the pattern has `joo`) and
  `%lg` and its like do not match and take no argument (printfPass.cpp:851), and `%%d`
  takes one; a star takes no argument of its
  own against the comment at :882, a long double counts as an integer, doubles beyond the eighth
  or without an alias are dropped, the result is not stored. The search takes stores
  behind the call and follows first predecessors only, round a cycle for ever.
- Symbol passes: parameters of names with an underscore are never lowered
  (ExternalEntryPointCheck.cpp:161, against the list's pthread_create); its search does
  not end if no function is stored in the call's block (:287); a callback listed twice
  is lowered twice. `getCalledFunction()` is null on indirect calls. FlagRegisterOPT erases stores while it iterates over
  users and does not see other aliases of a flag. A list that is missing makes a pass
  do nothing, and count as done.

Runner:

- A file left over by an earlier run counts as done; EFACT's complement file is one for
  all programs; build_passes.sh writes `<pass>_llvm11.so` where the script loads
  `<pass>.so`; the lifter is started through the variable that names clang.

Types (each is left out by a clause of `Sayable`):

- A recursive struct, the grammar's own example, is refused by the parser: its body
  has no size while it is read, not even behind a pointer (TypeParser.cpp:235, :340).
- A union is serialized as its last member and not its largest, since `max_size` is
  never raised (type.py:314). Zero-length arrays are written and refused.
- The printer pads a structure by the store sizes of its elements, so the field behind a
  long double or an odd integer moves (TypePrinter.cpp:155); packed structures lose
  their packing, and one without elements is written `{}`, which is refused.
- bfloat is written as bytes; an integer of another width than the letters have is
  rounded up.

## Not modelled

- Rewriting of single instructions and constants: Instruction.cpp, both Optimize.cpp
  (but for what `PreservedRegs` has of mcsema's), Analyze.cpp and RecoverMemRefs.cpp. They translate one piece of IR into another;
  what they ask of the program is in `Program`, and their correctness would need a
  semantics of LLVM's IR and constant expressions.
- Tracers, and the table of names of Program.
- The text that is printed for 32-bit ELF and for Windows, and the ABI library's
  generator: other texts for the interface that `MachineRuntime` models, or no control.
- The front ends but for their types, whose behaviour is the disassembler's; names, JSON
  and the values of types (type.py's `extract`); remill's vendored headers.
- changeBugDateOffset, which the script does not run; the C helpers of va_listPass
  beyond what they are given.
- Signals, and exceptions: the landing pads' loads have no operand, see above.

## Plan

1. The entry with explicit arguments on the stack, as a variant of `NativeEntry`.
2. An abstract specification of a calling convention (values to disjoint
   places, in order) that `AllocationState` implements.
