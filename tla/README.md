# Verification of bela

bela is a C++23 utility library for Windows. Most of it is sequential code on
text and numbers; what is hard to test in it is what it does with the world
outside: files that other threads and processes write at the same time, pipes
and child processes, trees of files that others change while they are deleted,
streaming state that must not depend on how its input is cut, and caches that
must follow what they were made from. This directory holds TLA+ modules of those
parts, the TLC runs that check them on small instances, and TLAPS proofs of what
matters most for instances of any size. The pure parts are modelled as operators
and compared, on every input up to a length, with what their results mean.

1. [Inventory](#1-inventory)
2. [Plan](#2-plan)
3. [Modules](#3-modules)
4. [Runs](#4-runs)
5. [Fairness](#5-fairness)
6. [Proofs](#6-proofs)
7. [Where the code differs from what it says](#7-where-the-code-differs-from-what-it-says)
8. [What is not modelled](#8-what-is-not-modelled)

## 1. Inventory

Paths are relative to the repository. Everything is a library: the threads and
processes are those of its callers, and no part starts a thread of its own.

### Parts with state, concurrency or failure

| part | state | operations | what is hard | what makes it correct |
|---|---|---|---|---|
| `bela::io` (`include/bela/io.hpp`, `src/belawin/io.cc`) | files on the disk, open handles, the file pointer | `WriteText`, `AtomicWriteText`, `ReadFile`, `WriteFull`, `ReadFull`, the owner class `FD` | short and failing writes, sharing violations, a crash between write and move, a temporary name shared by the threads of a process | the file is at every moment absent or one whole text; "true" means that the caller's text is in the file; a reader gets one text |
| `bela::process` (`include/bela/process.hpp`, `src/belawin/process.cc`) | pipe handles, their inheritance, child processes, the Ctrl+C switch of the process, `out` | `Execute`, `Capture` | handles that a child of another thread inherits, the end of a pipe, a full pipe, error paths with two handles | all output is returned, no handle is left, a call returns when its child has exited |
| `bela::env::Simulator` (`include/bela/simulator.hpp`, `src/belawin/simulator.cc`) | search path, extensions, variables, the cached environment block | `InitializeEnv`, `InitializeCleanupEnv`, `AddBashCompatible`, copies and moves, `SetEnv`, `PutEnv`, `AppendEnv`, `InsertEnv`, `EraseEnv`, `PathAppend`, `PathPushFront`, `PathOrganize`, `LookPath`, `MakeEnv`, `ExpandEnv` | the block is cached, by a const function that several threads may call | a block is always the current one; `PathOrganize` keeps the first of equal entries, and the answer of `LookPath` where cleaning an entry leaves it the directory it is |
| `bela::hash` (`include/bela/hash.hpp`, `src/belahash`) | chaining state, a partly filled block, counters | `Initialize`, `Update`, `Finalize` of SHA-2, SHA-3, SM3, BLAKE3 | cuts of the input at every place, counters at their limits, the padding at the boundary of a block, a hasher used again | the digest is a function of the bytes, not of the cuts |
| `bela::bufio::Reader` (`include/bela/bufio.hpp`) | buffer, two indexes, the handle's position | `Read`, `ReadFull` | a piece longer than the buffer, a short read, a failed fill in the middle | callers get the bytes of the file in order |
| `bela::fs` (`include/bela/fs.hpp`, `src/belawin/fs.cc`) | a tree of files, handles, attributes, a Finder for each folder | `ForceDeleteFile`, `ForceDeleteFolders` | other deleters and users at the same time, deletion that is only pending, read-only files, links, two classes of deletion with a fallback | nothing outside the tree goes, "true" means deleted, no handle is left, every call returns |
| Win32 queries (`include/bela/env.hpp`, `src/belawin/env.cc`, `path.cc`, `realpath.cc`) | a buffer and its length | `LookupEnv`, `WindowsExpandEnv`, `PathAbsolute`, `RealPath`, `Executable` | the value changes between the call that asks for its length and the one that gets it | the answer is a value that was there; the loop ends |
| `hazel::zip` (`src/hazel/zip`, `include/hazel/zip.hpp`) | a file, offsets taken from its records | `Reader::OpenReader`, `Decompress` | records that contradict each other, 64-bit fields | no read out of bounds, an archive that is accepted is read as it was written |
| `Buffer`, `FD` (`include/bela/buffer.hpp`, `io.hpp`) | memory, a handle | moves, `grow` | the source of a move, a move to itself | one owner |

### Pure parts

| part | operations | what is hard | what makes it correct |
|---|---|---|---|
| paths (`src/belawin/path.cc`, `include/bela/path.hpp`) | `PathCat`, `SplitPath`, `BaseName`, `DirName`, `PathStripName` | roots of several kinds; a `..` with nothing before it | a cleaned path has no `.` and no inner `..`, does not leave its root, and cleaning is idempotent |
| command lines (`escapeargv.hpp`, `tokenizecmdline.hpp`) | `EscapeArgv`, `Tokenizer` | backslashes before a quote | what the first writes the second reads back |
| arguments (`parseargv.hpp`) | `ParseArgv` | an option and its parameter in one or two arguments | every spelling gives the same calls |
| wildcards (`src/bela/__fnmatch`) | `FnMatch` | the backtracking of `*`, classes that are not closed | agreement with the definition of a match |
| references (`simulator.cc`) | `ExpandEnv`, `PathExpand` | where a name ends | the text with each reference replaced by its value |
| time (`src/belatime`) | `Duration`, `Time`, `DateTime`, DOS dates, texts of durations | overflow in the sum of ticks, the last day of a cycle, fractions of an hour | exact or infinite; dates are those of the calendar; a text means what was written |
| versions (`semver.hpp`) | reading, printing, comparing | parts that may be left out | what is printed reads back; the order of the fields |
| conversions (`codecvt.hpp`, `escaping.cc`) | UTF-8 and UTF-16, `CEscape`, `CUnescape` | unpaired halves, numbers that digits follow | a text survives both ways |
| formats (`src/bela/__format`) | `StrFormat` into a string or a buffer | signs, padding, the end of a buffer | each directive is the field that is meant; what does not fit is told |
| numbers (`numbers.cc`, `int128.hpp`) | integers to text and back, arithmetic in two words | the least number, which has no magnitude; signs of the halves | the arithmetic of integers; what is printed reads back |
| splitting (`str_split.hpp`) | `StrSplit` by a text, a set, a length, a number of times | an empty delimiter, the last piece, the array that gathers pieces | the pieces and what is between them are the text |
| replacement (`str_replace.hpp`, `str_replace.cc`, `subsitute.cc`) | `StrReplaceAll`, `Substitute` | offsets that a replacement makes stale; two passes that must agree | leftmost and longest first; the room counted is the room used |
| PE files (`src/belawin/pe`) | imports, delayed imports, exports, symbols, sections, overlay | three numberings of one function, addresses outside of the section | the tables are those the file was made from |
| ELF files (`src/hazel/elf`) | sections, symbols and their versions, dynamic strings | two classes and two orders of bytes read by one code, places counted with the null symbol or without it | the tables are those the file was made from |
| Mach-O files (`src/hazel/macho`) | load commands, segments, sections, relocations, symbols, libraries; fat files | one set of sections for all segments, commands of a length the file tells | the same |
| file identification (`src/hazel`) | a table of signatures, tried in order | | the order |
| vendored: `gtl`, `belaund` (LLVM), `blake3`, `ryu`, `fast_float`, `static_string` | | | not bela's own |

### How the parts meet

`Process` passes `Simulator::MakeEnv`'s block and `EscapeArgv`'s command line to
CreateProcessW, through a pointer to a const `Simulator`, from whatever thread it
runs on: that is why MakeEnv is cut into steps in `Simulator` and `Process` into
threads in `ProcessCapture`. The zip reader reads through `bufio::Reader` and
`FD`. `io`, `fs` and the queries share the file system with every other process.

## 2. Plan

In this order, the parts where interleaving and failure matter first:

| | module | state |
|---|---|---|
| A | `AtomicFile` (abstract), `AtomicWrite` (implements it), `AtomicWriteProofs` | done |
| B | `ProcessCapture`, `ProcessCaptureProofs` | done |
| C | `Simulator` with `SearchPath` and `ExpandEnv`, `SimulatorProofs`, `AlgorithmProofs` | done |
| D | `BlockHash`, `BlockHashProofs` | done |
| E | `BufioReader`, `BufioReaderProofs` | done |
| F | `ForceDelete`, `ForceDeleteProofs` | done |
| G | `ValueQuery` (abstract), `WinQuery` (implements it), `WinQueryProofs` | done |
| H | `ZipReader` | done for the directory and stored files |
| I | `CommandLine` with `AlgorithmProofs`, `ParseArgv`, `FnMatch` | done |
| J | `Path` | done but for JoinPath |
| K | `Durations`, `DurationText`, `DateTime`, `AlgorithmProofs` | done but for the text forms of dates |
| L | `Codecvt`, `Escaping`, `Format`, `SplitReplace`, `SemVer`, `Int128` with `AlgorithmProofs`, `Numbers` | done but for floating-point numbers |
| M | `PeReader`, `ElfReader`, `MachoReader` | done for sections, imports, exports and symbols |
| N | the resources of a PE file, the identification of a file, the text forms of dates | not begun |

`AtomicFile` and `ValueQuery` are the abstract specifications: an indivisible
update or read of a text, and a query as one read of a value. For the pure parts
the specification is an operator beside the code's. G to N share no state with A
to F, so each is checked alone; the one composition the code has by shared state,
threads running children with one `Simulator`, is inside `Simulator`. The zip
reader reads through `bufio::Reader`, whose contract, BytesInOrder, it takes.

## 3. Modules

Each action stands for the code between two points where another thread, another
process or the kernel can make a difference; the comments in the modules name
the calls. Operators named "Slip" are the code with one plausible mistake; they
are in no specification, and each shows that a property can fail.

**AtomicWrite** (`io.cc`). `pc` is the Win32 call a thread makes next: create,
write, close, move, delete for the writers; open, size, read for the readers.
`disk` maps names to contents; as every writer truncates the file before it
writes, and no two have it open for writing, a content is a text and how many
blocks of it are there. `FileOf` is the temporary name `<file>.<pid>.new`.
WriteFile may write less than asked; each call may fail; `Crash(p)` ends all
threads of a process and leaves its files, and later calls come from a process
that may have got the same id. Sharing modes are those of io.cc: no handle shares
deletion, so an open file is not replaced. What the operating system has not
written to the disk when the power fails is outside the model. Volumes are one,
so MoveFileExW is one step.

**AtomicFile** is what `io.hpp` promises: `AtomicWriteText` is one update of the
file's text or none, a read returns a text the file held between its call and
its return. The refinement maps a write's commit to the move, and a read's to
the moment the file is opened.

**ProcessCapture** (`process.cc`). Threads that capture create a pipe, make the
read end private, start the child with every handle of the process that is
inheritable at that moment, close their write end, read to the end and wait.
Threads that execute turn Ctrl+C off for the process, wait, and turn it on. A
pipe is a queue of chunks that blocks its writer when it is full, and reports its
end when it is empty and nobody holds its write end. Children write, write
nothing (a write of no byte), close their output, exit, or hang.

**Simulator** (`simulator.hpp`, `simulator.cc`). The state is the class's members.
The operations are atomic on an object that no thread uses, except MakeEnv, which
is cut where it touches the cached block. Copies lose the variables, as the code
does. An entry of the search path is what of its text PathCat and PathOrganize's set
tell apart: its root, whether a separator follows, its names, whether a `..` has
nothing before it, whether nothing follows the root, and its case (`Entries` of
`SearchPath`). PathCat makes of it the text that the code makes: `..\bin` and `.`
become empty, `\tools` becomes `tools`, `C:x` becomes `C:\x`, and `C:\` becomes `C:`,
which is the root again when LookPath puts a separator behind it. LookPath is an
operator on the lists and the files that exist. The names of variables may be Path
and PATHEXT: only AppendEnv and InsertEnv know PATHEXT for a list, so SetEnv and
PutEnv put a second one into the map, and each of the four a second Path.

**BlockHash** (`sha256.cc`, `sha512.cc`, `sha3.cc`, `sm3.cc`). One module for the
families, by the variable `kind`, as they share the loop that collects blocks and
differ in how they count and pad. The compression function appends its block to
the state, so the digest of a message is the sequence of its padded blocks; the
reference `Padded` is the padding of the standards, computed from the length.
Counters wrap at `Modulus`.

**BufioReader** (`bufio.hpp`). One action per way through Read; ReadFull is Read
repeated (`want`, `full`). `Reported` is the length that fsread reports, the one
asked for, whatever was delivered.

**ForceDelete** (`fs.cc`, `fs.hpp`). The recursion is a stack of Finders. A worker
goes through CreateFileW (`Open`, `Reopen`), SetFileInformationByHandle
(`Dispose`, four attempts at most: two classes, each with and without the
attributes), the closing of the handle (`Return`) and the loop over the entries
(`Find`, `NextEntry`). The file system is external: a name that is marked for
deletion cannot be opened, and goes with the handle that marked it (POSIX
deletion) or with the last handle; a folder with entries refuses; FindFirstFileW
follows a link. Another process opens files, sharing deletion or not, and creates
one. `Setting` is what differs from run to run and is chosen in Init, so one run
covers them all.

**WinQuery** (`env.hpp`, `env.cc`, `path.cc`, `realpath.cc`, `pe/version.cc`). A
query is a sequence of calls of the system, `at` being the next one, with a buffer
of `size` in between; a text is a model value with a length. Before every call
others may change the value. `Queries` are the eight functions that ask for a
length first or grow a buffer; each has the order of calls and the test of the
result that its code has. **ValueQuery** is what a caller expects: an answer is
one read of the value while the query runs. It names the three that break it: LookupEnv and pe::Lookup,
which may do so only after a change, and RealPathEx, whose success may be an empty
path.

The pure parts are operators. `Inputs` enumerates their inputs: `what` is the part
asked about, `input` a sequence of tokens of its alphabet that grows by one in
every step, so that a run tries every sequence up to a length, and each property
is about the inputs of one part. The five properties that are proved, of command
lines, of search paths, of dates, of durations and of numbers of two words, are in
`Inputs`, which has no RECURSIVE operator; the others are in `Algorithms`, which
extends it. What a property compares with is stated last in the module of the part.

- **CommandLine**, **ParseArgv**, **FnMatch**, **ExpandEnv**, **Path**,
  **SearchPath**: characters and names are tokens. The loops of CommandLine are
  recursive functions of the characters they have gone through, so that they can be
  reasoned about; the null character, which ends an argument for the Tokenizer, is in
  no argument.
- **Durations**: the widths of the two words and the lengths of the units are
  constants, with `Unit` any of the nanoseconds, the 100 ns, the microseconds and the
  milliseconds that the code has a short way for. In the run seconds have a word of 5
  bits, plain numbers one of 3, and a second has 4 ticks, so that every overflow is
  near; the theorem leaves them open, so it is about the code's 64 and 32 bits and the
  4,000,000,000 ticks of a second too (DurationAssumption). The 128 bits of a product
  are not bounded in either. **DurationText** writes them
  with two digits, so that a quarter of a second has two of them; the units below a
  second are of one length. **DateTime**: a day has 16
  seconds; days are the code's own, all of 400 years from 1760 on. The two words of a
  DOS date and time are packed as DOS does, the time with fewer bits since its parts
  are smaller, and unpacked as the code does: its seconds are even.
- **ZipReader**: the file is a sequence of cells, a record's field or a byte of a
  signature each; the buffer of headers has 16. Archives are built from entries
  with and without a Unicode path or a 64-bit size, with data in front of them and
  a comment behind. Of the three fields that send the code to the 64-bit record the
  size of the directory is tried alone and with the others; without such a record that
  size is a size like any other.
- **Codecvt**: numbers of real code points and units. Where RuneNext reads behind its
  text the code point is `Beyond`, and nothing is claimed. **Escaping** works on units
  too, with the digits of a number in a 32-bit word.
- **SemVer**: numbers are written to base 2 and a word ends at 768, so that a
  number of ten digits may or may not fit, as in the code. `Printed` is the string of
  the length that was counted; what is written in front of it is lost.
- **Format**: the digits of a double are two characters, its style and precision;
  a string is a buffer of 1000, longer than any result.
- **Int128**: a word has two halves of `Half` bits, 32 in the code; the run has 2,
  the theorems leave it open. The product is that of the branch without an intrinsic;
  the build of MSVC for x64 takes the product of the low words from `_umul128`
  (int128.hpp:916), which is the same sum of halves. Long division is a recursive function, `After`, of the
  steps that its loop has taken. **Numbers**:
  numbers are printed to base 2, and a word is scaled so that one still takes ten
  digits and two take twenty; bases are those of the code when they are read.
- **SplitReplace**: StrSplit, StrReplaceAll and Substitute. The array that gathers
  pieces has room for 2, for 16 in the code; a view without any text, which has no
  pieces at all, is left out. Characters are tokens; `behind` is what Substitute
  reads behind the format.
- **PeReader**: a number or a name is one cell, whatever its width. `Image` lays a
  file out from libraries, exported functions and symbols.
- **ElfReader**: cells as well, of two bytes each, so that a number of the other
  order is another number. The input says what the file has: its class, its order of
  bytes, its symbols and their versions, and where it is damaged.
- **MachoReader**: cells. The number of a symbol and its flags, 24 bits and 8 in the
  code, have 4 and 8; the order of bytes is the machine's in every file that is read.

**MC...** modules give the constants their values. **...Proofs** modules hold the
theorems (section 6).

## 4. Runs

| run | what it asks | size |
|---|---|---|
| `AtomicWrite_processes` | two writing processes and a reader in the second one: the file stays whole, reads are of one text, "true" means written, and all of it implements AtomicFile | 171,714 states |
| `AtomicWrite_threads` | two writers in one process: the file may become half a text (finding) | |
| `ProcessCapture_threads` | two capturing threads and two executing ones, with children that do anything and inherit each other's handles: complete output, the read end stays private, no handle left, Ctrl+C works when the last Execute has ended, and every call returns unless a child that holds its pipe, or its own, goes on forever | 398,000 states |
| `Simulator_objects` | two objects and two threads, with copies and moves between them: no stale block, whatever the names set | 518,400 states |
| `Simulator_stale` | set-up operations after the first block (finding) | |
| `WinQuery_races` | every query against a value that changes between any two of its calls: it implements ValueQuery, and returns | 432 states |
| `BlockHash_families` | four families, messages of up to 20 bytes in blocks of 8, every cut, a hasher used again | 206,969 states |
| `BufioReader_within` | every sequence of reads of 1 to 8 bytes in a file of 14 with a buffer of 3 | 1,031 states |
| `BufioReader_eof` | the same, past the end of the file (finding) | |
| `ForceDelete_tree` | a tree of two folders, a link and a file; one worker alone, two with another process in the way, one that keeps its error_code | 207,856 states |
| `ForceDelete_missing` | a path that is not there (finding) | |
| `Algorithms_inputs` | the pure parts, sixteen properties, each on every input up to a length | 419,929 states |

The type invariants of `AtomicWrite`, `ProcessCapture`, `WinQuery`, `BlockHash`,
`BufioReader` and `ForceDelete` are in no run: TLAPS proves them for every instance.

Why the bounds are enough to meet the interesting cases:

- *AtomicWrite*: a text of two blocks can be half written, one of one block is
  shorter than the other, so that a shorter text may replace a longer one under a
  reader; two writers and a reader are all that a race on one file needs. The
  theorems say the rest. Plain writers (`WriteText` on the file itself) are in no
  run, as the file is then not whole by design; theorem OkMeansWrittenHolds covers
  them.
- *ProcessCapture*: a pipe of one chunk and children that write two is the least
  with a full pipe and a blocked child. With two pipes, a child inherits the other
  thread's ends in each order. Two threads are in a call at one time (MaxCalls), so
  that two of them capture, or execute, or one does each: the first two share
  handles, the next two the switch, and an Execute, whose child inherits nothing,
  shares nothing with a Capture. The theorems have no such bound that matters.
- *Simulator*: two objects are a source and a target; the names set are an ordinary one,
  which the process and AddBashCompatible have too, and PATHEXT, with a list of its own.
  A variable has one value at most (MaxVals): a block is stale or not whatever the values
  are and at whichever end of a variable one is put; the theorems have no such bound. The
  entries are changed by PathCat. Search paths of three entries,
  asked about in `Algorithms_inputs`, allow two spellings of one directory around another
  one, or a directory that becomes another when it is cleaned, and pairs of files decide
  an order of search.
- *WinQuery*: the first buffer has three units; the texts are empty, shorter by
  one, just as long (so that the terminator does not fit), longer, and twice as long.
- *BlockHash*: in a block of four words, messages end in, just before and behind
  the last place that leaves room for the length; 20 bytes are two and a half
  blocks; the modulus of 16 makes the counters of SHA-256 and SM3 wrap.
- *BufioReader*: 8 is more than two buffers, 14 is no multiple of 3.
- *ForceDelete*: two levels give a folder that is emptied and deleted inside
  another; a link beside it; a file that two workers delete, one as a target of
  its own and one as an entry; a file that appears in the inner folder.
- *Algorithms*: the tokens are the least alphabet that takes every branch, and the
  lengths (MaxLen, for each part) allow any two of its rules to meet: a quote with
  two backslashes before it inside of an argument, two stars with a slash between
  them, a library that is imported twice. Words are made small (section 3) where
  their limits matter.

Bounds in guards are MaxOut, MaxCalls, MaxPaths, MaxExts, MaxVals, MaxPiece, MaxAsk and
MaxLen. Deadlock is checked except in the runs of BufioReader, whose callers may
have read the whole file, and in that of Algorithms, which ends when the inputs do.

## 5. Fairness

- `ProcessCapture`: weak fairness of each thread's own steps (`CaptureStep`,
  `ExecuteStep`): once a call has begun its thread is scheduled, and a step that
  stays enabled is taken, since nothing but the kernel stands between them. A
  thread need not begin a call. Nothing is assumed of children, so
  WaitsForChildrenOnly says what a call may wait for: its own child, or one that
  holds the write end of its pipe. A child that hangs does hang every Capture whose
  handle it inherited.
- `WinQuery`: weak fairness of `Step`, the query's own calls. Neither failures nor
  changes are fair: the loop must end with a system that never fails and a value
  that changes before every call, since a buffer that was too short is replaced by
  a longer one and some text is the longest.
- `ForceDelete`: weak fairness of `Step(p)` for each worker. The other process is
  assumed nothing of: no call waits for it, as a file it holds makes a call fail.
- The other modules state safety only.

## 6. Proofs

Proved with TLAPS from the assumptions of the modules (named `...Assumption`; TLC
evaluates them on every run):

| theorem | statement | besides the module's assumptions |
|---|---|---|
| `AtomicWriteProofs!TypeCorrect` | `[]TypeOK` | |
| `AtomicWriteProofs!OkMeansWrittenHolds` | a writer told "true" has its text in the file | DistinctPids |
| `AtomicWriteProofs!FileStaysWhole` | `[](TargetWhole /\ ReadsOneText /\ NoEarlyEOF)` | DistinctPids, no plain writers |
| `AtomicWriteProofs!ImplementsAtomicFile` | AtomicWrite implements AtomicFile | the same |
| `AtomicWriteProofs!ReadersGetOneText`, `NoReadEndsEarly` | `[]ReadsOneText`, `[]NoEarlyEOF` | the same |
| `ProcessCaptureProofs!TypeCorrect` | `[]TypeOK` | |
| `ProcessCaptureProofs!AllOutputIsCaptured` | `[]CaptureComplete` | |
| `ProcessCaptureProofs!HandlesAreClosed`, `ReadEndStaysOurs` | `[]NoHandleLeft`, `[]ReadEndNotInherited` | |
| `ProcessCaptureProofs!CtrlIsRestored` | `[]CtrlRestored` | |
| `WinQueryProofs!TypeCorrect` | `[]TypeOK` | |
| `WinQueryProofs!QueriesReadOnce` | WinQuery implements ValueQuery | |
| `SimulatorProofs!MakeEnvIsCurrent` | `[]MakesCurrentBlock` | Discipline: set-up before the first block, one thread per object |
| `SimulatorProofs!TypeCorrect` | `[]TypeOK` | OwnThreads: one thread per object |
| `AlgorithmProofs!OrganizeFindsTheSame`, `OrganizeAlwaysKeeps` | `KeepsAnswer` for every search path, `[]OrganizeKeepsAnswer` | |
| `AlgorithmProofs!DatesFollow`, `DatesAlwaysFollow` | `FollowsTheCalendar` for all days, `[]DatesFollowTheCalendar` | |
| `AlgorithmProofs!DurationsAreExact`, `DurationsStayExact` | `DU!ExactOrInfinite` for all durations, widths of words and units, `[]DurationsExactOrInfinite` | |
| `AlgorithmProofs!CommandLinesRoundTrip`, `CommandLinesAlwaysRoundTrip` | `CL!RoundTrips` for all arguments, `[]CommandLineRoundTrips` | |
| `AlgorithmProofs!WideNumbersAreExact`, `WideShiftsAreExact`, `WideNumbersStayExact` | `WI!Exact` and `WI!ShiftsExact` for all numbers and every width of a word, `[]WideNumbersExact` | |
| `BufioReaderProofs!ReaderInOrder` | `[]BytesInOrder` | WithinFile |
| `BufioReaderProofs!BufferIsAhead`, `TypeCorrect` | `[](HandleAhead /\ BufferAhead)`, `[]TypeOK` | WithinFile |
| `BlockHashProofs!TypeCorrect`, `NothingIsLost` | `[]TypeOK`, `[]BytesKept` | |
| `BlockHashProofs!DigestIsOfStream` | `[]DigestOfStream` | no piece given to SM3 is longer than its counter counts |
| `ForceDeleteProofs!TypeCorrect` | `[]TypeOK` | |
| `ForceDeleteProofs!OutsideStays` | `[]OutsideKept` | |
| `ForceDeleteProofs!DeletedIsGone` | `[]OkMeansGone` | `Targets \cap Late = {}` |
| `ForceDeleteProofs!NothingForgotten` | `[]MarkedIsGone` | |
| `ForceDeleteProofs!AloneSucceeds` | `[]AloneDeletes` | |

The arguments:

- *AtomicWrite.* TargetWhole is not inductive: a temporary file that is about to
  be moved must be whole too. `WriterInv` says that no two writers have one file
  open for writing (OneWriter) and that a writer's file holds what it has written
  so far (FileMatches); it needs distinct process ids and share modes. Over it,
  `IInv` adds TargetWhole and BufferMatches: the blocks in a reader's buffer are
  the beginning of the file it has open, which cannot be replaced meanwhile. Then
  only `Move` changes the file (TargetSteps), and every step maps to a step of
  AtomicFile or to none.
- *ProcessCapture.* `Inv` is, for every capturing thread, what its call may hold at
  each of its steps. HandlesOf: a write end is never open in a thread that reads,
  and the read end is never given to the thread's own child. ChildOf: a child runs
  only between its start and the end of the wait, and a call whose reading was not
  cut short waits with an empty pipe that its child cannot write to. Counted: the
  chunks in the pipe and those in `out` are together what the children wrote, or
  less after a cut. A child of another thread may hold ends of the pipe at all
  times: it writes to its own output only, so it delays the end but adds nothing.
  CtrlRestored is inductive: the switch is turned on by a thread that goes to wait,
  and a thread that leaves the wait turns it off, whoever else is in it.
- *WinQuery.* Origin: the call that is next belongs to the query that runs.
  Measured: as long as the value has not changed, the second call of LookupEnv, and
  the read of a version, have a buffer that the value fits. So the two answers that
  are no read of the value (Spoil) need a change, the empty path (Blank) is RealPathEx's, and all others
  return what one call read, after a test that it fitted.
- *Simulator.* `IInv`: when no thread is in MakeEnv on an object, its block is
  empty or current (CacheFresh); inside, it holds the parts appended so far
  (PartsFresh). Every operation that changes an object clears its block or comes
  before it; that is the lemma TouchesKeeps, cited once per operation. Without
  Discipline both hold no longer. TypeOK needs less of the callers, and more of the
  state: `TInv` adds `PartsCounted`, how many parts a block has at each step of the
  thread that makes it. An operation that is not allowed for by SetUpFirst may leave
  a finished block, but never one that grows beyond three parts. That PathOrganize
  makes no list longer is OrganizeWell of `AlgorithmProofs`.
- *Search paths.* Organize is a recursive function over the entries: that there is
  such a function is shown for 0, 1, ... entries (KeptExists), by induction in the
  form that a set of numbers has a least element (LeastOfSet, UpTo), since the
  library's rules with an operator parameter cannot be used. `KeptWell` is kept by
  each entry: what is kept is of different texts, and `Placed`, in the order in which
  the cleaned entries came first. Of two lists so related, LookPath finds the same
  (FoundFirst), in whatever place the current directory and the name without an
  extension are tried. The entries as they were, instead of the cleaned ones, find the
  same if each is `Anchored`, which says exactly which entries are the same directory
  when they are cleaned (CleanedIs).
- *Dates.* `InCycles` is a day as cycles of 400, 100 and 4 years, years and days, as
  MakeDateTime computes them (MakesDate, with WholeIs for the last day of a cycle).
  They are only one day's (CyclesUnique), and so are the months (MonthUnique): what
  follows a day (NextInCycles) must therefore be what MakeDateTime computes for the
  day after. That years from March on and years from January on are the same is
  JanuaryOf and TablesAgree; DateCounts says that the days of the years, the months
  and the month before a date are the day it is of, which gives Time, GetWeekday and
  FromDosDateTime. That the two words of DOS give back their parts, the seconds to two,
  is DateUnpacks and DosUnpacks.
- *Durations.* Everything is compared with `Saturated`: of an integer it is its seconds
  and ticks, or an infinity (SaturatedIs). A sum wraps round by at most one range
  (WrapIs), and compares with its left side the wrong way exactly if it did. Products
  and quotients are made from the magnitudes (MakesDuration), which have one value
  more below zero. C++ divides towards zero (QuotUp, QuotDown); that division by
  whole seconds or by a unit may go word by word is BySeconds and ByUnits, so the
  short way (FastPathIs) and the long way give one result (DivisionIs), of which Trunc,
  Floor and Ceil and the counts of units are made. Conversions: the seconds of the
  ticks and the minutes of the seconds are the minutes of the ticks (ToMinutesIs), and a
  negative duration is rounded towards zero by adding a unit less a tick (TimespecIs).
  DurationAssumption says what this needs of the constants: a word of ticks holds more
  than a second, and what is counted the short way fits into a word.
- *Command lines.* A recursive function over the characters exists as each value is
  made from the one before (MadeExists, the step being a function, so that the lemma
  can be cited), and two that agree so far are equal (SameValues). `At` says how far
  the Tokenizer has read a line and with what, `Pending` that the backslashes
  EscapeArgv has counted are the last it wrote. So `Ahead` is kept: with the text of
  the first k characters of an argument read, these are in the token. The steps are
  AheadSlashes, AheadHalf (of the backslashes before a quote), AheadQuote, AheadLetter
  and AheadBreak, put together by AheadStep and AheadOfAll; ReadsAll goes over the
  arguments (`ReadBack`). Whatever is read is Safe: a break only gets into a token
  within quotes, where EscapeArgv has written a space. So an argument that is not
  cannot come back, which is the other half of TokenizesBack, and what StripIs,
  SameReads and CalmAtEnd say about the whitespace that the Tokenizer strips first
  keeps it so. A second use of a saver goes on where the first ended (AssignTwice).
- *Numbers of two words.* `IsFor(v, n)`: a pair of words stands for the integer n,
  its value and n being congruent modulo the range R of two words (`Cong`); a signed
  pair likewise (`IsSignedFor`). Congruence goes through sums and products
  (CongFacts) and is equality inside of the range (CongOnce), so each operation is
  shown to stand for the integer operation (PlusIs, MinusIs, NegatedIs, TimesIs,
  ShiftsLeft), once for both kinds, and what its value is follows (ForIs). Carries
  are CarryIs. Shifts to the right are quotients of quotients (DividesBoth,
  DividesHigh). Long division keeps `Divided`: the dividend is the quotient times
  twice the denominator, and a remainder less than that; a step halves the denominator
  (StepDivides), by induction up to the last (LongDivisionIs), where it is the divisor;
  that the function exists is DivisionExists. The signs of quotient and remainder are
  QuotientIs. Powers mean nothing to the provers: PowersOfTwo assumes how a power of
  two is made from the one before, up to the bits of two words, which TLC evaluates,
  and PowersMultiply follows.
- *BufioReader.* BytesInOrder needs BufferAhead (the bytes in the buffer are the
  next ones) and HandleAhead (so is what the handle will deliver); with Within,
  which WithinFile keeps, a fill that reports too much is never used up.
- *BlockHash.* `Held(h, m, D, n)`: the bytes compressed and those in use of the block
  are the first n of D. Update keeps it for the message (FillHeld, by the three ways
  through Fill), and `Counted` says what each family's counter knows of n, which is
  enough to find the end of the block in use (IndexIs), as a word holds a whole number
  of blocks. For the digests of SHA-2 and SHA-3 the last blocks are compared with the
  padded message byte by byte; SM3 pads with two more Updates, so FillHeld serves
  again, with the padded message for D. That the high word of SM3 is right needs
  `DInv`: `high` is how often the counter has wrapped round, which holds as long as a
  piece is shorter than the counter's range. Quotients and remainders come from
  lemmas of the module's own.
- *ForceDelete.* `Placed(p)`: the path a worker is at is inside the trees, its
  Finders are a chain of folders inside, none of them a link, that begins at the
  call's own path, and "not empty" was said of a folder. It makes what is pending
  inside (OutsideStays). `Truthful(p)`, for callers with an error_code of their
  own, adds that the error tested in CreateFileW's failure is never the one that
  counts as deleted, that "true" is about a path that is gone or marked, and that
  it stays so (StaysGone), as names only come back if another process creates them.
  `HInv`, for NothingForgotten, says that every marked path has an open handle or a
  Finder on it, and (`Holding`) at which steps a worker has a handle: an idle one has
  neither, so a marked path is then held by another process or gone. `AInv`, for
  AloneSucceeds, is about a worker that nothing disturbs: each of its Finders has
  in `left` all that is still in its folder, but for the entry it is at (`Deep`), so
  a folder it disposes of is empty. No two Finders are of one folder, as no folder
  is in itself (AcyclicAssumption, which every file system keeps).

The invariants of `ForceDelete` and `Simulator` were checked by TLC on the instances of
`ForceDelete_tree` and `Simulator_objects` before they were proved.

Only model-checked:

- the liveness properties `WaitsForChildrenOnly`, `EveryQueryReturns` and
  `EveryCallReturns`, which need fairness and ENABLED, out of reach of the installed
  prover;
- the other properties of `Algorithms`: what they are about is recursive over the
  characters of a text or the cells of a file, with RECURSIVE operators or folds,
  and what such an operator computes for every input needs an induction over data,
  out of reach too. The five of `Inputs` are the ones whose operators could be had
  without; of durations this is the arithmetic, while their texts are model-checked
  with the other numbers (NumbersReadBack).

## 7. Where the code differs from what it says

Each of these is a run that TLC finds violated:

- `AtomicWrite_threads`: io.hpp:245 calls AtomicWriteText atomic; the temporary
  name is made of the process id only (io.cc:220), so two threads of a process
  share it.
- `Simulator_stale`: set-up operations and assignments leave the cached block
  (simulator.cc:223, simulator.hpp:54, 68).
- `BufioReader_eof`: fsread reports the length it asked for (bufio.hpp:78), so
  "unexpected EOF" (bufio.hpp:38, 59) is never returned.
- `ForceDelete_missing`: the error tested after CreateFileW is the caller's
  `ec`, not the one read in the line before (fs.cc:65-66).

These were met in modelling and have no run of their own: no comment, test or document
says otherwise (but for one about splitting), or only a caller's mistake meets them. The models do what the code does;
the properties say where they leave such a case out.

- *Processes.* A comment in process.cc:68 says that the read end is not inherited,
  which is untrue for a child that another thread starts before line 69. An Execute
  that returns turns Ctrl+C back on under another thread's Execute.
- *Simulator.* Two threads that run children with one `Simulator` may get a block
  with the Path only. PathOrganize makes other directories of entries that are not
  absolute, such as `..\bin`, `\tools` and `C:x` (simulator.cc:323). SetEnv and PutEnv of
  Path or PATHEXT, and AppendEnv and InsertEnv of Path, make a block that names it twice
  (simulator.hpp:168). Both copies of a `Simulator` drop the variables
  (simulator.hpp:50). `${@}` looks up the name `@}`, as substr takes a length
  (simulator.cc:21).
- *Files.* A call of ForceDeleteFile that fails after one that did not find its file
  counts as done if they share an error_code.
- *Queries.* LookupEnv returns zeros or a part of a value if the value grows between
  its two calls (env.hpp:31). Executable and ExecutableFinalPath ask for ever with
  the same length when the path does not fit (realpath.cc:90). Of the
  prefix of a UNC path the final C is kept (realpath.cc:62). RealPathEx makes a success
  with an empty path of a FullPath that failed (realpath.cc:203) and of an app link
  without a target (realpath.cc:210). pe::Lookup
  reads a version that has grown into the buffer of the old one (version.cc:54).
- *Hashes.* SM3 counts a piece of 2^32 bytes or more modulo 2^32 (sm3.cc:182).
- *Zip.* The third length of a block, 5M, is never tried (zip.cc:98); the 64-bit
  record is looked up without the base offset (zip.cc:124); Sub adds where it should
  subtract (endian.hpp:225), so the names of later entries may come from what an
  earlier one left in the buffer; MoveFrom moves the handle in
  the other direction (zip.hpp:119).
- *Time.* A date before 1970 becomes the epoch (datetime.cc:143). 500 ns and 500 ms
  print alike (format.cc:51). A fraction of an hour with very many digits becomes
  infinite before it is divided (duration.cc:912).
- *Splitting.* A comment says that SkipWhitespace skips pieces of spaces only; it
  keeps them, as StripAsciiWhitespace leaves such a text alone (ascii.hpp:222), which
  for an empty text also reads what is in front of it.
- *Numbers.* A wide character is looked up as its low byte when a number is read
  (numbers.cc:1514), so that a character behind the first 256 may pass for a digit.
- *Text.* A line feed ends an argument for the Tokenizer and needs no quotes for
  EscapeArgv (escapeargv.hpp:75). `***` does not match the empty text, as a star is
  tried on no rest (fnmatch.cc:138). The separator of the root `\\?\` is doubled by
  PathCat. RuneNext reads one byte behind a text whose last sequence lacks one, or behind
  half a pair, and what it leaves is no text (codecvt.hpp:445, 461). Under Period a star reads
  the first character of a text that has ended (fnmatch.cc:116): what is behind decides,
  and the check holds for either.
- *Versions.* Numbers of seven digits are counted as six: the string lacks its first
  character, which is written in front of the buffer (semver.hpp:115, 266), so that such a
  version does not read back. The check leaves these versions out. Differences of more than half of a word have the
  wrong sign (line 333). `1.2-rc` is a version though `1.2` is not. Names are
  compared as far as the text goes, and what is read then is behind its end (line
  146). Reading into a version that was used keeps its build (line 292).
- *Formats.* `%%` behind the last argument prints both (fmt.cc:68). Text is padded
  with zeros if asked to. `%v` of a pointer prints nothing, nor does a double of
  more than 64 characters. A buffer that is filled by single characters has no
  terminating zero (writer.hpp:21). Substitute reads one character behind a format
  that ends with `$` (subsitute.cc:104).
- *PE files.* A section that ends behind the file is read as an empty one, without
  an error (section.cc:45). Of two descriptors of one library the second is lost
  (imports.cc:75). A delayed import whose names are outside of the section ends the
  search (delayimports.cc:47). A name that has no end is searched for behind the
  section (bytes_view.hpp:84).
- *ELF files.* The checks claim what was meant, and nothing where the code does not do
  it: of 64-bit symbols, of a table of the null symbol alone, of the imports beside
  defined global names, of the size of a compressed section and of Rupath. Of the symbols of a 64-bit file the null one is kept and the last is
  lost, so each is one behind its version (symbol.cc:64); a 32-bit file is right. The
  value of a symbol is the number of its section and its section is none
  (symbol.cc:38 and 74), so every global name, a defined one too, is imported
  (gnu.cc:93). What a compressed section says of itself is read where its header
  is, not its data (elf.cc:228). Rupath asks for DT_RPATH (elf.hpp:196).
- *Mach-O files.* Again nothing is claimed of what follows. A file of the other order of bytes is never recognised
  (macho.cc:61). The sections of a segment are written over those of the segment
  before it (macho.cc:361) and keep its relocations where they have none. A fat file never opens, as
  it gives up when its first entry is read (fat.cc:65).

## 8. What is not modelled

The code of bela that has behaviour of its own is a small part of the tree. Most of
its lines are vendored or data: LLVM's demanglers (`src/belaund/llvm`), the
containers of `gtl`, `static_string.hpp`, ryu and fast_float with their tables
(`src/bela/__charconv`), BLAKE3, tables of signatures, media types and code points.
Their definitions are elsewhere, and a model of them would say nothing of bela; that
is why the modules stand for a few thousand lines and not for more.

Of bela's own:

- in *modelled parts*: the encodings of ReadFile and the class FD; JoinPath; the
  folding of case in FnMatch and of names; compressed entries of an archive, its
  times, links, modes and AES fields; operations of durations with doubles, text forms
  of dates and the clock; the digits of a double; the compression functions of the
  hashes and the hexadecimal form of digests; relocations, resources, .NET metadata
  and the searcher for symbols of PE files; fields of headers that only are copied; the wording of every error.
- *File identification*: a list of signatures, tried in order.
- *Buffers and owners*: a move resets the source, a destructor frees.
- *Floating-point numbers* (`SixDigitsToBuffer`, conversions of 128 bits to double,
  from_chars): a model with exact numbers would say nothing of their rounding.
- `StrCat`, `StrJoin`, comparison without case: concatenations and single loops.
- *Terminal and dialogs*: input and output.
