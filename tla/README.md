# UReactor in TLA+

A verification project for UReactor, a C++20 base library: stackful
coroutines (fibers) on Boost.Context, a configuration registry with change
notifications and a YAML loader, a logger, and utilities. All of it runs in
one process on any number of OS threads and is used through `shared_ptr`s.
The modules follow the code under `src/ureactor`; line numbers in comments
are of that code.

## The system and how its parts interact

| component | state it keeps | operations | hard part | modules |
|---|---|---|---|---|
| Fiber (`src/fiber.cc`) | per object: `state`, `suspendState`, `waitReason`, `operating`, `exception`, the two Boost handles; per thread: `g_currentFiber`; global count | construct, `resume`, `YieldToReady`, `YieldToHold`, `wake`, `reset`, `GetThis`, destroy | threads race on one object; jumps between stacks; unwinding inside the destructor; who drops the last reference | `FiberLifecycle`, `Fiber`, `FiberInvariant`, `FiberProofs`, `MCFiber` |
| ConfigVar (`config/config_var.h`) | the value (atomic `shared_ptr`), two mutexes, the list of listeners, the global id counter | `setValue`/`notify`, `addListener`, `removeListener`, `clearListeners` | listeners run user code outside the locks: re-entry, exceptions, other writers | `ConfigVar`, `ConfigVarProofs`, `MCConfigVar` |
| Config registry (`config/config.cc`) | name to object, under a shared mutex | `Lookup`, `LookupBase`, `Visit`, `ClearAllListeners` | find and create are two critical sections; types | `Config`, `ConfigProofs`, `MCConfig` |
| Config loader (`config/config.cc`) | path to write time of the last successful load | `LoadFromYaml`, `LoadFromConfDir` | files change while they are read; partial failure; retry | `Config`, `ConfigProofs`, `MCConfig` |
| Conversion (`config/convert.*`, `CollectMembers`) | none | numbers, booleans, containers from and to YAML; names and members of a file | boundaries of types, prefixes and signs; nested and doubled names | `Numbers`, `Convert`, `Text`, `TextProofs`, `MCText` |
| Logger and Appender (`logger/logger.cc`, `appender.cc`) | manager: loggers by name; per logger: level, formatter, list of appenders, root; per appender: level, file | the macros (`shouldLog`, `~LogLine`), `submit`, `append`, `flush`, `sync`, `GetLogger`, list and level changes, the destructor | the list changes between `shouldLog`, `submit` and the loop; delegation to the root; when output leaves the process | `Logger`, `LoggerProofs`, `MCLogger` |
| Formatter (`logger/formatter.cc`) | items of the pattern; per thread one date cache | `parse`, `format`, `setFormatter` | cache keys and failures half way, growing buffers, times before the epoch, edges of the pattern grammar | `Pattern`, `Formatter`, `Recursion`, `FormatterProofs`, `TextProofs`, `MCFormatter`, `Text`, `MCText` |
| Log buffers (`logger/buffer.h`) | inline array, heap vector, size | `append`, `view` | the spill, missing memory | `InlineBuffer`, `Statements`, `StatementsProofs` |
| LogLine, LogPrintf (`logger/log_line.cc`), thread names (`utils/thread_utils.cc`), assertion reporter (`macros.h`) | the unfinished statements and reports of a thread, its name, a thread-local flag | construct, stream, print, submit; `SetThreadName`; report | statements and reports inside one another's messages; exceptions; views of the name | `Statements`, `StatementsProofs`, `MCStatements` |
| Strings (`utils/string_utils.cc`) | none | UTF-8 to wide strings and back; trim | overlong forms, surrogates, both widths of `wchar_t` | `StringUtils`, `Text`, `TextProofs`, `MCText` |
| SpinLock, files, system, singleton, type names, `report_error.cc`, `log_level.cc` | little or none | wrappers of the C library and the OS | none a model would show | not modelled |
| Boost.Context (vendored, `fiber_fcontext.hpp`) | the handle of a stack | jump, forced unwind | a handle is empty after it was used; a destructor may start a stack | what `fiber.cc` uses, in `Fiber` |

The interactions: `LoadFromYaml` finds variables in the registry and calls
`fromNode`, which calls `setValue`; `setValue` calls listeners, which may
call anything again. `LogLine` asks `shouldLog` when the statement begins
and calls `submit` when it ends; a logger without appenders calls the root's
`submit`; `append` takes the appender's mutex under the logger's shared
mutex. `Fiber` is independent of the rest (a record only carries the id of
the current fiber).

What makes each part correct is stated in `PROJECT.json` under `hazards`,
each at its line, with the properties that cover it.

## Modules and the code

### Fiber

`FiberLifecycle` is the abstract promise of `fiber.h`: each object has a
status and a flag "a call is active"; the status moves INIT to EXEC, to READY,
WAITING, TERM or EXCEPT, back by `resume`, `wake` and `reset`.

`Fiber` is the code. A *strand* is a stack: a thread's own, or a fiber's. A
strand's `pc` says between which two points of the code it is; every atomic
operation and every section under `stateMutex` is a step of its own, so that
all interleavings another thread can notice are there. The steps are:

* construction: `Construct`;
* `resume`: `ResumeEnter` (line 157, with `OperationGuard`, 46), `ResumeCheck`
  (the section 160 to 167), `ResumeSwitch` (the jump, 169), `ResumeLand` (the
  way back, 170 to 172, with the guards' destructors), `Leave` (clears the
  flag), `Release` (drops `keep_alive`, possibly running `~Fiber`);
* `yield`: `YieldPublish` (177 to 183), `YieldSwitch` (184);
* `run`: `FinishTerm`, `FinishThrow` then `FinishExcept`, `ExitSwitch`;
* `wake`: `Wake`; `reset`: `ResetEnter`, `ResetVerify`, `ResetClear`,
  `ResetInstall` (146 to 148), `ResetStore` for each of the three stores 149 to
  151, `ResetDone`. These stores are relaxed and not under `stateMutex`, so they
  come one at a time and in any order; one that comes again changes nothing, for
  nobody else writes to the fiber meanwhile;
* `~Fiber`: `DestroyBegin`, the forced unwinding in which user destructors
  run and may call the library (`UnwindEnd` ends it), `DestroyEnd`;
* ownership: `owned` is "somebody outside holds a `shared_ptr`", the
  keepers are the calls in progress; `DropOwner` and `GetThis` change them.

Boost's handles are the strand they lead to, or `Nobody`. `JumpToCaller` is
`resume() &&` of Boost's `fiber`: the jump empties the handle it goes through,
and the handle of the stack it left comes back to the one that called `resume`,
where `Keep` stores it (169). `Unwinding` is what `~fiber` does to a stack that
is suspended; `NoCrash` says that no jump goes through an empty handle.
User code may make any call at any time from any stack on any object it can
name. Two legal limits: it does not yield out of a destructor, and it does
not run for ever (only for liveness).

### ConfigVar

Each thread has a stack of frames, one per call of `setValue` or
`addListener` in progress, so a listener that calls `setValue` again is a
frame on top of the frame that called it. `SetLock`, `SetEqual` and
`SetStore` are the section under `m_writeMutex`; `Snapshot` the copy under
`m_listenersMutex`; `Call` and `CallEnd` one listener's run, which may end
with an exception: `notify` catches it and goes on, so both ends are one
action. History variables: `outcomes` (what each decided `setValue` found and
left), `removed`, and in the frames `stayed`, `called` and `gone`.

### Config

One module for both halves of `config.cc`, for they meet in `datas`. A
variable's value is abstracted to where it comes from (default, program, a
YAML node, a version of a file), which is what the properties tell apart; a
node is its full name and the set of types it converts to. Lookup is
`LookupFind` (shared lock), `LookupEmplace` (creation and the exclusive lock)
or `LookupFails` (the creation throws or yields nothing), and `LookupEnd`
(`CheckType`). `Visit` and `ClearAllListeners` are the snapshot
they take. A load of a directory takes the files that are left in the order
of their paths (`IsNext`, the order of `std::sort`), each through `LoadStat`,
`LoadCheck`, `LoadErase`, `LoadRead`, one `Apply` per node, and `LoadMark` or
`LoadUnmarked`; `LoadStatThrows` and `LoadReadThrows` are the two places
where a file can fail with an exception. The environment writes files, each
version with its own write time, and moves them away and back. `missed` and
`failed` are history. Names are normalized and valid already; how they become
so is `Convert`.

### Logger

`LogBegin`, `AskLevel`, `AskAppenders` are the macro with `shouldLog`, which
looks at each logger in two steps; `SubmitLevel`, `SubmitOwn`, `SubmitRoot`,
`Format`, `FormatThrows`, `AppendLevel`, `AppendWrite`, `SubmitEnd` are
`submit` and `append`; `FlushBegin` to `FlushEnd` are `flush` and `sync`.
`sharing` is who holds the shared mutex; changes of lists are one step that
waits until nobody does. `written`, `flushed` and `synced` count what is in an
appender, has left the process and is on the device. The program may drop its
reference to an appender; the last one runs the destructor, which flushes a
file. Records carry no text. `stay`, `list` and `refused` are history.

### Formatter

`Pattern` is `parse` as one recursive function over the rounds of its loop.
`Formatter` is a call of `format` under the logger's shared mutex: `PlainItem`
is any item but `%d`; a `%d` is `DateHit`, or `DateMiss` (the entry is given
up), then `DateStore`, or `DateGrow` as often as needed, or `DateLimit`. Each
can end with missing memory (`OutOfMemory`), a second `localtime_r` refuses
ends the call in `DateMiss`; submit's `catch` then loses the record and keeps
the state of the cache. `SetFormatter` is the exclusive lock. How a number is
spelled is a constant (`Numeral`, `std::to_chars`), and texts are made of
`Tokens`. Integer division
is C++'s where the code divides and rounds down where it calls `floor`.

### Statements and buffers

`InlineBuffer` is the buffer as operators. `Statements` is one thread's stack
of unfinished statements and reports, the innermost first: a message is an
expression of the caller's, so anything may happen between `StreamBegin` and
`StatementEnd`, also `Throw`, after which `StatementUnwound` submits what
there is and `ReportCatches` ends the exception. `InsertFails` is a stream
gone bad for want of memory. `PrintfBegin`, `PrintfInline`, `PrintfOverflow`,
`PrintfError`, `PrintfThrows`, `PrintfCut` are `LogPrintf`. `ReportBegin`,
`ReportNested`, `ReportEnd` are `ReportAssertionFailure`; a Debug build aborts
after it. `name` is the thread-local string with the number of its storage,
which every assignment changes, so that a view tells if it is stale.

### Text

`StringUtils`, `Numbers` (`ParseArithmetic`), `Convert` and `Pattern`, with
folds and recursive functions, are the pure algorithms. In `Convert` a type is
the sequence of its containers with the scalar type inside, as the templates of
`ConfigConvert` nest, and the conversions recurse over these containers;
`CollectMembers` recurses over the depth it counts, on the nodes so far below
the root (`Level`). `Text` gives each algorithm a definition that does not follow
its steps: the table of well-formed byte sequences of the Unicode standard,
surrogates in pairs, the set of all readings of a number, the grammar in the
comment above `parse`, and the set of the places of a YAML tree in the order of
the file (`Places`, `Before`). The state machine of `Text` does nothing but
produce the inputs, a character at a time, or choose a YAML node.

## Runs

| run | instance | what it shows |
|---|---|---|
| `fiber` | 3 threads, 2 fibers, symmetric | ten invariants of the fiber over every interleaving, and `Fiber` implements `FiberLifecycle`; three threads are needed for two to race while a third wakes, two fibers for nesting and crossing |
| `fiber_live` | 2 threads, 2 fibers, of which the program resets one | calls end, with fibers that resume each other and themselves; unowned objects are destroyed |
| `config_var` | 2 threads, 3 values, 2 listeners, 3 calls of `setValue`, depth 2 | one history of replacements; everyone told once; removed listeners stay silent |
| `config_var_live` | 2 threads, 2 values, 2 calls | every call returns |
| `config_load` | 1 loader and 1 other thread, 1 file, 3 contents, 2 events | a record means its version was applied; failures are retried |
| `config_order` | 1 loader and 1 other thread, 2 files, 4 contents, 2 names, 2 types | one object and one type per name; the last path wins in a forced load, whatever fails |
| `config_forced` | 1 thread, 1 file, 2 events | expected violation, see below |
| `logger` | 2 threads, a logger and the root, 2 appenders, 2 levels, 2 changes | nothing lost, doubled or disturbed; FATAL is flushed; a thread's own records are safe after its `flush` or `sync` |
| `formatter` | 2 threads, 3 records, 5 patterns, buffers of 4 to 8 characters | every written record is exactly its text; every call ends |
| `statements` | 1 thread, depth 3, messages up to 3 characters, buffers of 2, 1 rename | messages are exact; the flag of the reporter is right |
| `log_name` | the same | expected violation, see below |
| `text` | all inputs up to the lengths below | the pure algorithms against their definitions |

Bounds. Fibers are unbounded in time: no bound but the sets, and the set of
fiber names is reused after destruction. `fiber_live`, which can use no
symmetry, leaves out the admitted resets of one of the two fibers (`Omitted`):
a reset fiber is a new one as far as the properties go, and one that can be
reset is enough to meet one that cannot. Refused calls of `resume` and `reset`
stay for both. In `ConfigVar`, `MaxSets`,
`MaxListeners` and `MaxDepth` bound calls; three writes give a nested one and
a racing one, two listeners one that acts on the other. In `Config`,
`MaxEvents` bounds changes of files: two allow a replacement during a load and
one after it; `config_order` has none, for `LastPathWins` speaks of loads
during which no file changes. In `Logger`, `MaxRecords` is one record per
thread, since a record meets changes, not other records of its thread, and two
changes give the root, which starts with one appender, a second one and take
one away again while a record is on its way through the list. In `Formatter`
the date buffer may double once: one pattern's dates fit at first, one's after
growing, one's never, and the patterns alternate on one cache. A second has
ten microseconds (`MICROSECONDS_WIDTH` is 1), and the records are just before
the epoch, at the end of a second and on a full one. In `Statements` the
capacities are 2 and texts have 0 to 3 characters, so they are below, at and
above them; a depth of 3 is a statement in a report in a statement. In
`MCText` bytes are the borders of every row of the UTF-8 table, up to four of
them; wide characters the borders of the planes and surrogates, up to three;
numbers up to five of nine characters around the borders of a type of four
bits; patterns up to six of six; nodes nest to four levels against a
`DepthLimit` of two. The limits in the code are larger and play no other part
than these.

Deadlock is checked in all runs but those of `ConfigVar` and `Statements`,
where a program that has made all its calls, or has aborted, stops, and of
`MCText`, where an input stops to grow.

Fairness. `Fiber`: a strand inside the library runs on (no step waits for
another thread: `stateMutex` is held for a few instructions and the guard
refuses instead of waiting), and callbacks and unwinding come to an end.
`ConfigVar`: steps inside the library and a listener's end are weakly fair.
The mutex is not assumed to be fair: a program makes finitely many calls.
`Formatter`: a thread that formats goes on; it holds its lock already and
waits for nobody. Nothing is assumed of the order in which threads get a
lock.

The loader's properties hold with one loader. The records have a mutex but
the loads as a whole have none, and no document promises anything of two
concurrent `LoadFromConfDir`: then the slower one may apply an old version
after the faster one has recorded the new one.

## Two disagreements between a comment and the code

`config.cc:221` says that a failed forced reload must clear the old record
too, so that the same time stamp is tried again. `last_write_time` (216) is
called before the record is erased (224). If it throws, because the file is
away for a moment, the reload of that file is reported as failed and the old
record stays; once the file is back the next load skips it. The run
`config_forced` finds this; all later failures do clear the record
(`FailureRetried`, run `config_load`).

The comment above `Formatter::format` (`formatter.cc:36`) demands that the
texts a record's views refer to are valid during the call. `LogLine` takes its
view of the thread's name when the statement begins (`log_line.cc:31`) and
submits when it ends; a message expression that calls `SetThreadName` assigns
to the string in between. The run `log_name` finds the statement whose view is
stale. `MessageExact` (run `statements`) holds all the same, for the message
itself is a copy.

## Proofs

Every invariant and action property of the runs that pass and the refinement of
`FiberLifecycle` are proved for all values of the constants.

### Fiber

From `FiberAssumption` (the sets are disjoint, `Fibers` finite, `Nobody`
outside) and `ReasonAssumption` (`None` is no reason to wait).

* `FiberInvariant` has the inductive invariant `Inv`: `TypeOK`, `CountExact`
  and `IInv`. None of the ten invariants is inductive alone. What is missing
  is how the stacks relate: a strand blocked in `resume` and the fiber it
  jumped to point to each other (`ResumerInv`, `StackInv`), a guard is up for
  exactly one strand at a guarded point (`HolderInv`), at most one strand
  destroys an object and no call works on it then (`DestroyerInv`), a thread
  carries one strand (`ThreadInv`), and the values of `state`, `context` and
  `caller` at each point (`StateInv`, `HandleInv`, `PointInv`, `ResultInv`,
  `InstallInv`). The lemmas `Unfold` and `Fold` take it apart and put it
  together; `CountUpExact` and `CountDownExact` are the cardinality facts.
* `FiberProofs` has one lemma per action, `<Action>Preserves`, with one step
  per conjunct the action can disturb, and collects them: `Invariance` is
  `Spec => []Inv`; the theorems below it each derive one property. `Refinement`
  is `Spec => Refines`: each action maps to an action of `FiberLifecycle` or to
  a stutter.

### ConfigVar

`ConfigVarProofs`, from `ConfigVarAssumption`. `OneHistory` needs that
`m_writeMutex` has its owner at one point of the code, who has read the
current value (`WriterInv`). The others need an account of each call of
`setValue` on each stack (`SetInv`): its snapshot names nobody twice and nobody
who had left before, the first part of it has been called, and who stays
registered is in it. It survives what others do to the list because an id is in
one place only, in the list, on its way to it, or removed (`ListInv`,
`AddInv`, `AddDistinct`), and because only running listeners have calls on top
of them (`StackInv`). The lemmas `Moves`, `PopAgain` and `LeavePreserves` carry
all accounts through a step; `RemovingOne` is what `erase` does to a list
without repetitions.

### Config

The first part of `ConfigProofs` holds for any number of loaders: each call fits its point
(`Sound`), each object is registered under one name (`DistinctInv`), write
times lie in the past (`TimesInv`). `ObjectUnique` follows.

The second part adds `OneLoader`, without which its theorems are false.
While a file is read and applied it has no record (`QuietInv`), and the nodes
applied so far are the first of its version and cover their names (`ApplyInv`);
so a record covers all names of its version (`RecordInv`) even if the file was
replaced meanwhile, for then the times differ. `LastPathWinsAlways` is about a
load as a whole: the files done come before those left (`QueueInv`), names the
load did not know are noted (`MetInv`), and every variable has the value of the
last file done that gives one, or of the node just applied (`WonInv`). That
files are taken in the order of `Paths` enters through `Before` alone.

### Logger

`LoggerProofs`, from `LoggerAssumption`. The invariant is one of calls,
`CallInv`: the record is the thread's own and its latest (`Recorded`) and in no
appender before its loop (`Fresh`); the loop stays in its list (`Placed`),
which does not change while the mutex is held shared (`Undisturbed`), and the
mutex is held by those who loop and nobody else (`Released`), whichever way a
loop ends; the
entries before `next` got the record or refused it, once each (`Served`); the
appenders that stay are in the list of the logger asked (`Stays`); and in a
flushing loop the thread's records are safe in the entries before `next`
(`Saved`). With it go `NumberInv`, `FlushedInv` and
`FatalFlushed`. The lemmas `QuietStep`, `AsideStep` and `ListStep` say which
steps leave the other calls alone.

### Statements

`StatementsProofs`, from `StatementsAssumption`. `Appends` is the fact about
`InlineBuffer`: at any capacity, `append` appends to what `view` shows, in the
object, at the spill and after it. With it each frame's message is a prefix of
what was inserted (`FrameInv`); `StackInv` and `ThrowInv` say which frames can
lie under others and that an exception has somewhere to go; `ReportsExact` is
inductive with them.

### Recursion and patterns

The library's induction theorems take an operator, which the provers cannot
instantiate. `Recursion` states them of sets: `SetInduction` is induction over
the numbers with a property, collected in a set, and `RecursionTheorem` says
that the equation of a recursion along a rank has a solution, so that the
`CHOOSE` behind a recursive function may be unfolded. From it come
`FlattenAppend` (what `FlattenSeq` does to a list that grows at its end) and
`ParseLoop`: what holds of the state of `parse`'s loop at the start and is kept
by each round holds at its end, and each round that goes on moves the index, so
the loop ends. `RoundCases` lists the four ways a round can go, with the reason
when it fails; `ParseTyped` is the first use of both. `BackwardRecursion` is the
case of a recursion from the end of a text, which the conversions and the
reference definitions of `Text` use.

### Formatter

`FormatterProofs`, from `FormatterAssumption` (sizes are positive, the first
buffer is not above the limit, the ten digits are spelled differently) and
`TextAssumption` (patterns, the texts of records and dates are sequences of
`Tokens`). The invariant has a part for each formatter (its list is what
`parse` made of a pattern), one for each cache (a valid entry holds the text
`strftime` gives for its key, whoever stored it) and one for each call: its
output shows the exact texts of the items before the current one, and the
buffer between two attempts of `strftime` is within the limit. `BufferView` and
`Appends` are the facts about `InlineBuffer`, for any capacity and including
the spill. Apart from the state machine stand the facts about numbers:
`MomentExact` (the second and microsecond that enclose a time are those of
floor and the non-negative remainder) and `MicrosecondsExact` (the digits
computed spell that number, and no others do).

### Text

`TextProofs`, from `AlphabetAssumption` (bytes are 0 to 255, the units of a
wide string natural numbers), `NodesAssumption` (a node's items, keys and
values are nodes again, a scalar has a text) and `TypesAssumption` (a type is
containers around a scalar type). The inputs are sequences over their alphabet
(`InputInvariant`); the rest is about texts of any length.

* The two conversion loops are *walks*: at each position the loop puts out a
  piece and goes on further right, or gives up. The lemmas on walks hold for
  any pieces; `DecodeFromIs` and `EncodeFromIs` show that the loops are such.
* One code point: `Spells(text, i, m, x)` says that the m bytes from i on are
  the digits of x in the shortest form and x is a scalar value. `DecodeExact`
  is that `DecodeUtf8CodePoint` takes exactly this, with the arithmetic of its
  shifts and masks and of its three last checks; `RowSpells` and `SpellsRow` that
  the table of Unicode allows exactly this; `ScalarCoded` that `AppendUtf8`
  writes it. `UnitsExact` is the same for one or two units and the surrogates.
* `DecodeValid` and `EncodeValid` compare a walk with the reference definition
  from the end of the text on; `DecodeBack` and `EncodeBack` take the second
  conversion through the pieces of the first (`RoundTrip`), for what a loop does
  at a place depends on the text from there on only (`DecodeSame`, `EncodeSame`).
* Patterns: `LoopAgrees` is the invariant of `parse`'s loop. While the loop goes
  on, the input is a pattern exactly if all items so far could be made and a
  pattern begins at `index`, and items and literal spell what is before it; once
  it was left, the input is none. `RoundAgrees` takes it through the four kinds of
  rounds: `PlainReads` to `StuckReads` say what the grammar has there,
  `PlainSpelled` to `ConfiguredSpelled` what the item made there spells.

* Numbers: `Readings` allows any combination of marks whose rest are digits of
  the base; `ReadingChosen` and `ChosenReading` show that there is one at most,
  the one `ParseArithmetic` chooses by looking at one character at a time.
  `ParseReads` follows its two cuts of the view and the early returns,
  `BodyTrimmed` and `TrimmedBody` relate `Trim` to the white space of the text,
  and `ParseNumberExact` puts them together. The value of the digits is the
  same fold on both sides, which is also what `std::from_chars` is modelled by.

* Members: `Gathers(result, place, height)` says what a call of
  `CollectMembers` returns for the node at a place: the exception exactly if
  something is too deep below it, success exactly if no key below it is skipped,
  and the places below it as members in the order of the file. It is shown from
  the limit of nesting up to the root (`CallsGather`): `CollectStep` joins what
  the calls for the entries returned, `ListsJoin` their orders, and
  `DottedExtended` that a prefix with one more name is the dotted name.
  `OrderCounts` turns the order into the indices `MembersExact` speaks of.

* Conversions: a value is *stable* if it is read again from what it is written
  to. `StableContainers` goes from the elements to the container, by induction
  over the number of containers in the type. `FromContainerIs` and
  `ToContainerIs` say that a conversion is that of its outermost container with
  the conversion of the inner type for the elements: what it does k levels
  further down is what the inner conversion does there (`FromShift`, `ToShift`,
  `PartsInside`). `SequenceRead` and `MapRead` give that the elements of a value
  that was read were read themselves, and that sets and keys are finite, so that
  `SetToSeq` lists them all (`SetToSeqIs`); `SequenceAgain` and `MapAgain` are
  the way back. `StableScalars` is the case without containers: the digits of
  `std::to_chars` spell the number (`DecimalIs`), and by `ParseNumberExact` this
  spelling is what `ParseArithmetic` reads (`WrittenMeaning`, `IntAgain`).

### Only model-checked

Liveness (`CallsEnd`, `Released`, `CallsReturn`, `FormatEnds`) is out of the
prover's reach: it needs fairness and ENABLED.

## Not modelled

* `SpinLock`, files and PID files, backtraces and clocks, the singleton and the
  compile-time helpers, the tables of level names, the text of error reports:
  wrappers and tables without behaviour of their own.
* Conversion of floating-point numbers (one call of `std::from_chars`) and of
  types for which the program supplies a `YAML::convert`.
* What `strftime` writes and for which seconds `localtime_r` fails: constants
  of `Formatter`. Time zone and locale do not change, as the source demands.
* The branches for Windows, except the 16-bit `wchar_t`.
* Errors of the C library's I/O, which the code does not look at, and
  exceptions of constructors, which leave no object.
* A `Logger` the program constructs itself; the modelled ones come from
  `GetLogger` and have the root behind them.
* Weak memory: the atomics used across threads are acquire and release, or
  relaxed under a mutex, and the model is sequentially consistent. The
  exception, the three relaxed stores at the end of `reset`, is modelled in
  every order.
* The destructor of an object that a listener captures, which may run under
  `m_listenersMutex`: if it calls the same variable again the thread waits for
  itself. No document says what such a destructor may do.
* Two loads of one directory at the same time, see Runs.
* Starvation of a writer by readers of a `std::shared_mutex`, which depends on
  the platform.

## Plan

1. Done: all components of the first table that have behaviour of their own,
   each with its runs, and the proofs of `Fiber`, `ConfigVar`, `Config`,
   `Logger`, `Formatter`, `Statements` and `Text`.
2. Next: an abstract variable that announces each replacement once, implemented
   by `ConfigVar`, and an abstract registry, implemented by the lookups of
   `Config`; `ObjectUnique` and `StayersTold` are what their proofs need.
