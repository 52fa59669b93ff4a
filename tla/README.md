# Model checking cargo's build-script orchestration

This directory holds TLA+ models of the part of cargo that runs build
scripts, and the TLC configurations that check them.  The code under study is
`src/src/cargo/ops/cargo_rustc/custom_build.rs`; the parts of the build
orchestrator that this file talks to but that are not in `src/` (fingerprints,
the job queue) are modelled from the design document `spec.md` and are marked
as such everywhere.  Beside it stand models of cargo's CPU idle sampler
(`src/src/cargo/util/cpu.rs`) and of three crates that cargo is packaged
with: the UTF-8 decoder of bstr (`src/bstr/src/utf8.rs`), the global lock of
backtrace (`src/backtrace/src/lib.rs`) and the replaying random generator of
proptest (`src/vendor/proptest/src/test_runner/rng.rs`).

    tlasany M.tla                         # parse a module
    tlc -workers 2 -config X.cfg M        # run a configuration

`PROJECT.json` lists every component, run, mutant, hazard and finding, and the
source lines every definition stands for.

## 1. The system

A build is a graph of *units*: a package, a target of it, a profile and a
kind (Host or Target).  A package with a build script contributes a unit that
compiles the script and a unit that *runs* it.  The run prints directives on
stdout (`cargo:rustc-link-lib=z`, `cargo:KEY=VALUE`, ...) which cargo parses
and hands to the units that depend on the package: as `-L`/`-l`/`--cfg` flags
of their compiles, and as `DEP_<LINKS>_<KEY>` variables of their own build
scripts.

| Part | Where | State | Operations |
|------|-------|-------|------------|
| Output parser | `custom_build.rs` 311-408 | the six lists of a `BuildOutput` | `parse`, `parse_rustc_flags`, `parse_file` |
| Runner | `custom_build.rs` 59-278 | per unit: the `output` file on disk, the closures `dirty` and `fresh` with what they captured (`prev_output`, `lib_deps`, `kind`) | `prepare`, `build_work`, the two closures |
| BuildState | `custom_build.rs` 34-37, 280-309 | `outputs`, a mutex around a map (PackageId, Kind) -> BuildOutput; `overrides` | `new`, `insert`, `has_override` |
| Script environment | `custom_build.rs` 96-147 | the variables of the command, `cfg_map` | the loops over features and cfg predicates |
| Build-scripts map | `custom_build.rs` 39-57, 410-477 | `out`, the memo unit -> BuildScripts (`to_link`, `seen_to_link`, `plugins`) | `build_map`, `build`, `add_to_link` |
| Fingerprints | design document 4.3 | a fingerprint file per unit | `prepare_build_cmd`: the verdict Fresh/Dirty and the work that saves the fingerprint |
| Job queue | design document 4.5 | unit states, ready queue, `active`, the event channel | enqueue, the coordinator's loop, the workers |
| Unit graph, context | design document 4.1, 4.2 | the graph | inputs of the models |
| Command builder | design document 4.6 | none kept | process spawn and output streaming |

The rest of `src/` are a utility of cargo and files of other crates that
cargo is packaged with: the CPU idle sampler, the UTF-8 decoder of bstr, the
global lock of the backtrace crate, the random generator of proptest and
the dictionary wrappers of core-foundation (modelled, see below), formatters
of url, declarations of foreign interfaces, the `clean` subcommand and three
test suites.  They do
not interact with the build-script machinery, nor with each other.

| Part | Where | State | Operations |
|------|-------|-------|------------|
| UTF-8 automaton | `utf8.rs` 39-65, 412-422, 679-694 | none: two tables | `step`, `decode_step`, `is_leading_utf8_byte` |
| Decoders | `utf8.rs` 473-497, 547-553, 600-622, 671-677 | none | `decode`, `decode_last` and their lossy forms |
| Validator | `utf8.rs` 331-425 | `state`, `i` of the fast loop | `validate`: `fast`, `find_valid_up_to`, `slow` |
| Iterators | `utf8.rs` 77-135, 156-221 | `bs`, `forward_index`, `reverse_index` | `next`, `next_back`, `as_bytes` of `Chars` and `CharIndices` |
| Tests and examples | `utf8.rs` 93-104, 174-185, 232-293, 442-471, 516-669, 704-1088 | none | the tests of `mod tests` and the examples of the documentation |
| Test generator | `rng.rs` 103-188, 330-481 | per `TestRng`: an external generator, or `off`, `end` and the shared recording `data` | `from_seed`, `default_rng`, `deterministic_rng`, `fill_bytes`, `try_fill_bytes`, `next_u32`, `next_u64`, `gen_rng`, `gen_get_seed`, `set_seed` |
| Seeds | `rng.rs` 25-99, 192-327 | a `Seed`; a line of a regression file | `from_bytes`, `to_persistence`, `from_persistence` |
| Backtrace lock | `lib.rs` 96-107, 111-145 | the static `LOCK` (a mutex behind a `Once`), the thread-local `LOCK_HELD`, the `LockGuard`s alive | `lock`, `LockGuard::drop`, `Bomb::drop` |
| Dictionary wrappers | `dictionary.rs` 24-236 | none in the wrappers but a pointer; in Core Foundation the entries of every dictionary and the retain count of every object | the constructors, the queries, `add`, `set`, `replace`, `remove`, `remove_all` and `drop` of `CFDictionary` and `CFMutableDictionary` |
| CPU idle sampler | `cpu.rs` 1-223 | none in the code; a caller holds two `State`s | `State::current`, `State::idle_since`, per platform `imp::current`, `imp::pct_idle` |

### How the parts interact

* The main thread builds `BuildState` (`new`), calls `build_map` on the
  initial units and `prepare` on every run-script unit.  `prepare` asks
  `has_override`, which *inserts* the overriding output into `outputs` as a
  side effect; otherwise `build_work` reads the `output` file of an earlier
  build (`prev_output`), and returns the two closures.  The fingerprint engine
  decides which of them the job queue gets.
* The job queue runs each job on a worker thread once the jobs it depends on
  have reported success.  The dirty closure locks `outputs`, reads the output
  of every dependency (key: the dependency's package id with *this* unit's
  kind), runs the script, writes stdout to the `output` file, parses it, and
  inserts the result into `outputs`.  The fresh closure inserts `prev_output`,
  or parses the file again.  The chained fingerprint work then saves the
  fingerprint (dirty) or does nothing (fresh).
* Between two builds only the disk survives: `output` files and fingerprints.

### What is hard

* a read of `outputs` that would come before the write of another thread;
* files written by separate steps, by jobs that can fail between them, in a
  process that can be killed at any step, judged by a later build;
* sources edited while a script runs;
* a coordinator and workers that wait for each other;
* an order of `-L` flags that depends on the order in which a memoised
  recursion meets units;
* a parser whose every line takes one of seven paths;
* generators that share one recording and are split and drawn from in any
  order, and seeds that pass through a text file;
* a lock made of a flag and a mutex that are set in separate statements, by
  threads that nest their calls and panic;
* counters of an operating system that wrap, stand still, go backwards and
  come in a layout the code has to guess.

`PROJECT.json` lists these hazards at the lines where they bite and names the
properties that cover each.

## 2. Modules

| Module | Models | From |
|--------|--------|------|
| `BuildOutput` | `parse`, `parse_rustc_flags`, `parse_file`; as operators and as a loop, one step per line | source |
| `CustomBuild` | `prepare`, `build_work`'s closures step by step, `BuildState`; builds, kills and edits | source; fingerprints and the scheduler's promise from the design document |
| `ScriptEnv` | the `CARGO_FEATURE_*` and `CARGO_CFG_*` variables | source |
| `BuildScriptsMap` | `build_map`, `build` with its call stack, `add_to_link` | source |
| `JobQueue` | the coordinator's loop and the workers | design document 4.5 |
| `Build` | `CustomBuild` driven by `JobQueue` | composition |
| `Utf8Dfa` | the tables of the automaton, `step`, `decode_step`, `decode`, `decode_last`, `slow`, `find_valid_up_to`, as operators | source |
| `Utf8Tests` | the unit tests of `utf8.rs` and the examples of its documentation, as tables of slices with the results asserted | source |
| `Utf8WellFormed` | well-formed UTF-8 and what a decoder returns, after table 3-7 of the Unicode Standard | reference, not code |
| `Utf8Validate` | the fast loop of `validate`, one step per iteration | source |
| `Utf8Chars` | `Chars`: `next` and `next_back` | source |
| `Utf8CharIndices` | `CharIndices`: `next` and `next_back`, with what each end has yielded | source |
| `TestRng` | `TestRng` and `Seed` of proptest: constructors, draws, splits, and seeds written to and read from regression lines | source |
| `BacktraceLock` | `lock()` statement by statement, the drop of a guard, unwinding, the `Bomb`; several threads | source |
| `CpuIdle` | `current` and `pct_idle` of the four platforms, with the operating system as the environment | source |
| `CFDictionary` | the wrappers of `CFDictionary` and `CFMutableDictionary` with the retain counts of the objects behind them | source; what the C functions do from the documentation of Core Foundation |
| `ScriptSteps` | `BuildScriptsMap`, `ScriptEnv` and `BuildOutput` side by side: a behaviour follows one of them | harness |
| `Utf8` | `Utf8Validate` and `Utf8CharIndices` side by side: a behaviour follows one of them; the tests of `Utf8Tests` as properties | harness |
| `Components` | `BacktraceLock`, `CFDictionary`, `CpuIdle` and `CustomBuild` side by side: a behaviour follows one of them | harness |
| `MC*` | the constants of each module for TLC | |

### BuildOutput

Bytes are abstracted to *tokens*: a line is a sequence over white space, `:`,
`=` and words, or the single token of a line that is not UTF-8; an input is a
sequence of lines (the split on `\n`).  `Trim`, `TrimRight`, `SplitOnce`
(`splitn(2, ..)`) and `Words` (the split on white space with empty words
filtered) do on token sequences what the library functions do on strings.
`Classify` is the head of the loop body (lines 328-351): skip, bail, or a
(key, value) pair.  `Directive` is the `match key` (353-366), `ParseRustcFlags`
the loop of 385-406.  `Parse` folds `ParseLine` over the input.

The same function is also a state machine (`Init`, `SkipLine`,
`TakeDirective`, `Bail`, `Return`) with the variables `input`, `pos`, `acc`,
`result`, so that the parser's run is a behaviour TLC explores and the
invariant is checked at every line.

`Grammar` is a second definition of the result, written from the table of
directives of the design document (4.4) and not from the code: which lines are
directives, when a line is a hard error, what each directive adds to which
list.  `ParseFollowsGrammar` has two halves: while the loop runs, the accumulator
is what the grammar gives for the lines read so far
(`Grammar(SubSeq(input, 1, pos)) = Ok(acc)`); once the function has returned,
the result is the grammar's for the whole input, an error exactly when the
grammar says so.

Observation: `b.trim_right()` at line 348 never changes anything, because the
whole line was trimmed at line 330 and the value is its suffix.  A model
without it gives the same results on every input.

### CustomBuild

Variables: on disk `inputs` (the stamp of each package's sources),
`outputFile`, `fingerprint`; in memory `seen` (the stamps this build computes
fingerprints from), `outputs` (`BuildState.outputs`) and `job` (per unit: the
stage of its work, the verdict, the fingerprint computed by prepare,
`prev_output`, the DEP_ variables read, the captured stdout).

| Action | Code |
|--------|------|
| `NewBuild` | a process starts: `BuildState::new` (281-292); memory is reset, disk stays |
| `PrepareOverridden(u)` | `prepare` when `has_override` is true (69-71, 298-305), with the insert |
| `PrepareBuildWork(u)` | `prepare` through `build_work` (84-185): `prev_output` is read |
| `DirtyStart(u)` | dirty closure 191-225: the lookups under the lock; the work fails when a dependency has no entry (211-214) |
| `DirtyStartFails(u)` | `create_dir` (196-201) or `add_plugin_deps` (221-224) returns an error |
| `ExecOk(u)`, `ExecFail(u)` | `exec_with_streaming` 229-236 |
| `DirtyWrite(u)`, `DirtyWriteFails(u)` | `paths::write` (237) and its error |
| `DirtyStore(u)` | 246-262: the parse, and the insert when it succeeds; the work fails when it does not, with the file written |
| `FreshWork(u)` | fresh closure 267-275: the insert, or the error of `parse_file` (271) |
| `NoopWork(u)` | the empty works of an overridden unit (70-71) |
| `WriteFingerprint(u)`, `WriteFingerprintFails(u)` | the chained work of a dirty unit (design document 4.3): the fingerprint is saved, or the unit fails with `FingerprintIoError` |
| `KeepFingerprint(u)` | the chained work of a fresh unit (design document 4.3): nothing is written, and the unit fails when the fingerprint on disk is no longer the one it was judged on |
| `Edit(p)` | the user changes sources (environment) |

What a script prints is abstracted to what it is a function of:
`Stdout(stamp, env)` is the stdout of a script that read sources with that
stamp and was given the outputs `env` of its dependencies.  A stdout whose
stamp is in `Garbled` does not parse.  This keeps exactly what the properties
tell apart: which sources and which dependency outputs a registered
`BuildOutput` comes from.

Every `?` of the two closures is an outcome of a step: the work goes to the
stage `failed`.  The write of the file and the parse are two steps (stages
`executed`, `written`, `worked`), so a kill, an edit or the step of another
unit can fall between them.  The failed lookup (211-214) and the failed
`parse_file` of the fresh closure (271) are among these outcomes;
`DepStateLocated` and `FreshWorkSucceeds` say that no behaviour takes them.

In this module a job may start when every unit is prepared and its
dependencies are done (`Runnable`): this is what the job queue promises.  The
module `Build` replaces the promise by the job queue itself.

### ScriptEnv

Variables: the predicate list `cfg` with the index `i` of the loop, the
features left, `cfg_map`, the keys already walked, and `env`.  `TakeName` and
`TakeKeyPair` are the two arms of the match at 131-138, `SetCfg` one iteration
of the loop at 141-147, which walks a hash map and is therefore taken in any
order.  `Envify` is a constant function, not injective in the configuration
(`feat-x` and `feat_x` share `FEAT_X`).  `Join` is `list.join(",")` on token
sequences.

### BuildScriptsMap

Variables: `depTargets` (the dependency list of every unit, in an order chosen
initially), `units` (the initial units left), `out` (the memo), `stack` (the
calls of `build` in progress, with the `ret` and the loop position of each),
`buildScripts` (`cx.build_scripts`) and `returned` (what `build_map` has
returned: nothing yet, `Ok` or `Err`).  Actions: `BuildInitial` (the loop of
424-426), `Memoised` (the pre-flight check 440-442), `Compute` (444-448),
`DepTargetsFails` (the `?` of `cx.dep_targets(unit)` at 449-450: every call
in progress returns the error and nothing is published), `Descend` (the
recursive call at 450), `Store` (462-467) and `Publish` (427-429).  `Returned` is the rest of the loop body after the call
(452-459), applied to the caller's frame when the callee returns.

### JobQueue (from the design document)

Variables: `status` (Pending, Ready, Running, Finished, Failed), `waiting`
(the unfinished dependencies of each unit), `readyQueue`, `active`, `working`
(units in the hands of a worker), `events` (the channel), `failure` (the unit
that failed first), `exited`.  The coordinator's actions are `Spawn`,
`ReceiveSuccess`, `ReceiveFailure` and `Exit`; a worker's action is
`WorkerDone(u, succeeded)`.

The design document gives the loop as `while active > 0 ||
!ready_queue.empty()` and says that no work is spawned after a failure and
that the loop exits when `active == 0`.  The two cannot both be meant: taken
to the letter the loop never ends after a failure that leaves a unit in the
ready queue.  The model's loop runs while a worker is active or a unit may be
spawned.

`JobQueue` has no run of its own: its properties are checked in `Build`,
where the workers do the work of `CustomBuild` and a build can be killed and
started again.  That nothing is spawned after a failure is a conjunct of
`CanSpawn`, taken from the design document; no property restates it.

### Build

`Build` instantiates `CustomBuild` and `JobQueue` on the same units, with the
dependencies of the queue being the `DepKeys` of the runner.  A worker that
was given a unit takes the steps of its work (`WorkStart`, `WorkStep`) and
reports the outcome (`ReportSuccess`, `ReportFailure`); the main thread
prepares every unit and then runs the coordinator.  `Restart` is a kill
followed by a new process.  `RunnerRefined` states that every behaviour of
`Build` is a behaviour of `CustomBuild`: the scheduler keeps the promise
`Runnable`.  The properties of the scheduler (`TopologicalOrder`,
`ActiveCountsSlots`, `QueueHoldsReadyOnce`, `SuccessBuildsAll`) are stated in `Build` through the instance of `JobQueue`.

### ScriptSteps

`build_map`, the environment loop of `build_work` and `BuildOutput::parse`
are sequential algorithms that share no data.  `ScriptSteps` holds the
variables of the three and a variable `following` that is chosen by `Init`
and never changes: a behaviour is one call of one of the algorithms from its
call to its return, with the variables of the other two at rest.  Every
disjunct of `Next` is an action of one of the three modules, taken as it is
through `INSTANCE`; every property is the property of the module it comes
from, under the guard that its algorithm is the one followed.  The module
adds nothing to what the three say of the code; it lets one run of TLC ask
one question, "does each algorithm return what it should".  Its own
property is `EveryCallReturns`, that `build_map` and the loops of
`build_work` do return.

### Utf8Dfa, Utf8WellFormed

`Utf8Dfa` has no state.  `ClassTable` and `StatesForward` are the 256 and 108
entries of `CLASSES` and `STATES_FORWARD`, entry for entry; `Step` is the
table look-up of `step`, `Codepoint` the two assignments of `decode_step`
with the mask `0xFF >> class` and the shift written as arithmetic.  The loops
of `decode`, `decode_last`, `slow` and `find_valid_up_to` are recursive
operators with the loop variables as parameters (`DecodeFrom`, `LastStart`,
`SlowFrom`, `BackUp`).  `unwrap_err` on an `Ok` is the value `Panicked`.
A `char` is the number of its code point, and a byte a number below 256.
`valid_up_to` and `error_len` are the accessors of `Utf8Error`.

`Utf8WellFormed` is written from the Unicode Standard and not from the code:
the nine rows of byte ranges of table 3-7, the scalar value of a well-formed
sequence, and the practice of replacing every *maximal subpart* of an
ill-formed sequence by one U+FFFD.  `RefDecode`, `RefChunks` and
`RefValidate` are what `decode`, the iterators and `validate` are compared
with.

### Utf8Validate

| Action | Code |
|--------|------|
| `SkipAscii` | 345-351: two ASCII bytes in state ACCEPT, `i` jumps to the first byte above 0x7F |
| `StepByte` | 353-357: the automaton takes the byte and does not reject |
| `RejectByte` | 353-356: it rejects, `find_valid_up_to(slice, i)` |
| `EndInSequence` | 359-360: the slice ends in another state than ACCEPT, `find_valid_up_to(slice, len)` |
| `EndValid` | 361-363 |

`ascii::first_non_ascii_byte` is not in `src/`; it is taken to return the
index of the first byte above 0x7F, or the length.

### Utf8Chars, Utf8CharIndices

`NextSome`/`NextNone` and `NextBackSome`/`NextBackNone` are the two outcomes
of `next` and `next_back`.  `item` is what the last call returned.  In
`Utf8CharIndices` the variables `input`, `front` and `back` are history: the
slice the iterator was made for and the items each end has returned, which
the properties compare with `RefChunks(input)`.  `ImplementsChars` is the
refinement of `Utf8Chars` by `Utf8CharIndices` under the mapping that drops
the range of `item`.  `as_bytes` is the accessor of both: the bytes that are
left.

### Utf8Tests

The file tests itself: `mod tests` holds ten tests, and the documentation
of `Utf8Error`, `decode`, `decode_lossy`, `decode_last`, `decode_last_lossy`
and `as_bytes` holds examples that are compiled and run.  `Utf8Tests` has one
definition per test or example, with its name: a table of pairs of a slice
and what the test asserts of it.  The slices are the literals of the source,
byte by byte.  A `str` literal is the UTF-8 of its characters: `from_u32` and
`encode_utf8` do what the functions of the standard library do (no `char`
for a surrogate; one to four bytes by the size of the code point), and `Str`
encodes a string.  `DecodeAll` and `DecodeLastAll` are the loops the tests
and the examples run around `decode` and `decode_last`; a loop whose call
takes no byte would never end, which the result shows as `Stuck`.
`UnwrapOrReplacement` is `unwrap_or('\u{FFFD}')`.

The tables are a second oracle beside `Utf8WellFormed`, written by the authors
of the code: the module `Utf8` states that the model returns what each test
asserts (`ValidateTestsPass`, `DecodeTestsPass`, `DecodeLastTestsPass`), and
the slices of the tests are among the slices of the run.  A model that
disagreed with a test would be a wrong model, or a test that fails.  The test
`chars` is not modelled: its table `LOSSY_TESTS` is in a file that is not in
`src/`.

### TestRng

`rngs` is the sequence of the generators made so far.  A PassThrough
generator is the record `off`, `end`, `data` of the code, with `arc`, the
identity of the allocation behind the `Arc<[u8]>`: `gen_rng` and
`gen_get_seed` clone the Arc, `from_seed` and `from_persistence` allocate.
The XorShift and ChaCha generators are other crates; what they return is
taken from the constant `Entropy`, and `fresh` tells a generator that has
been drawn from from one that has not.  `served` is history: the bytes of
each recording that some `fill_bytes` copied out.

`seed` follows one seed through its life: returned by `gen_get_seed`
(`Held`), written by `to_persistence` (`Written`), read by `from_persistence`
(`Read`, from the line written or from one of the lines a user may have put
into the file, `Texts`), given to `set_seed`.  A line is the sequence of its
character codes, and the conversions are modelled by what they do: `trim` and
`split(char::is_whitespace)`, `{:02x}` against `u8::from_str_radix(_, 16)`,
the decimal form of a `u32` against `str::parse`, `read_u32_into` against
`write_u32_into`.  A `u32` under construction is kept as two halves of 16
bits so that the overflow check of `parse` is exact.

A panic (`assert!` in `fill_bytes`, `assert_eq!` in `from_bytes`, `panic!`
in `default_rng`) ends the test thread: `out` keeps the message and the rest
of the state is dropped.  `try_fill_bytes` returns the error instead and
leaves the generator as it was.

Two things the model shows that are not violations of anything the code
promises: `from_persistence` accepts lines that `to_persistence` never writes
(`+7` and `007` for a dword, upper-case and signed hex digits, white space
around the line), and `gen_get_seed` sets the generator to the child, so the
first half of a window is dropped unread.

### Utf8

The same device for `Utf8Validate` and `Utf8CharIndices`: a behaviour is one
call of `validate` on a slice, or the life of one `CharIndices`; the one that
is not followed is made for the empty slice and never steps.

### BacktraceLock

| Variable | Code |
|----------|------|
| `INIT` | `static INIT: Once` has run, so `LOCK` points to the mutex |
| `mutex` | `*LOCK`: the set of its owner (empty or one thread) and the poison flag of `std::sync::Mutex` |
| `LOCK_HELD` | the thread-local `Cell<bool>`, one per thread |
| `pc` | where a thread is in `lock()`: `out`, `once` (before `call_once`), `mutex` (before `(*LOCK).lock()`) |
| `guards` | the `LockGuard`s of a thread, innermost last: TRUE for `Some(MutexGuard)`, FALSE for `None` |
| `alive` | the threads that have not ended |

| Action | Code |
|--------|------|
| `LockReentrant(t)` | 134-136: the flag is set, `LockGuard(None)` |
| `SetHeld(t)` | 137: the flag is set, before anything else |
| `CallOnce(t)` | 139-141: the Once; every thread leaves it with the mutex allocated |
| `Acquire(t)` | 142: `lock()` returns `Ok` when the mutex is free and not poisoned |
| `AcquirePoisoned(t)` | 142: `lock()` returns `Err`, `unwrap` panics; no guard is made, the flag stays |
| `Drop(t)` | 122-131: the innermost guard goes out of scope; one with the mutex clears the flag and unlocks |
| `Unwind(t)` | a panic in the guarded section: all guards of the thread are dropped, the mutex is poisoned |
| `BombDrop(t)` | 96-107: a panic under an armed `Bomb` panics again while unwinding: the process aborts |

The callers of `lock()` are the synchronized entry points of the crate, which
keep the guard in a local variable for the length of the call; the callback
of the user that runs inside may call an entry point again (hence `guards` is
a stack, bounded by `MaxDepth`) and may panic.  A thread that waits for the
mutex is a thread whose `Acquire` is not enabled.  Whether a thread that
panicked goes on is the constant `CatchUnwind`: FALSE models threads that end
with their panic, TRUE models `catch_unwind` around the call.  The semantics
of `Once`, `Mutex` (poisoning included) and `thread_local!` are those of the
standard library's documentation.

### CFDictionary

The wrappers hold a pointer and nothing else; every method is one call of
the C library.  What the Rust code adds is ownership, and that is what the
module follows: who owns a reference of which object.

| Variable | Code |
|----------|------|
| `retains` | the retain count of every object of Core Foundation: dictionaries, keys, values; 0 for one that is not allocated |
| `entries` | the pairs of every dictionary |
| `wrapper` | the wrapper the program holds of a dictionary: `CFDictionary`, `CFMutableDictionary`, or none |
| `held` | how many wrappers the program holds of every key and value (`K, V: TCFType`) |
| `copies` | history: the dictionaries made by `copy_with_capacity` |
| `result` | what the last call returned; `Panicked` after the `expect` of `get` |

| Action | Code |
|--------|------|
| `FromPairs(d, pairs)` | 36-51: `CFDictionaryCreate` over the slice, wrapped under the create rule |
| `WithCapacity(d)` | 120-132: `new` and `with_capacity` |
| `MutableFromPairs(d, pairs)` | 141-147: `with_capacity`, then `add` for every pair in its turn |
| `CopyWithCapacity(d, e)` | 134-139: `CFDictionaryCreateMutableCopy`, wrapped under the get rule |
| `Add`, `Set`, `Replace`, `RemoveKey`, `RemoveAll` | 208-235; `set`, `replace` and `remove` take the key and the value by value and drop them when they return |
| `Count`, `ContainsKey`, `Find`, `Get`, `GetKeysAndValues` | 53-104, 151-204: the queries, which change `result` only |
| `FindClone(d, k)` | 312: `find(..).unwrap().clone()`, which gives the program a wrapper of the value |
| `GetPanics(d, k)` | 89, 189: the key is not there; the thread unwinds and drops every wrapper it holds |
| `Drop(d)` | 26-30, 108-114: `CFRelease`; the last reference deallocates the dictionary, which releases its keys and values |
| `DropItem(o)` | the program drops a wrapper of a key or a value |

Assumed of Core Foundation, from its documentation: a dictionary made with
the `kCFType` call-backs retains a key and a value when it takes them in and
releases them when it lets them go or is deallocated; keys are compared with
`CFEqual`, so two strings of the same text are one key (`Text`); `add` leaves
an entry that exists alone, `set` and `replace` change its value and keep
its key; a function with Create or Copy in its name returns a reference the
caller owns.  Assumed of the crate (`base.rs` is not in `src/`):
`wrap_under_create_rule` takes that reference over, `wrap_under_get_rule`
retains one more, `Clone` retains.  Left open: which of two equal keys of a
slice `CFDictionaryCreate` keeps, and the order in which
`get_keys_and_values` returns the entries (the two tests at 263-265 and
283-292 assert the order of insertion, which Core Foundation does not
promise).  The capacity is a hint and is left out.

`copy_with_capacity` is the one constructor that uses the get rule.  Under
the assumptions above the copy starts with two references of which its
wrapper owns one, so the copy and what it holds are never deallocated.  The
model follows this: `copies` records the dictionaries that carry the surplus
reference and `AliveWhileOwned` counts it.  Since the premise is in `base.rs`
and in the rules of Core Foundation, not in `src/`, it is kept as an
observation and a hazard, not as a finding.

### Components

The device of `ScriptSteps` for four components that share no state: a
behaviour is the life of the threads around the global lock, a sequence of
calls on dictionaries, the samples of a caller of the CPU sampler, or a
sequence of builds of the run-script jobs under the promise `Runnable`.

### CpuIdle

The operating system is the environment.  `kernel[cpu][field]` are its
counters, advanced by `Tick` and, for Linux' iowait, taken back by
`IowaitDrops` (the kernel documents that iowait can decrease).  `target` is
what the program was compiled for and runs on: the operating system (which
`imp` module is compiled in), the number of columns of `/proc/stat`, the
number of CPUs, whether the build checks for overflow, and `uptime`, where
every counter stands when the program starts.  The program holds
the last two samples (`previous`, `latest`) and `result`, what its last call
returned.  `clock` is history: the ticks counted, which the properties compare
with what `idle_since` returns.

| Action | Code |
|--------|------|
| `CurrentOk` | 11-13 with `imp::current` returning `Ok`: 45-68 (Linux), 127-157 (macOS), 182-192 (Windows) |
| `CurrentErr` | `imp::current` returns the error of its own: the platform has no counters (213-218) |
| `ReadFails`, `HostProcessorInfoFails`, `GetSystemTimesFails` | the call of the system fails: 47 on Linux, 139-141 on macOS, 186-190 on Windows |
| `CurrentPanics` | `/proc/stat` has no line (48), an `unwrap` of a missing column (57-66), or an index past the end of a chunk (150-153) |
| `IdleSince` | 22-24 with `imp::pct_idle`: 70-85, 159-166, 194-204 |
| `IdleSincePanics` | a subtraction or the sum overflows in a build with overflow checks |

Abstractions.  A u64 is a number below `Modulus = Word * Word`, and `Word`
stands for 2^32, the range of one half of a `FILETIME`; the run takes 256 for
it, and the counters of Linux and Windows start at `Word - 1`, where the next
tick carries into the high half.  The counters of macOS are `natural_t`,
unsigned words that the code reads through a pointer to `i32` and converts
with `as u64`: `AsI32` is the read (a word from `Word / 2` on is a negative
number) and `I32AsU64` the conversion (sign extension, modulo `Modulus`),
and the `+=` that adds them up wraps or panics as `target` says.  macOS
starts at 0, at `Word / 2 - 1` and at `Word - 1`.
Subtractions wrap modulo `Modulus` or panic, as `target` says.
The f64 that `pct_idle` returns is kept as the pair of the numerator and the
denominator of the division, so 0/0 is told from a number; the rounding of
`as f64` is not modelled.  Parsing a column of `/proc/stat` with
`parse::<u64>()` is taken to succeed on what the kernel prints.  What
`host_processor_info` returns for `PROCESSOR_CPU_LOAD_INFO` is taken from the
Mach interface: `CPU_STATE_MAX` = 4 counters per CPU, one CPU after the other
(`CpuInfo`); the source relies on it without declaring it, and finding 5
rests on it.  `/proc/stat` is a list of lines (`ProcStat`), empty on the
target where the file is masked.

## 3. Runs

| Run | Module, cfg | Checks | Result |
|-----|-------------|--------|--------|
| `script_steps` | `MCScriptSteps` | `TypeOK`, `ToLinkIsLinkableClosure`, `MemoIsTransparent`, `BareNameSilencesKey`, `EnvCarriesCfgMap`, `ParseFollowsGrammar`, `EveryCallReturns` | pass, 47 418 states |
| `to_link_sorted` | `MCScriptSteps`, `MCScriptStepsSorted.cfg` | `ToLinkTopologicallySorted` | violated (finding 2) |
| `cfg_last_wins` | `MCScriptSteps`, `MCScriptStepsLast.cfg` | `CfgLastOccurrenceWins` | violated (finding 3) |
| `content_stamps` | `MCCustomBuild`, `MCCustomBuildContent.cfg` | `FreshRegistersJudgedOutput` | violated (finding 1) |
| `build` | `MCBuild` | `TypeOK`, `DepStateLocated`, `SecondBuildIsFresh`, `TopologicalOrder`, `ActiveCountsSlots`, `QueueHoldsReadyOnce`, `SuccessBuildsAll`, `RunnerRefined`, `BuildEndsUnlessKilled` | pass, 199 674 states |
| `utf8` | `MCUtf8` | `TypeOK`, `ValidateMatchesWellFormed`, `EndsWhenEmpty`, `IndicesTrackBytes`, `ForwardMatchesReference`, `BackwardAgreesWithForward`, `ValidateTestsPass`, `DecodeTestsPass`, `DecodeLastTestsPass`, `ImplementsChars` | pass, 741 860 states |
| `test_rng` | `MCTestRng` | `TypeOK`, `NoByteHandedTwice`, `SeedSurvivesPersistence` | pass, 126 103 states |
| `components` | `MCComponents` | `TypeOK`, `MutualExclusion`, `FlagTellsOwnership`, `AliveWhileOwned`, `IdleSinceIsExact`, `DepStateLocated`, `FreshRegistersJudgedOutput`, `FreshWorkSucceeds` | pass, 609 044 states |
| `lock_poisoned` | `MCBacktraceLock`, `MCBacktraceLockCaught.cfg` | `MutualExclusion` | violated (finding 4) |
| `cpu_current_mac` | `MCCpuIdle`, `MCCpuIdleMac.cfg` | `CurrentCapturesAllCpus` | violated (finding 5) |
| `idle_percentage` | `MCCpuIdle`, `MCCpuIdlePercentage.cfg` | `IdleSinceIsPercentage` | violated (finding 6) |
| `idle_sign_extension` | `MCCpuIdle`, `MCCpuIdleHalf.cfg` | `IdleSinceIsExact` | violated (finding 7) |

What the properties say:

* **ParseFollowsGrammar**: the parser and the grammar of the design document
  agree on every input: on the lists gathered before every line, and on
  what is returned.
* **DepStateLocated**: the lookup at 209-214 never fails.  In `components`
  this is shown from the promise `Runnable`; in `build` from the coordinator
  and the channel.
* **FreshRegistersJudgedOutput**: whatever builds, kills, failures and edits
  came before, a unit found fresh registers the output its script would print
  on the very sources the verdict was computed from, given the outputs its
  dependencies would print on those sources.
* **FreshWorkSucceeds**: a unit is never found fresh over an `output` file
  that does not parse or is missing.
* **BareNameSilencesKey**, **EnvCarriesCfgMap**: the rule the code implements
  for cfg keys; and that after the walk of the hash map every key has its
  variable, with the entry of the key itself when the variable is its own
  and else with the entry of one of the keys that `envify` maps to it
  (`feat-x` and `feat_x` in the configuration), whatever the order of the
  walk.
* **ToLinkIsLinkableClosure**: `to_link` holds exactly the build scripts of
  the unit and of what it links transitively, each once.
* **MemoIsTransparent**: the memoised result is, entry for entry, the one of
  the plain recursion; the order of the `-L` flags depends on the graph only.
* **EveryCallReturns**: `build_map` returns, either the error of
  `dep_targets` or `Ok` with an entry published for every unit the initial
  units reach, also for one that is reached through dependencies only or
  was answered from the memo; the loops of `build_work` end with a variable
  for every feature and for every key of a cfg predicate.
* **TopologicalOrder**, **ActiveCountsSlots**, **QueueHoldsReadyOnce**,
  **SuccessBuildsAll**: the properties of the scheduler
  in section 8 of the design document, in every build of a sequence of builds
  that are killed and started again.
* **RunnerRefined**: `Build` implements `CustomBuild`.
* **SecondBuildIsFresh**: after a build that succeeded on unchanged sources,
  every unit is fresh.
* **BuildEndsUnlessKilled**: a build ends, unless it is killed again and
  again.
* **ValidateMatchesWellFormed**: `validate` returns what the Unicode Standard
  says of the slice: `Ok`, or the end of the longest well-formed prefix with
  the length of the maximal subpart that follows (`None` when the slice ends
  inside a sequence).  It follows that `unwrap_err` in `find_valid_up_to`
  never panics.  `TypeOK` of `Utf8Validate` holds the claim of the `unsafe`
  block of `step`: the state is one of the nine rows of the table.
* **ForwardMatchesReference**, **BackwardAgreesWithForward**: from the front
  and from the back, in any order of calls, the iterator cuts the slice into
  the same pieces, those of the Unicode Standard, with the same characters and
  ranges.  `TypeOK` of `Utf8CharIndices` holds the claim of the `unsafe` block
  of `decode`: every `char` is a scalar value.
* **IndicesTrackBytes**: `bs` is the slice between the two indices.
* **EndsWhenEmpty**: `None` is returned only when no byte is left.
* **ImplementsChars**: `CharIndices` without the ranges is `Chars`.
* **ValidateTestsPass**: `validate` returns for the slice of every test and
  example what is asserted there, and `valid_up_to` and `error_len` of the
  error are the numbers of the examples of `Utf8Error`.
* **DecodeTestsPass**, **DecodeLastTestsPass**: `decode`, `decode_lossy`,
  `decode_last` and `decode_last_lossy` return what their tests and examples
  assert, alone and in the loops that cut a slice from one end; an iterator
  over the slice of the examples yields the characters of the loops, from the
  front and from the back; and `as_bytes` is `abc`, `bc` and nothing before,
  between and after the calls of `next`.
* **NoByteHandedTwice**: the windows of two generators on the same recording
  never overlap, and no byte still in a window has been served: parent and
  child of any sequence of splits read different bytes.  `TypeOK` of
  `TestRng` holds `off <= end <= len(data)`, which is what keeps
  `*end - *off` from wrapping and `copy_from_slice` inside the window.
* **SeedSurvivesPersistence**: a seed that is held or was read, written with
  `to_persistence` and read with `from_persistence`, gives a generator that
  returns what a generator made from the seed itself returns: the same bytes
  for XorShift and ChaCha, the bytes of the window for PassThrough.

* **MutualExclusion**: at most one thread is inside a section guarded by
  `lock()`, in every interleaving of the statements of `lock()` with drops
  and panics of other threads.  It holds when a thread ends with its panic
  and fails when it goes on (finding 4).
* **FlagTellsOwnership**: `LOCK_HELD` of a thread is set exactly while the
  thread holds the mutex or is between lines 137 and 142.  The assertion of
  `LockGuard::drop` follows, and so does that a thread never waits for a
  mutex it holds.  `TypeOK` of `BacktraceLock` holds that the mutex is
  dereferenced only after the Once has allocated it, and that only the
  outermost guard of a thread has the mutex.
* **AliveWhileOwned**: the retain count of every object is the number of
  its owners: one for each wrapper the program holds and one for each place
  the object has in a dictionary.  So no wrapper and no dictionary points to
  an object that was deallocated, and nothing stays allocated that nobody
  can release; through `set` with a key that is equal to the key of an
  entry and not the same object (the dictionary keeps its own key and the
  one given is released with its wrapper), values that live only in a
  dictionary and are cloned out of it, dictionaries dropped before and after
  what they hold, and the panic of `get`.  A dictionary made by
  `copy_with_capacity` is counted with the one reference more that the get
  rule gives it (see `CFDictionary` above).
* **IdleSinceIsExact**: when ticks were counted between two samples and no
  counter went backwards, the quotient returned is the share of the idle
  ticks among all ticks counted between them, over all CPUs, through the
  carry of a `FILETIME` and with Windows' kernel time that includes the idle
  time.  It holds in `components`, on macOS with four CPUs through the wrap
  of a counter at 2^32, where sign extension and the wrapping subtraction
  cancel; it fails in `idle_sign_extension`, where a counter of macOS
  crosses 2^31 between the samples (finding 7).
* **IdleSinceIsPercentage**: what the documentation of `idle_since` says: a
  number from 0 to 100.  It fails (finding 6).
* **CurrentCapturesAllCpus**: what the documentation of `current` says.

Every property of a passing run has a mutant in `PROJECT.json`: a definition
of the model changed the way a plausible bug would change the code, under
which TLC finds the property violated.

## 4. Bounds

| Constant | Value | Why it is enough |
|----------|-------|------------------|
| `MaxLineLen` (MCScriptSteps) | 5 tokens | `cargo : key = value` needs five; every shorter line and every placement of `:`, `=` and white space is included |
| `MaxFlagsLen` | 5 words | two complete flag pairs and a dangling flag |
| `MaxLines` | 3 lines of 11 kinds | an error before, between and after directives; two directives of the same and of different lists |
| `Units` (MCCustomBuild) | a -> b -> c, a -> c, and b for the host | a chain, a diamond, an overridden leaf (c) and a second kind |
| `MaxStamp` | 3 in `components`, 2 in `build` | two edits: one while a script runs and one between builds |
| `Garbled` | {2} | stdout that parses before and after one that does not |
| `N` | 2 | one slot busy while another is freed |
| `Units` (MCBuild) | three roots and a dependent | more ready units than slots, with a dependent that reads two outputs |
| `MCUnits` (MCScriptSteps) | seven units | a binary, a diamond of libraries, a plugin with a host library, a script run |
| `MaxCfgs` | 3 predicates | a bare name before, after and between two values |
| `MCValidateSlices` (MCUtf8) | every byte alone; every byte after one byte of each of six kinds; up to 4 bytes over 17 bytes; up to 6 bytes over 6 bytes; the slices of the tests of `validate` and of the examples | every entry of `CLASSES` is read in state ACCEPT and after a leading byte; the 17 bytes are the two ends of every range of table 3-7 and the bytes just outside; six bytes hold a sequence of four bytes with bytes on both sides and runs of ASCII |
| `MCIteratorSlices` (MCUtf8) | up to 3 bytes over the 17 bytes; up to 4 over 9; up to 5 over 5; the slices of the tests of the decoders and of the examples | as above; five bytes put a byte before or after a sequence of four, where `decode_last` meets its limit of four bytes |
| `MaxRngs`, `MaxArcs` (MCTestRng) | 2 generators, 2 allocations | a parent and a child on one recording, or two recordings; `gen_get_seed` and `set_seed` replace a generator in place, so chains of splits are not bounded by it |
| `SeedBytes` | per algorithm a seed of the right length and one of the wrong; for PassThrough a recording of 3 bytes | three bytes split to windows of 2, 1 and 0 bytes, odd and even; `next_u32` always runs out |
| `FillSizes` | {0, 1}, and 4 and 8 by `next_u32`, `next_u64` | the empty draw, a draw that fits, draws that do not |
| `Entropy` | zeros | perturbed by `new_rng_seed` to dwords with the top bit set, the case where a signed parse would fail |
| `Texts` | 11 lines | one per path of `from_persistence`: unknown key, too few and too many parts, a dword at and above `u32::MAX`, hex of a wrong length and with a bad digit, empty line, and two lines accepted in a form `to_persistence` does not write |

| `Threads`, `MaxDepth` (MCBacktraceLock) | 3 threads, 3 guards | one thread that holds the mutex, one on its way to it and one that panicked; a call nested in a nested call, so that a guard without the mutex is dropped between two others |
| `Keys`, `Text`, `Values`, `Dicts`, `MaxHeld`, `PairLists` (MCComponents) | two keys of the same text, two values, two dictionaries, two wrappers of a value, slices of one pair and of two pairs with equal keys | a key that is equal to the key of an entry and another object; a value that replaces another; a dictionary and its copy, or two dictionaries that share a key and a value; a wrapper cloned out of a dictionary beside the one the program has.  A dictionary holds one entry at most: entries of different keys do not meet in any call but `remove_all` and the deallocation, which release one entry after the other |
| `MCCodepoints` (MCUtf8) | 14 of the 0x110000 numbers of `validate_all_codepoints` | the two ends of every length of encoding, the surrogates and their neighbours, U+FFFD and U+10FFFF |
| `MCTargets` (MCCpuIdle, MCComponents) | Linux with 10 columns, with 8 and with a `/proc/stat` without lines; macOS with 4 CPUs; Windows; a platform without counters; each with and without overflow checks | every `imp` module and every outcome of the unwraps |
| `MCMacTargets`, `MCHalfTargets` (MCCpuIdle) | macOS with 2 and with 8 CPUs; macOS with 4 CPUs and counters at 127 | fewer CPUs than states and more (`cpu_current_mac`); a counter that turns negative as an `i32` between two samples (`idle_sign_extension`) |
| `Word`, `MCUptime`, `MCHalfTime` | 256, 255, 127 | from 255 the first tick carries from the low into the high half of a `FILETIME`, and wraps a counter of macOS; from 127 the first tick makes a counter of macOS negative as an `i32`; macOS with four CPUs also starts at 0; 100 times a difference stays far below TLC's integers |
| `Ticking`, `MaxTicks` | user, idle, iowait; 3 ticks | an idle and a busy tick before, between and after two samples; an iowait tick that is taken back |

`MaxDepth` is a guard of `lock()`'s callers (`Calls`), `MaxTicks` a guard of
`Tick`, `MaxHeld` a guard of `FindClone`; a constructor of a dictionary
needs a member of `Dicts` that is not allocated (`Fresh`).  `MaxRngs` is a guard of the constructors and of `gen_rng`, `MaxArcs` a guard
of `from_persistence` for PassThrough lines.  Stamps are capped by `Edit`'s guard (`NextStamps` stays within `1 ..
MaxStamp`); nothing else in the models counts without bound.

## 5. Fairness

The modules without a liveness property assume none.  `ScriptSteps`
assumes weak fairness of the steps of `build_map` (`BuildMapNext`) and of
the loops of `build_work` (`BuildWorkNext`): both are sequential code that
waits for nothing, so a step that can be taken is taken.  Nothing is assumed
or asked of `parse`, a single loop over the lines of a finite input.
`Build`, whose run
checks that a build ends, assumes weak fairness of the main thread and of
every worker:
the coordinator and the main thread are sequential code that takes its next
step whenever it has one, and a worker runs a closure that ends, since a
script is a process that exits and nothing in the code waits with a timeout.
Weak fairness is enough because no step of one thread is disabled by a step of
another once it is enabled, except by a kill.  Nothing obliges a user to kill
a build or to edit a file, so `Restart` and `Edit` are not fair; a build that
is killed again and again is excluded by the form of
`BuildEndsUnlessKilled`.

Deadlock is checked in `build`, where a process can always be started
again.  The other configurations say `CHECK_DEADLOCK
FALSE` because their systems end: a parse, a walk of the graph, a validation
and an iterator at the end of their input, a test thread of `TestRng` and a
caller of the CPU sampler after a panic, and the threads of `BacktraceLock`
when all of them have ended or the process has aborted, and a program that
has dropped every wrapper of a dictionary or has panicked in `get`.
`BacktraceLock`
states no liveness: a thread may keep a guard for ever, and after a panic
that poisoned the mutex no thread gets it again, which is what the code does.

## 6. Findings

1. **Content stamps** (`content_stamps`, gap in the design document).  The
   design document leaves the stamp of a fingerprint free to be a content hash.
   The fingerprint saved after a script ran is the one computed before it ran,
   while the `output` file holds what the script printed on the sources it
   read.  If the sources are edited during the run and reverted afterwards, a
   content hash matches again and the next build registers the stdout of the
   edited sources as fresh.  With stamps that never come back the property
   holds.
2. **`to_link` is not topologically sorted** (`to_link_sorted`, code against
   its comment).  The list is a pre-order with duplicates dropped at their
   second occurrence: for a unit a with dependencies c, b (in this order) and
   b depending on c it is [a, c, b].
3. **cfg precedence** (`cfg_last_wins`, code against the design document).
   The design document settles the open question by "last occurrence wins";
   in the code a bare name wins wherever it stands.
4. **A poisoned lock lets everyone in** (`lock_poisoned`, code).  `lock()`
   sets `LOCK_HELD` before it locks the mutex and unwraps the result.  After
   a panic inside a guarded section the mutex is poisoned; every later call
   sets the flag, panics at `unwrap()` and leaves the flag set, since no
   guard exists that would clear it.  A thread that survives this panic is
   given `LockGuard(None)` at its next call, without the mutex, and so is
   every other such thread.  TLC's trace: t1 takes the lock and panics; t2
   and t3 each call `lock()` and panic on the poison; t2 and t3 call again
   and are both inside.  With threads that end at their panic
   (`components`) the exclusion holds.
5. **macOS counts the wrong CPUs** (`cpu_current_mac`, code).  `current`
   cuts the array of `host_processor_info` into chunks of `num_cpus` numbers
   and reads the four CPU states from each, where the array holds four
   numbers per CPU.  With two CPUs `chunk[CPU_STATE_IDLE]` (line 152) is the
   first index out of bounds and `current` panics; with eight CPUs the sums are those of every other CPU;
   with four the result is right.  The finding rests on the layout of the
   Mach interface, which the source does not state.
6. **NaN for equal samples** (`idle_percentage`, code against its
   documentation).  `idle_since` is documented to return a percentage from
   0.0 to 100.0.  Two samples between which no tick was counted give
   0.0 / 0.0, which is NaN.  TLC's trace: `current`, `current`,
   `idle_since`.  The same claim fails when iowait decreased between the
   samples: a release build returns the quotient of wrapped differences and
   a build with overflow checks panics (`IdleSincePanics`).
7. **macOS counters past 2^31** (`idle_sign_extension`, code).  The counters
   of `host_processor_info` are unsigned words; `current` reads them as
   `i32` and adds them with `as u64`, which extends the sign.  A counter past
   2^31 is added as a number just below 2^64.  While every counter stays on
   its side of 2^31 between two samples the wrapping subtraction of
   `pct_idle` cancels the error; when one crosses it, the difference is off
   by 2^32 and the share returned is not the share of the idle ticks: in the
   model (a word of 256, four CPUs, counters at 127) an idle tick and a user
   tick between two samples give 6528100 / 65026, where 50 is right.  In a
   build with overflow checks `current` panics as soon as the sum of the
   extended counters of a state passes 2^64.  A CPU state reaches 2^31 ticks
   of 10 ms after 248 days.

## 7. Not modelled, and the plan

Not modelled because there is nothing to check with a model checker: the
JSON message of the dirty closure and the streaming of output lines, the
directories created by `build_work`, the formatters of url (`Display`
implementations that write the parts of a URL one after the other; the
parser they would be checked against is not in `src/`), the declarations of
winapi, the test suites.  The `clean`
subcommand (`bin/clean.rs`) is straight-line code that sets the verbosity,
finds the manifest and calls `ops::clean`, which is not in `src/` and of
which the design document says nothing.  Not in `src/` and taken as inputs:
the unit graph and the context.  In `utf8.rs` the `Display` of `Utf8Error`
only formats its fields, the iterators' `new` only stores the slice, and the
test `chars` reads a table that is not in `src/`.  In `backtrace/src/lib.rs`
everything but the lock is declarations and re-exports.  In
`dictionary.rs` the wrappers are modelled for keys and values that are
objects of Core Foundation; with the raw pointers that the type parameters
default to, the wrappers own nothing but the dictionary.

The modules were built in this order: the parser, the runner with
`BuildState`, the job queue, their composition, the build-scripts map, the
script environment, the UTF-8 decoder, the test generator, the backtrace
lock, the CPU sampler, the tests of the UTF-8 decoder as an oracle, the
signed counters of macOS, the dictionary wrappers.  A refinement of `Parse` by the loop of
`BuildOutput` was planned and dropped: `ParseFollowsGrammar` already holds
the loop, line by line, to a definition that is not the code's.  Planned
next:

1. The fingerprints of compile units that consume build scripts, once their
   side of the design document is modelled.

Two hazards listed in `PROJECT.json` have no property, each with the reason:
the panics of `current` on a `/proc/stat` with fewer columns or no line, and
the surplus reference of `copy_with_capacity`.  That `gen_get_seed`
halves the recording of a PassThrough generator at every call limits how
many cases a recording supports and breaks nothing; it is described with
`TestRng` and is not listed as a hazard.

The project asks twelve questions of the system, one per run.  Algorithms
that do not interact share a run through a harness module (`ScriptSteps`,
`Utf8`, `Components`); a new module brings its properties to the run of the part it
belongs to.
