# A verification of codeforge-shelf

`codeforge-shelf` is a shelf of 27 single-file, dependency-free Python cores
(`src/codeforge_shelf/`), each the kernel of a well-known pattern. These modules
state in TLA+ what 23 of them do, check it with TLC on small instances, and prove
with TLAPS what holds for every size.

## 1. The system

A core is a class or a few functions. It holds its state in memory (two use a
file), and takes the clock, the sleep and the random source as arguments. Two
cores import another: the circuit breaker and the workflow engine are built on the
state machine, and `retry` takes a `Deadline`. Everything else is put together by
callers. What is hard is therefore not in the wiring but in

* **who else acts**: threads in a bulkhead or on a table of metrics, overlapping calls
  through a breaker, processes on one ledger file or in one directory, actors on one
  workflow instance, checks that register checks;
* **time**: windows that elapse while nobody looks, clocks that step back, sleeps
  that overrun a budget, timers rearmed inside the loop that fires them;
* **failure**: work and hooks that raise, writes cut short, tampering;
* **long sequences of legal calls** that end in a state nobody meant.

### Inventory

Cores modelled now:

| core | state | operations | what makes it correct |
|---|---|---|---|
| `bulkhead` | `_active` behind `_lock` | `slot()`, `run`, `active`, `available` | the cap holds under contention; no slot leaks; the lock always comes back; only a full compartment refuses |
| `statemachine` | none: a frozen machine is data | `build`, `advance` | one edge per (state, event); a broken guard refuses, a missing one is loud |
| `circuit_breaker` | `_state`, `_failures`, `_opened_at` | `state`, `allow`, `record_success`, `record_failure`, `call` | opens exactly on a run of failures; rejects for the whole window, which late failures do not stretch; closes again on a healthy dependency |
| `token_bucket` | `_tokens`, `_last` | `check`, `consume` | conservation over any timeline; `retry_after` is exact; peeks take nothing |
| `deadline` | `_start` | `elapsed`, `remaining`, `expired`, `check`, `reset` | see `retry` |
| `retry` | the loop's `attempt`, `last` | `run_with_retries`, `delay_for` | attempts are bounded, one backoff between two, the outcome is the last call's own, the overrun of a deadline is bounded, the loop ends |
| `hashchain` | a file of JSON lines | `append`, `read`, `verify` | tampering and forks show for ever; a clean read has everything that was acknowledged; undisturbed appends read back |
| `hourglass` | `_grains`, an ordered dict | `schedule`, `cancel`, `clear`, `advance` | every timer fires exactly on its beat, in insertion order; the queue is bounded |
| `workflow` | `Instance.state`, `.history` | `build_workflow`, `open`, `actions`, `advance` | the history is an authorised path; menus and the gate agree |
| `loader_cache` | module dict path -> (mtime, value) | `load_cached`, `clear` | a load answers with what its path held at some moment of the load; a version of a file is parsed once, or twice where an edit overtook the first load of it |
| `signal_bus` | handlers by type | `subscribe`, `publish` | in-order delivery to everybody, re-entrancy included |
| `stream_framer` | a byte buffer | `feed`, `flush` | the chunking of a stream does not change its messages |
| `telnet_codec` | none | `escape_iac`, `strip_iac`, `read_negotiation` | no command byte reaches the text, no text byte is lost; the last reply counts |
| `test_evidence` | expected checks, records | `expect`, `record`, and the verdicts | missing evidence never passes; the latest record counts |
| `observability` | `_count`, `_dur_sum` behind `_lock` | the middleware's `observe`, `render`, `reset` | a scrape shows whole requests, and loses none |
| `record_loader` | none: a directory, read file by file | `load_dir`, `load_record` | every record there was, or a failure; never some |
| `health` | `_checks`, an ordered dict | `register`, `run`, `overall`, `report` | worst wins; what is unknown is never healthy |
| `feature_flags` | `_flags`, `_overrides` | `register`, `enable`, `disable`, `reset`, `retire`, `is_on`, `all` | an override lives as long as its flag |
| `plugin_registry` | `_plugins`, `_disabled` | `register`, `enable`, `disable`, `active` | a disabled plugin is not handed out |
| `repository` | `_items` | `add`, `update`, `remove`, `get`, `list` | an entity is where its key says, in order of insertion |
| `sanitizer` | none | `sanitize` under a `SanitizeRule` | idempotence; within the cap |
| `stats` | none | `apply`, and both modes of a stack | a buff never takes away, whatever else is stacked; a modifier alone does what it does by itself |
| `validation` | rules | `check`, six builders | a required field that is empty is reported once |

Cores that are not modelled:

| core | what it does | why not |
|---|---|---|
| `weighted_table` | one pure walk over running sums | its tests enumerate every roll of a table; it has no state and nothing to interleave |
| `console` | runs allowlisted commands as subprocesses, keeps a log | the operating system does the work; one lookup before it and one append after it are left |
| `config` | reads the environment once, at start | pure conversion of text |
| `reporting` | formats and writes one file | pure output |

## 2. The modules

| module | models | kind |
|---|---|---|
| `Compartment` | what a bulkhead promises: atomic admit, refuse, release | abstract specification |
| `Bulkhead` | `bulkhead.py` to the load and store of the counter | detailed; implements `Compartment` |
| `StateMachine` | `statemachine.py` | operators, used by the next two |
| `CircuitBreaker` | `circuit_breaker.py` with callers, clock and dependency | composes `StateMachine` |
| `Workflow` | `workflow.py` with its actors | composes `StateMachine` |
| `TokenBucket` | `token_bucket.py` with its clock | |
| `Deadline` | `deadline.py` | operators, used by `Retry` |
| `Retry` | `retry.py`, loop by loop | composes `Deadline` |
| `HashChain` | `hashchain.py`, its file, writers and tamperer | |
| `Timetable` | what an hourglass promises: absolute due beats | abstract specification |
| `Hourglass` | `hourglass.py`, counting down in a dict | detailed; implements `Timetable` |
| `LoaderCache` | `loader_cache.py`, its loads and the owners of its files | |
| `SignalBus` | `signal_bus.py` with handlers that call back | |
| `StreamFramer` | `stream_framer.py`, over any chunks | |
| `TelnetCodec` | `telnet_codec.py`, and a peer that builds one read | operators; the peer is external |
| `TestEvidence` | `test_evidence.py` | |
| `Metrics` | `observability.py`: the table, its lock, and the requests that end and scrape | |
| `RecordLoader` | `record_loader.py`, and others who write in the directory | |
| `Health` | `health.py`, check by check | |
| `Registries` | `feature_flags.py`, `plugin_registry.py`, `repository.py`, and their users' calls | |
| `Sanitizer` | `sanitizer.py` | operators, over every text somebody may type |
| `Stats` | `stats.py` | operators, over every stack somebody may gather |
| `Validation` | `validation.py` | operators, over every form and every list of rules |
| `Keeping` | loops that keep some of a sequence, in order, and that add it up | two operators, used by seven of the above |
| `Guards` | the bulkhead, the breaker and the bucket, one of them to a behaviour | composes them, for the run and for the proofs |
| `Shelf` | thirteen cores that share nothing, one of them to a behaviour | composes them, for the run and for the proofs |
| `MC...` | the instances TLC checks | `MCGuards` instantiates `Guards`, `MCShelf` `Shelf`, the others one component |
| `BulkheadProofs`, `CircuitBreakerProofs`, `TokenBucketProofs`, `RetryProofs`, `HashChainProofs` | the theorems of a component | extend the component (the breaker's and the bucket's: `Guards`) and TLAPS |
| `KeepingProofs` | what `Keep`, totals and flattening do to a sequence; induction and recursion | lemmas, used by the next two and by `HashChainProofs` |
| `ShelfProofs`, `OverlapProofs` | the theorems of the shelf's cores: those one caller drives, callbacks included, and those whose calls overlap or whose input is cut anywhere | extend `Shelf` |

Each module's definitions carry the names of the code where TLA+ allows;
`PROJECT.json` maps every one to its lines. Definitions that a comment calls
*mutants* are plausible bugs, each used to see that a property can fail; no
specification refers to them.

### How state and actions correspond to the code

**Bulkhead.** An operation is one `slot()` block; `pc` says where it is between
waiting for the lock, the test, the load and the store of `_active`, the body, and
the same steps on the way out. `self._active += 1` is `LoadUp` and `StoreUp`, so
nothing but the lock makes it atomic. `Reject` is the `raise` inside the `with`,
which releases the lock in the same step. `Finish` stands for a body that returns
or raises: `finally` runs in both cases. The `active` and `available` properties
read the counter under the lock and change nothing; they are left out.

**CircuitBreaker.** `Call` is `allow()` or the front half of `call()`,
`RecordSuccess`, `RecordFailure` and `Abort` its three ends (`Abort` is a
`BaseException`, which the handler does not see). Reading the state may move it
(`Poll`, and inside `Call` and `RecordFailure`), through `Recovered`, which is
`_maybe_recover` and asks `StateMachine`'s `Advance`. The clock appears as the age
of `_opened_at`, counted up to `reset_timeout`, beyond which the code cannot tell
ages apart. The class is documented as not thread-safe, so each method is one
step; the *calls* it guards overlap all the same, because the methods come in two
halves around the guarded work (async tasks, a manual `allow` and `record_...`). A
failure that is recorded past the window takes the breaker from OPEN to HALF_OPEN and
back within the one call: `Remember` counts that as an opening (`sinceOpen`), and as a
failure of a breaker that was not OPEN (`quiet`), which one within the window is not.

**TokenBucket.** Tokens and time are whole numbers of a unit fine enough for the
rate. `check` refills and answers; `consume` is a `check` and, if allowed, the
taking. The clock may step back (`TickBack`): `_refill` then credits nothing but
moves `_last` back, so a span that was credited once is credited again as the
clock comes forward. `Conservation` therefore counts *forward motion*, not the
reading of the clock: that is what the code guarantees.

**Retry and Deadline.** One action per step of the loop: `Try`, then `GiveUp`,
`Overflow`, `HookRaises` or `BackOff`, then `Wake`. A deadline is a value, so
several loops may share one, reset or not (`Again`). `FloatMax` stands for the
largest float: a power beyond it raises `OverflowError` before `min()` can cap it.
An interrupt during `sleep()` is not modelled.

**HashChain.** The file is a sequence of lines and a flag for the last newline.
`ReadTail` is `append` up to the `open`, `Write` the rest; nothing in the code
holds the two together, so another process may come between. `CutShort` leaves
what a crash or a full disk may leave. A payload is a model value; `Reordered`
payloads are those whose canonical JSON differs once read back (a dict with
integer keys: sorted as integers in memory, as strings from the file). sha256 is
taken as collision-free. The tamperer acts once, on a ledger that reads clean,
in the ways the module's docstring lists. Cutting records off the *end*, or
rewriting the last record with a hash of its own, is not among them: no hash
chain without an external anchor can show that, and the code does not claim it.

**Hourglass.** `order` is the key order of the dict and `grains` its values;
`Advance` is the whole loop of `advance()`. Since the loop runs over a copy of the
keys and each step touches only its own grain, the loop is a function of the
state before it, which is how it is written.

**Workflow.** `workflow` is what `build_workflow` returns: the machine's index and
the role map, two maps derived from the same steps. `Look` is `actions()`, whose
answer an actor keeps; `Move` is `advance()`, with any answers of the guards. An
actor may fire an event of an old menu, or one no menu offered. Two of the three
definitions TLC is given are malformed, and `Init` leaves them out because
`build_workflow` raises on them.

**LoaderCache.** One load is four steps: `Begin` (resolve and stat), `Lookup`,
`Parse` and `Store`; nothing in the code holds them together, so other loads,
`Clear` and the owners of the files come between. `Parse` reads the *path*, while
the entry is filed under the *key* that was resolved before. A parse that raises
ends the load and stores nothing. `Edit` may keep the mtime (two edits within a
tick) and `Retarget` may move the link at any time; `steady` records that neither
defeated the mtime so far. `Delete` takes a file away, until an edit puts one there
again: `stat()` raises on it in `Begin`, and reading it does in `Parse`. `parses` keeps
of every parse the mtime it is filed under (that of `Begin`) and the mtime of what it
read; after an edit between the two they differ, and the version is parsed again.

**SignalBus.** `frames` is the stack of `publish` calls; a frame's iterator is an
index into the list as it is *now*, as Python's is. A running handler may
subscribe, publish, return or raise; a raise ends its own frame and leaves the
handler around it to catch it or to raise in turn.

**StreamFramer.** `Cut` is the loop of `feed`. `stream`, which the code does not
keep, is everything fed since the last flush; the property computes the messages
from it alone.

**TelnetCodec.** The three functions are operators on a sequence of byte names.
The peer appends whole commands and text to one read, and keeps apart what of it
is text and what it last answered on each option. `MCTelnet` and `MCShelf` differ in
the bodies its frames may have.

**TestEvidence.** `Expect`, `Record` and `Unrecordable` (the `raise`), and the
verdicts as operators; `calls` is what the caller knows of it.

**Metrics.** A request ends with an answer (`Answer`), asks for `/metrics` (`Ask`) or
raises (`Raise`), which passes the middleware by. `observe` is `Lock`, `CountOne` and
`AddSeconds`, `render` is `Lock`, `CopyCounts` and `CopySums`: each touch of a dict is a
step, as only the lock holds them together. In the service the middleware runs on
the event loop and `/metrics` in a thread, so that a scrape overlaps one count at
most; the class calls itself thread-safe, and the model lets any two overlap. A
scrape is a request too and is counted after its own copy.

**RecordLoader.** `IsDir`, `Glob` and, for a recursive load, `GlobBelow` are `load_dir` up
to its list of paths, `LoadNext` each `load_record` and the return. Others write, spoil
and delete files, and the directory itself, between any two of these. A glob of
`**/*.json` scans one directory after another, and so does the model; the listing of
one directory is one instant. What the loading of a content comes to is `Raises`: the caller's
`error` for a file that is gone or not JSON, what `parse` raises where it refuses,
`UnicodeDecodeError` for a file that is not UTF-8.

**Health.** A `run()` is one `Ask` per check and a `Return`; `report` is two of them, with
`EndOfLines` between. `Ask` takes any answer, one the code does not recognise and an
exception included, so a check may answer otherwise the second time. `Register` may
come at any moment, from within a check too: the dict's iterator compares sizes
before each item and at its end, and `Escape` is the `RuntimeError` it raises then, or
an interrupt within a check.

**Registries.** A behaviour is of one of the three classes. They share a shape, a dict
of what was added and marks on some of its names, and so they share `items`, `marks`
and the operators on a dict; every method that changes state is an action of its own.
Every call may be made at any time: one the code refuses is recorded in `calls` and
changes nothing.

**Sanitizer.** A character is one of nine, standing for the classes the code tells
apart: whether it is a control, whether it is blank to `\s` and `strip()`, and what
`lower()` makes of it (one capital becomes two characters).

**Stats.** A float is a whole number of units, `Unit` of them to one, and stands for
the float nearest to what the caller wrote. `Factors` is `math.prod`: it multiplies from
the first modifier to the last and rounds each product to a unit, as the code does to a
float, so that the order of the factors counts in the model as it does there. `Round` is
Python's, from halves to the even number. Sums of percentages are exact: `sum` of floats
compensates its errors in the Python this package asks for (3.12). The spacing of floats,
which varies with their size, and the lookup by name in a `StatBlock` are left out.

**Validation.** `Objects` has a line for each builder: when its rule objects to what the
mapping holds. `check` collects them in order; `merge` and `raise_if_invalid` only hand
them on.

## 3. The runs

| run | instance | what it asks |
|---|---|---|
| `guards` | three guards, one to a behaviour (below) | fourteen properties, a type of each and what it promises |
| `breaker_probe` | 3 callers | violated: half-open lets one probe through |
| `retry` | 4 policies, budgets 0, 2, 4 or none, two loops | bounded attempts, honest outcomes, causes, overrun, termination |
| `retry_deadline` | the same | violated: no attempt once the budget is spent |
| `retry_overflow` | the same | violated: the final failure is re-raised |
| `hashchain` | 2 writers, 3 payloads, 4 lines | tamper evidence, completeness, read-back, no healing |
| `hashchain_readback` | the same | violated: what is appended reads back |
| `shelf` | thirteen cores that share nothing, one to a behaviour (below) | seventeen properties, one or two of each core |
| `telnet_escape` | 3 commands, bodies with 255 240 in them | violated: only text is left |
| `unreadable` | 1 file, 1 change | violated: an unreadable file fails as `error` |
| `stats_order` | stacks of up to 3 of 30, 40 and 10 % on 250, in units of 1/4096 | violated: the order of a stack does not count |
| `validation_once` | a form of 2 fields, 3 of 6 rules | violated: a required field is reported once |

`MCGuards` picks a guard at the start and `MCShelf` a core, and lets no other move: the
state space is the sum of the three, or of the thirteen, not their product, and each
property speaks of one of them.

| guard of `guards` | instance | properties |
|---|---|---|
| `Bulkhead` | 4 blocks, limit 2 | `TypeOK`, `CapHolds`, `CountIsHolders`, `LockAlwaysComesBack`, and the refinement of `Compartment` |
| `CircuitBreaker` | 3 callers (one may hang), threshold 2, window 2 | `BreakerTypeOK`, `TripsOnARun`, `FailsFast`, `RejectsForCause`, `Recovers` |
| `TokenBucket` | capacity 5, rate 2, clock 0..6, 8 ticks forward in all | `BucketTypeOK`, `Conservation`, `RetryAfterHonest`, `OnlyTakingTakes` |

| core of `shelf` | instance | properties |
|---|---|---|
| `Hourglass` | 3 labels, 2 places, 5 beats | `ImplementsTimetable` |
| `Workflow` | 3 actors, 5 steps, 3 moves | `HistoryIsAPath`, `OnlyAuthorised`, `MenusAreHonest` |
| `LoaderCache` | 2 files, a link, 2 loads, mtimes 0 and 1, 3 parses of a file | `LoadsAreFresh`, `ParsesAgainOnlyIfOvertaken` |
| `SignalBus` | 2 types, 2 handlers, 2 publishes deep | `EveryoneHears` |
| `StreamFramer` | 7 bytes in chunks of up to 3 | `ChunksDoNotMatter` |
| `TelnetCodec` | 3 commands or text bytes | `OnlyTextIsLeft`, `LastReplyWins` |
| `TestEvidence` | 4 calls on 2 checks | `VerdictIsEarned` |
| `Metrics` | 3 requests, 2 series and that of `/metrics` | `ScrapesAreWhole` |
| `RecordLoader` | 2 files and one below, 2 changes | `EveryRecordOrNone` |
| `Health` | 2 checks | `OverallIsEarned` |
| `Sanitizer` | texts of up to 4, every rule, caps 0, 1, 2, none | `SanitizingTwiceIsOnce` |
| `Stats` | stacks of up to 3 of 6 modifiers, bounds in -3..7, units of a quarter | `BuffsNeverCost` |
| `Registries` | 4 calls on 2 names | `AnswersFollowTheCalls` |

Every property of a passing run has a mutant in `PROJECT.json` that breaks it.

### Why the bounds are enough

* `guards`, bulkhead: with two places, four blocks put two inside, one at the door and one
  refused at the same time; further blocks repeat these roles. The proofs lift
  the bound.
* `guards`, breaker: two failures make a run longer than one; two callers overlap around a
  trip and a third may hang in half-open. The window of 2 has a before, a within
  and an end. Lifted by the proofs, except for `Recovers`.
* `guards`, bucket: 5 is not a multiple of 2, so refills are cut by the cap and deficits
  round; steps of 1 and 2 go both ways, and the clock can go forward twice over
  the same span. Lifted by the proofs.
* `retry`: one policy meets its cap, one has jitter, one leaves the floats at the
  third power, one has a single attempt; the budgets end before, during and
  after the backoffs.
* `hashchain`: four lines are a record with a past and a future and room for an
  insertion; two stable payloads let one be forged into the other, a third is not
  stable. Writers, and the stable payloads, are symmetric: no definition names
  one. The bound is in the guards, so a full file takes no more.
* `shelf`, timers: three labels for two places reach the cap and let a label come
  back; five beats are more than a period after every delay.
* `shelf`, workflow: three moves go round a loop of the graph and through a move to
  the same state.
* `shelf`, loader to evidence: a load of a link can be overtaken by another of its file, by an edit and
  by a `clear`; the two loads are symmetric, the link starts at the first file
  because the files are. Three parses are one overtaken by an edit, one that makes good
  for it and one more, which must not be. What follows an edit that kept its mtime is cut
  off (`CONSTRAINT Explored`), as both properties of the loader are vacuous from there on,
  and so is what follows an edit of the second file, which is there for the link to move
  to and to be deleted. The
  bus has a publish within a publish and a subscription within both; seven bytes
  hold three delimiters that overlap, in three chunks or more; three items put a
  command before, between and after text, with five bodies of a frame; four
  calls are a declaration, two records and a refusal.
* `shelf`, metrics: a scrape with one request half counted before it and one after;
  the seconds 1, 2 and 4 tell every set of three requests apart.
* `shelf`, directory: a file spoilt, deleted or replaced before its turn, one that
  comes between the two listings or after them, and two such changes on end.
* `shelf`, health: one check answers and the other is registered under it, in the
  lines or in the overall of a report; two checks are a better and a worse one.
* `shelf`, sanitizer: two blanks around a control, a blank where a cap of 2 cuts, and
  a capital that lengthens the text across the cap need four characters at most.
* `shelf`, stats: three modifiers put a buff before, between and after others; quarters
  make products that are rounded to a unit, halves of both parities and results past
  either bound; and there are a negative base and a penalty of more than all. The proof
  lifts the unit with the rest.
* `shelf`, registries: add, override, retire and add again are four calls.
* `telnet_escape`, `unreadable`, `validation_once`: the smallest instance that has the case.
* `stats_order`: the percentages are ordinary ones, and 1/4096 a unit coarse enough for
  TLC's integers; with Python's floats the orders of the same three modifiers on the same
  stat come to 500 and to 501.

Runs whose system comes to rest, at a bound or because all is done, say
`CHECK_DEADLOCK FALSE` (`retry`, `hashchain`, `shelf` and the violations beside them,
`unreadable` and `stats_order` too); the guards never deadlock, and TLC checks that.

### Fairness

* `Bulkhead`: weak fairness of the steps *inside* the lock, a few bytecodes that
  cannot block. Nothing is assumed of the lock's queue, the callers or the work.
* `CircuitBreaker`: time passes; a caller that is not hung calls again, and its
  call is not interrupted every single time (strong fairness of success, which
  competes with `Abort` and, while the dependency is ill, with failure). A hung
  caller owes nothing. This is the least under which a breaker can recover: the
  code has no timer, and leaves OPEN only when it is asked.
* `Retry`: weak fairness of the loop: `fn`, the hook and the sleep come back.

In `guards` each of the first two is asked of the behaviours of its own guard: the steps
it speaks of are enabled in no other.

The other modules state safety only.

### What the violations show

1. **One probe** (`circuit_breaker.py:5`). `allow()` answers yes to everybody in
   HALF_OPEN, so overlapping calls all reach the recovering dependency. The doc
   promises one. With strictly sequential calls it is one.
2. **No further attempt** (`retry.py:105-106`). The deadline is tested before the
   sleep only: a backoff that outlives the budget is followed by one more call.
   `OverrunBounded` says what does hold: less than one backoff and one call over.
3. **The final failure** (`retry.py:5-6`). With many attempts the uncapped power
   overflows a float, and `OverflowError` leaves the loop in place of `fn`'s
   failure, although the delay would have been capped.
4. **Append and read back** (`tests/test_hashchain.py:3`). Integer keys in a
   payload sort as integers when hashed and as strings when read: the ledger reads
   as tampered though nobody touched it.
5. **Only text is left** (`telnet_codec.py:47-49`). A frame's body that holds 255 right
   before 240 is sent as `IAC IAC SE`, and `strip_iac` takes the last two bytes for
   the end of the frame, as it looks for the pair without undoing the doubling. The
   rest of the body is left as text, which the comment there means to prevent.
6. **Reported once** (`validation.py:82-83`). The comment says that the other rules fire
   only on a field that is present and non-empty. `one_of` and `of_type` fire on any
   that is present, and `max_length` on a long run of blanks, so that a required field
   may be reported twice. In the run's trace a None is, as required and as of no right
   type.
7. **Unreadable** (`record_loader.py:20`). The docstring of `load_record` says that a file
   which cannot be read fails as the caller's `error`. A file that is not UTF-8 raises
   `UnicodeDecodeError`, a `ValueError`, which neither `OSError` nor `JSONDecodeError`
   covers (line 23), so that the caller's handler does not see it.
8. **Order-independent** (`stats.py:103`). A compound stack multiplies floats one after
   another (line 130). Each product is rounded, so that another order may end at another
   float, on the other side of a half, and `round` then at another point.

### Where a property needs a condition

These are not violations of anything the code promises outright, and no run
counts them; the conditions are in the properties or in the instance.

* `LoadsAreFresh` and `ParsesAgainOnlyIfOvertaken` hold while every edit moves the mtime
  on and no link moves under a load of it. The module trusts the mtime, and says so. The second speaks of one
  load at a time, and lets a version be parsed twice: a load whose file is edited between
  its stat and its parse files the new version under the old mtime, and the next load
  parses it again (`loader_cache.py:34-39`).
* `OnlyTextIsLeft` passes in `shelf` because no body there has a literal 255 right
  before a 240; those are the subject of `telnet_escape`.
* `LastReplyWins` needs bodies in which no 255 stands before a verb and the option:
  `read_negotiation` looks at every three bytes (`telnet_codec.py:76`), so that of a
  frame whose body holds 255 251 1 it reads a WILL, although a body is no negotiation
  and the docstring has `None` for a chunk without one (line 70). The doubled 255 does not
  help, as the second of the two is read with what follows it. `TelnetAssumption` leaves both
  kinds of bodies out.
* `BuffsNeverCost` compares a stack with a buff and the stack without it only where the
  stat cannot be negative and no modifier takes more than all of it: a percentage of
  a negative base, or beyond minus 100 % when compounding, turns the sign. It keeps the
  order of the others; that the order does not count no passing property says.
* `OverallIsEarned` lets a line of a report be worse than the status above it where the
  check has answered otherwise meanwhile; nothing in the code holds the two runs
  together. And it says nothing of a `run()` that a `RuntimeError` leaves because a check
  registered another: `health.py:10` speaks of checks that break, and here it is the
  registry that does.
* `ScrapesAreWhole` counts the requests that were answered. One whose handler raises
  leaves no trace in the table or the log, although `observability.py:5-6` speaks of
  every request, and a path that matches no route is a series of its own
  (line 127), which lines 12-13 would rather avoid.
* `EveryRecordOrNone` asks that a call fail over a spoilt file, not as what; that is
  `UnreadableFailsAsError`, which the run `unreadable` violates.
* `HonestOutcome` lets a loop end as an escape, by the hook or an `OverflowError`, over a
  transient failure. That the failure is hidden then is what `FinalFailureReraised` and
  its violation say.
* A read that ends in a lone `IAC` keeps it as text; the model's reads hold whole
  commands, and joining reads is the caller's work.
* Handlers that subscribe a handler on every delivery keep `publish` busy for ever;
  the model bounds the subscribers.

## 4. The proofs

Every theorem is of the form `Spec => []P`, `Spec => P` for an action property, or a
refinement, for all values of the constants that meet the assumptions named in the
modules. The shape is the same throughout: an invariant `IInv` of named parts, of which
TLC has checked that it holds; a lemma for each action that preserves it; and the
property as a consequence. What the property itself lacks to be inductive is the point of
each proof:

* **Bulkhead**, from `OpsAssumption` (finitely many operations) and
  `LimitAssumption`. `CapHolds` alone is not inductive: it holds only because
  whoever is in a critical step holds the lock (`LockOwner`), because what it
  loaded is still what the counter says (`LoadIsCurrent`), and because the counter
  counts the holders at every step (`SlotsCounted`). Each action moves one
  operation into or out of `Holding` or not at all, which lemmas on the
  cardinality of `Holding` turn into arithmetic. `IInv` also gives the refinement:
  `StoreUp` is `Admit`, `Reject` is `Refuse`, `StoreDown` is `Release`, `Request`
  is `Ask`, and the rest are stutters.
* **CircuitBreaker**, from `ThresholdAssumption` and its companions. The action
  properties follow from `CountIsRun` (in CLOSED, `_failures` is the unbroken run
  of failures) and `WindowIsFresh` (the code's window started no later than the
  opening did, and with a failure). The latter needs its second half, that outside
  OPEN an opening lies a whole window back, to survive a re-opening, and that in OPEN the
  last failure that counts is no older than the window. They are proved of `GuardsSpec`,
  where a step is one of the breaker or leaves it alone. Lemmas compute
  once what the state machine's index answers to each of the four edges.
* **TokenBucket**, of `GuardsSpec` too, from positive rate and capacity and costs within capacity.
  `Conservation` is not inductive: the induction is on the law *at the last
  refill* (`CreditIsCounted`), with the uncredited span bounded by the forward
  motion since. `RetryAfterHonest` needs `PromiseTracked`: the balance that a
  denial implies at every later refill, under the cap. The products of rate and
  time are handled by lemmas on monotonicity, since SMT does no nonlinear
  arithmetic of its own accord.
* **Retry**, from the policies' ranges and from `PowerAssumption` (a power of the
  factor is a natural number, which no prover here knows). The four properties speak of a loop that has ended;
  the invariant is where the loop stands: how many calls and sleeps lie behind it
  (`CallsCounted`), that only transient failures do (`OnlyTransientSoFar`), and that a
  loop which has slept did so with time left, one backoff before (`TimeIsWatched`).
* **HashChain**, from `ReorderAssumption` (payloads that differ have contents that differ)
  and `BlankAssumption` (what a file may begin with is blank). A file reads clean if every
  filled line is sound, has its rank for its number and is linked to the one before it
  (`CleanFile`): stated line by line, it needs no induction along the chain. What reads
  clean after an append read clean before it (`CleanWrite`), which is `NeverHeals`; each way
  of tampering puts a row where another belongs, so that it breaks what read clean, and
  `TamperEvident` follows. `CleanWhileUndisturbed` needs `AppendInTurn`: at most one append is
  in progress, and what it read of the tail still is the tail. `Rows` filters the file,
  which is what the lemmas of `KeepingProofs` are for.
* **Hourglass** implements `Timetable`: `TypeOK` is inductive, and each step of the
  queue is the timetable's step of that name. `Advance` is the hard one: the timers that
  are due are those with a beat left, and that a rearmed one keeps its place in the
  order is a fact about `Keep`.
* **Workflow**, from `StepsAssumption` (a definition's steps are a sequence). `Wired`: the
  machine's index and the role map stay those of one definition; a lemma says that what
  the machine fires is a step of the definition, and that the role map has the roles of
  just that step, since `build_workflow` refuses two steps of one state and event.
  `MenusOutlive` carries what a menu promised when it was asked for.
* **SignalBus**: the property, that what a frame has heard is a beginning of the list as
  it is now, which begins with the list as it was, is inductive with a type. Lemmas on
  beginnings of sequences do the rest.
* **TestEvidence**: `Kept` relates the record of a check to the latest call that made one.
* **Health**: an overall status is a greatest one in the order of severities, of a panel
  that is as long as the checks that were asked.
* **LoaderCache**: `Fresh` lists what a load may yet take for its answer: what its path
  holds, what the cache holds for its mtime, and what any other load is about to put
  there. Each was seen during the load. `Timely` is what steadiness is for: an entry with
  the mtime of now has the content of now, unless the file is gone. `ParsesTracked` is of
  one load at a time: what is parsed of a file is filed under ever later mtimes, none
  before that of a version met earlier, and the cache holds the last of them.
* **RecordLoader**, from `FilesAssumption`. `Recorded`: the list is of the files that were
  there when their directory was listed, nothing is remembered of a file before that, and
  what a file holds is the last of what it has held since.
* **Metrics**, from `RequestsAssumption` (finitely many requests of whole seconds).
  `Exclusive`, as for the bulkhead; `Tabulated`: the counts are ahead of the sums by the
  request that holds the lock between the two, and by no other; `Copied`: so is a copy in
  the making. The seconds of a set of requests are the cardinality of a set of ticks,
  since a sum over a set is an induction the prover does not do.
* **Registries**, from `PluginsAssumption`. `Standing` relates the dict to the calls: who
  is there, in order of the addition, with the value the calls gave it; `Said` relates the
  marks to what was said since. A lemma for each kind of call says what it changes of the
  name it is of (`ShelvedBears`, `ShelvedSpeaks`, `ShelvedForgets`), and that it changes
  nothing of any other (`ShelvedSame`).
* **StreamFramer**, from `FramerAssumption` (the delimiter is not empty, which `__init__`
  demands). The property is inductive as it stands, with the type of the stream; what
  is hard is its step. Two scans are compared: `EndsAt`, which reads the whole
  stream once, and the loop of `feed`, which looks for the first delimiter in what was
  kept and what has come, cuts, and looks again. Both are characterised without
  recursion by `EndsUpTo`: each end is that of the first delimiter that stands where a
  message is. From there it follows that bytes which come later move no end
  (`FramerLonger`), that behind the last end the delimiter stands where it stands in the
  whole stream (`FramerRest`), and, by the number of ends that are left, that the loop cuts
  out one message for each (`FramerCut`).
* **TelnetCodec**, from `TelnetAssumption` (below). A read is built a piece at a time.
  `OnlyTextIsLeft` is strengthened to speak of what may yet come: whatever bytes are put
  behind those so far, what `strip_iac` makes of them is the text so far and then what it
  makes of those bytes alone. No piece leaves a command open (`TelnetPiece`); for a frame
  that is what `escape_iac` is for, and the lemmas on its body go through it by
  induction. `LastReplyWins` needs that the bytes so far do not end in 255 and a verb
  (`TelnetSealed`) and that no piece begins with a verb: then the replies are those
  there were and those within what comes.
* **Stats**, from `NumbersAssumption` (integers, and a unit that is at least one part). A
  sum loses a summand when an element is taken out (`TotalWithout`). A product that is
  rounded at every step has no such law: instead the running products are compared from
  the buff on (`SheetFactorGrows`), each at least what it would have been without, as
  a factor of at least one grows a product that is not negative, a factor that is not
  negative keeps the order of two, and rounding keeps it too (`SheetRounds`). Clamping
  keeps the order as well, so that it is enough to compare before it.
* **Sanitizer**, from `CapsAssumption` (`SanitizeRule` refuses any other cap). The text typed
  is any; the argument is not about behaviours. Each rule that is on settles something of the
  text (`CleanerSettled`): no control is left, blanks are single spaces, nothing is
  upper case, neither end is blank, it is within the cap. Each step settles its own,
  keeps what the steps before it have settled, and leaves alone a text that is
  settled for it already; so the second time every step does nothing.

The theorems of the thirteen cores are about `ShelfSpec`, the specification that the run
checks, as those of the breaker and the bucket are about `GuardsSpec`. In it one core moves and the others stay, so that every step of the shelf is a
step of the core or leaves the core alone: the invariant is proved of the core's own
`Next`, and holds of the shelf.

Where an assumption is about more than the type of a constant, the code justifies it or a
run shows what is beyond it. `TelnetAssumption` takes three things for granted. The bytes of
text are no command's: callers escape a literal 255, which is `SendLiteral`, and a verb's
byte as text is safe for `strip_iac`, but `read_negotiation` may take it, behind a doubled
255, for part of a reply. No body has 255 right before 240: that is what `telnet_escape`
shows. And no body, with the 255 that follows it, holds a reply: see section 3.

Induction over data is done here with a set in the place of the predicate, as the library's
theorems take an operator and so cannot be used: `Induction` says that a set with 0
and with the successor of each of its members has all naturals, and a proof defines the
set of the numbers for which its claim holds. `Recursion` gives the values of a
recursive function one by one. Both rest on the existence of least members, which the library
has for finite sets.

Three choices in the modules are owed to the prover, and change nothing of what they say.
`Keep` and `Total` stand in the place of `SelectSeq` and of a fold, which take an
operator: no lemma with an operator for a parameter can be used here, and one with a
set can. What is recursive is a recursive function, `Factors`, `EndsAt` and the loop of
`feed` among them. And a dict that a caller reads by name is read with `CHOOSE`, as there is
just one item of the name.

### What is only model-checked

* Liveness (`LockAlwaysComesBack`, `Recovers`, `Terminates`): TLAPS proves no liveness
  under fairness. Every other property of a passing run is the statement of a theorem.
* The violations, of course: they are counterexamples.

## 5. Abstractions to keep in mind

* Argument checks that raise and change nothing (a limit of zero, a cost above
  capacity, `after <= 0`) appear as assumptions on the constants.
* Numbers are integers. The error of a float is modelled where a property depends on it:
  `Stats` rounds its products to a unit (evenly spaced, as floats are not), `Retry` has
  their overflow. `TokenBucket` is exact, and its promises are those of exact arithmetic.
* The bulkhead's slots are not interrupted between two bytecodes: a
  `KeyboardInterrupt` between the increment and the `try` would leak a slot.
* State-machine effects, labels, messages and reasons carry no control and are
  left out.

## 6. Plan

Done: 1 to 9 below, which is all the plan has of modelling; the four cores left out
are named in section 1 with the reason.

1. `Compartment`, `Bulkhead` and their proofs.
2. `StateMachine`, `CircuitBreaker` and its proofs.
3. `TokenBucket` and its proofs.
4. `Deadline`, `Retry`; `HashChain`.
5. `Timetable`, `Hourglass`; `Workflow`.
6. `LoaderCache`, `SignalBus`, `StreamFramer`, `TelnetCodec`, `TestEvidence`.
7. `Metrics`, `RecordLoader`, `Health`, `Registries`.
8. Pure algorithms over bounded inputs: `Sanitizer`, `Stats`, `Validation`.
9. Proofs: the safety properties of `Retry`, `HashChain`, `Hourglass` (a refinement) and
   of the other cores of `Shelf`.
