# DiaoBot: specifications, model checking and proofs

DiaoBot is a framework for group bots. `diaobotd` loads shared libraries that
register *cron jobs* and *reply makers*, starts the jobs once a minute on
detached threads, and answers HTTP callbacks on a small pool of worker threads.
An SDK gives the libraries schedules, a configuration codec, HTTP requests and
messages. This directory holds TLA+ modules of these parts, the TLC
configurations that check them on small instances, and theorems about them
that TLAPS checks for all values of the constants. All paths below are relative
to `src/`.

## Parts of the system

| Part | State | Operations | Talks to | Module |
|---|---|---|---|---|
| Cron thread, `Daemon/CronThread.cpp` | `time_point`, the `tm *` of `localtime` | one pass of `DoLoop` a minute, wait until the next | job registry (reads), condition variable, clock | `CronThread` |
| Signals and shutdown, `Daemon/DaemonUtil.cpp` | `IsKilled`, `ThreadSleepCV` and its mutex | `GracefulSignalHandler`, `KillDiaoBotDaemon` | cron thread, poll thread, workers | `CronThread`, `HttpThread` |
| Time stamps, `LOG` and `__GET_CURRENT_TIME_STRING` | the static buffer of `localtime` | every `LOG` on any thread | cron thread (same buffer) | `CronThread` |
| Cron schedule, `SDK/CronConfig.cpp` | five bit masks | Set, Clear, IsSet | cron thread | `CronConfig`, `CronSchedule` |
| Registries, `SDK/BotEngine.cpp`, `SDK/include/BotEngineImpl.hpp` | `CronJobList`, `ReplyMakerList`, a mutex each | Register, Destroy; two unlocked walks | libraries, cron thread, workers | `JobRegistry` |
| Daemon start: the pid file, `Daemon/main.cpp` | the pid file, processes | check, fork, write, run, unlink | other instances, the kernel | `PidFile` |
| Daemon start: the configuration, `Daemon/main.cpp`, `Daemon/DaemonUtil.cpp`, `Daemon/HttpThread.cpp` | what was read of the tree, the webhook | parse, test each item, load libraries, bind the port | codec, libraries, HTTP thread | `Startup` |
| Dynamic libraries, `Daemon/DylibManager.cpp` | name to (id, handle) | load, bind, unload, reload | both registries, `dlopen` | `Libraries` |
| HTTP server, `Daemon/HttpThread.cpp` | connections, the socket pair, the mutex of its read, results under way | accept, request, answer, close, stop | mongoose, callback dispatch | `HttpService`, `HttpThread` |
| Callback dispatch and messages, `Daemon/CallbackHandler.cpp`, `SDK/CallbackMessage.cpp` | the request, the message, the response | verify a URL, decrypt, extract, ask the reply makers | registry, encryption | `Callback`; the walk in `JobRegistry` |
| Encryption, `ThirdParty/WXBizMsgCrypt` | none | frame, pad, encipher, base64, sign, and back | dispatch | `MsgCrypt` |
| Configuration codec, `SDK/TfcConfigCodec.cpp` | a tree of sections, `CommentedNodeStack` | parse, look up, edit, generate | start, libraries | `ConfigCodec` |
| HTTP client and `SendMessage`, `SDK/BotEngine.cpp` | the environment variable `no_proxy` | GET, POST, send | curl, rapidjson | `HttpClient` |
| Wework messages, `SDK/WeworkMessage.cpp` | objects, the `PImpl` they share, articles | build, copy, `GetJson` | `SendMessage`, dispatch | `WeworkMessage` |

What is hard in this code, and what each module is for:

* **Shared state without a lock.** `localtime` returns a static buffer that the
  cron thread modifies in place while other threads log (`CronThread`); the two
  lists are walked without the mutex that Register and Destroy take
  (`JobRegistry`); `no_proxy` belongs to the process, and every request without
  a proxy saves, extends and restores it (`HttpClient`).
* **A signal handler that locks.** It must not lose the wake-up of a thread
  about to sleep, and it must not block on the thread it interrupts
  (`CronThread`).
* **Time.** Late wake-ups, early wake-ups, a clock that goes back, the ends of
  hours and years, the numbering of weekdays (`CronThread`, `CronSchedule`).
* **A list modified while it is iterated** by the loop of Destroy
  (`JobRegistry`), and a pointer into a vector that grows (`WeworkMessage`).
* **A check and a later use:** the pid file is read, and written after a fork;
  pids are reused; daemons crash (`PidFile`).
* **Threads that wait for each other:** the poll thread writes to a socket the
  workers read, and the workers wait for the poll thread; connections are
  known by an address that is reused (`HttpThread`).
* **Steps that fail halfway.** Lookups dereference a section without testing
  that it is there, libraries fail to load, a message lacks an element
  (`Startup`, `Libraries`, `Callback`).
* **What outlives its owner.** An unloaded library leaves its name in the map
  and its reply makers in the list (`Libraries`, `Bot`).
* **Data that has to come back as it went:** a configuration that is generated
  and parsed again (`ConfigCodec`), a reply that is padded, enciphered, and
  signed (`MsgCrypt`).

`PROJECT.json` lists every hazard with its line and the properties that cover
it, and maps each definition to the lines it stands for.

## Modules

**`CronConfig`** has no state: a mask is the set of its 1 bits, `SetBit`,
`GetBit`, `ClearBit` are the templates of `CronConfig.cpp`, `WillExecute` is
the test of `DoLoop`. **`CronSchedule`** puts a state machine around it: any
sequence of Set and Clear calls with documented arguments, compared with the
schedule the caller means.

**`CronThread`** has one action per statement of `DoCronThread` that another
thread can observe: `Lock`, `CheckKilled`, `Localtime`, `DoLoop` (one round per
job), `IncrementMinute`, `ZeroSecond`, `Mktime`, `Wait`, then `Timeout`,
`SpuriousWakeup` or a notification, `Relock` (which decides between `timeout`
and `no_timeout` as the library does, by reading the clock) and `Exit`. The
handler is three actions, on the main thread, on the cron thread (which then
stands still) or on another. `LogElsewhere` overwrites the static buffer, or
one field of it, at any moment. A time is a pair of minute and second; the
constant `Calendar` says which broken-down time each minute has. `mktime` is
modelled by what it does to a buffer whose minute was incremented: it is the
next minute of the calendar. Changes between standard and daylight-saving time
are not in the model. Its history variables (`pass`, `fired`, `refired`,
`clobbered`, `spurious`) are read by properties only.

**`JobRegistry`** is both lists at once. Entries are numbers in the order of
registration, and the list is a subset of them. `Destroy` is one action per
iteration, including the second increment after an erasure and the step over
`end()`, which in libstdc++ is `begin()` again. A walk is `StartPass`, `Visit`,
`Advance`; when its entry has been freed under it, `UseAfterFree` says that
nothing is known any more. Keys are library ids or Runnables; `Replying` is
empty for the job list and names the makers that reply otherwise.

**`PidFile`** has one action per system call on the pid file. A `Write` over
contents written meanwhile by another instance may leave any number. Other
programs take and release pids; a probe of one of their processes may fail
with EPERM, and the start goes on, while the instances of a bot are one user's.
`Crash` stands for a signal, an exception or a
fault (a null `FILE *` included), `ConfigIll` for the two exits after the file
was written.

**`HttpService`** is the promise: a request is received, then answered once or
dropped, for good. **`HttpThread`** is the code: the poll thread (`Accept`,
`Close`, `HttpRequest`, `WriteSock`, `HandleCtl`, `MgrFree`, `CloseSocks`) and
the workers (`WorkerTest`, `WorkerLock`, `WorkerRead`, `WorkerHandle`,
`WorkerSend`, `WorkerAck`, and what they meet once the manager is freed). A
write to the socket blocks but does not fail (`HttpThread.cpp:48` to `50` is
left out): both its ends are open as long as the poll thread polls, and a
handler installed by `signal()` lets the write resume.
mongoose is external and modelled from how it is used: a control socket that
carries a result to the poll thread, one byte back as soon as it was taken, and
the callback for every open connection. `session` says which client is behind
an address; the code does not know. `Connection->user_data` is written and
never read and is left out. `HttpThread!Service` is the refinement mapping:
pending is every request in the socket, in a worker, in `writing` or on the
control socket.

**`ConfigCodec`** is `ParseImpl` one line at a time, the lookups, the nine
editing calls and `Generate`. A line is what `Trim` leaves of it, as a sequence
of words (`Symbols`) and of the marks the parser looks for. The lists of nodes are numbered
in order of creation, so that a pointer is a number; an erased section has no
parent. `open` is the stack of running calls of `ParseImpl`, `stack` is
`CommentedNodeStack`: the code keeps the two in step by hand. `"wild"` is the
status after undefined behaviour (a `pop_back` of an empty list, a null pointer
dereferenced).

**`Libraries`** is `DylibManager` with the registrations of each library's
`DB_Bind`; the skipping loop of Destroy is here an operator on lists of ids,
`DestroyCronJobs`, since nobody else is in the list. **`Startup`** is `main` in
terms of `ConfigCodec` and `Libraries`: one action per place where an item is
asked for, then the loop over `root\libs`, the webhook and the port.
`"crashed"` is a null pointer, `"exited"` an exit with a message,
`"terminated"` an exception nobody catches.

**`MsgCrypt`** has the operators of `WXBizMsgCrypt`. AES is ideal: a cipher
gives back its text under its own key, and one of `Scrambled` under another;
SHA1 tells its arguments apart, but not their order, as the code sorts them; the
code hashes their concatenation, so bytes moved from one argument to the next
give the same sum there, and no property depends on that.
The sum of sizes in the frame wraps at the width of its `uint32_t`.
**`Callback`** is what a worker does with a request, with the tests in the
order of the code; the constructors of `CallbackMessage` are sequences of
elements looked for, each with what happens if it is missing or has no text.

**`Bot`** composes `Startup` and `Callback`: whether there is a server, its
token, its key and its reply makers come out of the parsed text, and library
code unloads and reloads libraries from when both threads run, before the port
is bound, and while requests are handled. (`DB_Bind` might call `DylibManager`
itself while the libraries are being loaded; that is not modelled.)

**`HttpClient`** is `CurlHttpRequest` cut where it reads and writes `no_proxy`,
and the return value of `SendMessage`. An uninitialised `ResponseCode` holds
any of `Garbage`. **`WeworkMessage`** has an action per setter; objects share
a `PImpl` after a copy, `moves` counts the reallocations of the vector of
articles, and `GetJson` is the sequence of calls of the rapidjson `Writer`. An
article has its four texts, each of which may be empty; an attachment is the
list of its buttons, and a button its `ReplaceText`, the one of its texts that
is left out when empty (what the others hold changes no call). A button can be
added to and changed in any attachment, as the library keeps pointers to them.
**`Sdk`** puts the four independent classes of the SDK side by side; they share
no state, so one of them moves in each behaviour.

The `MC*` modules give constants their values; a definition whose comment says
"Mutant" is a faulty variant of the definition after it and is not part of any
specification: it shows that a property notices that fault.

## Runs

Runs of specifications that are expected to hold:

| Run | Checks | Bounds, and why they are enough |
|---|---|---|
| `CronSafety` | `TypeOK`, `NoLostKill`, `CronEndsOnlyWhenKilled`, `NoDoubleFire` | 2 minutes of 2 seconds, 1 job, 2 signals, 1 clock step back. Two signals are the fewest with two handlers at once; two minutes let a pass be late, or repeat. |
| `CronOnTime` | `EveryDueJobRuns`, `SignalTerminates` | 3 minutes across the end of a Saturday, a December and a year, 2 jobs (every minute; midnight of January 1st), 1 signal. |
| `RegistryWalks` | `TypeOK`, `WalkIsComplete`, `FirstMakerReplies`, `DestroyTakesIsolated`, `DestroyTakesHalf`, `DestroyReturns` | 5 entries, 2 keys of which one replies, 2 threads that register and destroy, 1 walker: all patterns of neighbours, an entry before, at and after an iterator, and going round past `end()`. |
| `PidFileStarts` | `TypeOK`, `OneDaemon`, `FileNamesDaemon`, `NoStaleFile` | 3 instances, 4 pids, foreign processes; instances restart without bound. |
| `HttpAnswers` | `TypeOK`, `StrangersComeLater`, `AcksMatchWaiters`, `ImplementsService` | 2 addresses, 3 clients, 3 requests, 2 workers (the number in the code), 1 place in the socket: addresses are reused, the socket is full, workers exchange acknowledgements. |
| `HttpProgress` | `EveryRequestIsServed`, `KillEndsPollThread` | 1 connection with 4 requests on it, 1 place, 2 workers: one request more than the load the property allows, so the bound is tight. |
| `ConfigStart` | `Bot`: `RunningIsConfigured`, `BoundAsConfigured`, `UnloadTakesItsJobs`, `AskedOnlyIfSigned`, `AskedOnlyIfWhole`, `RepliesReadBack`, `CrashesAreExplained` | Every text with an item or a section left out, both modes; pairs of libraries that cannot be opened, lack a symbol, share a name or a file; 2 calls that unload or reload; 1 request (`MaxHandled`; each request starts from the same state), which is a good one or differs from a good one in one place. `Radix` is 64 instead of 256, the least power of two beyond the block size of 32; replies lack, fill and exceed a block by a byte; `Scrambled` has a frame with a length that wraps. |
| `SdkCalls` | `SdkTypeOK`, `RunsWhenMeant`, `StackFollowsSections`, `GeneratedReadsBack`, `KeyEditsAreLocal`, `NewSectionIsFound`, `NoProxyIsBorrowed`, `UsersItemsSurvive`, `ZeroMeansAccepted`, `JsonIsWellFormed`, `PointerOutlivesNoGrowth` | Schedules: the ends of every range and `EVERY`, all reachable masks. Codec: every text of up to 4 of 9 kinds of line, which has two sections open, or one open and closed around a pair and its comment; 2 edits (`MaxEdits`) of two longer texts, with paths that end in a backslash, tags that hold one, and keys and tags that a text cannot hold. Requests: 3 (`MaxCalls`) on 2 threads, so that two overlap and a third comes after them. Messages: 5 calls (`MaxBuilds`) on 2 objects, limits of 1 byte and 3 articles instead of 2048 and 8, so that both are met and the vector grows twice; 4 articles, with and without a description and with and without a picture. |

Runs in which the code does not do what its documentation says:

| Run | Statement | What the run shows |
|---|---|---|
| `CronTwoSignals` | `DaemonUtil.cpp:27` "Signal %d received, terminating..." | The handler locks a mutex that its own thread may hold. With two SIGTERMs the second may run on the cron thread inside its loop, which then never ends. |
| `CronScheduleSunday` | `CronConfig.hpp:16` "Range: 1 ~ 7" | Sunday is tested as 0; a job set for 7 never runs. |
| `RegistryDestroysAll` | `BotEngine.hpp:32` "销毁全部对应Runnable的任务" | The loop skips the entry after each erased one. |
| `PidFileSameBot` | `main.cpp:30` "Same bot is running?", `main.cpp:49` | Two starts that overlap both run. |

`CHECK_DEADLOCK FALSE` appears where the system really stops: in `HttpThread`
after a kill, or when the load exceeds the bounds below; in `Bot` after an exit
or a crash of the process; in `Sdk` when the bounded calls are used up or a
call has aborted the process.

**Conditions in the properties.** Some properties hold only under a condition
the code does not enforce; it is written into the property, through a history
variable where there is need, and is exact in the sense that the property
fails without it. `NoDoubleFire` needs that no other thread's `localtime` hits
a pass in progress (`clobbered`) and the clock is not set back.
`EveryDueJobRuns` needs a thread that is scheduled promptly (`Prompt`): one
that oversleeps a minute skips the jobs of that minute. `OneDaemon`,
`FileNamesDaemon` and `NoStaleFile` need starts that do not overlap, the last
one also that no daemon crashed. `EveryRequestIsServed` needs at most
Capacity + |Worker| requests in flight: with one more, the poll thread blocks
in its write to the full socket pair while every worker waits for the poll
thread's acknowledgement. `KillEndsPollThread` needs at most Capacity: workers
that have seen `IsKilled` read no more. The capacity is that of a stream
socket, so the load is large. `StrangersComeLater` is what remains of "a
response goes to the client that asked": it may go to a later client at the
same address. `NoProxyIsBorrowed` needs calls that do not overlap
(`overlapped`), and allows one exception (`PutBack`): a `no_proxy` that was set
and empty is unset by the first call without a proxy (`BotEngine.cpp:86`), as
its copy is that of a variable that was not set. `UsersItemsSurvive` is what remains if they do: items may be
left over in `no_proxy`, none that the user set is lost. `ZeroMeansAccepted`
says nothing of a request that failed, whose result is what memory held.
Of an unloaded library `UnloadTakesItsJobs` says only that no job is left if it
had at most one: of two in a row one stays. `CrashesAreExplained` lists what kills the process: a signed message
without `From` or with an element without text, or a reply maker whose library
was unloaded. `StackFollowsSections` and `RunningIsConfigured` allow `"wild"`:
a pair, or `</>`, outside every section pops an empty list.
`NewSectionIsFound` needs a path that ends in no backslash and a tag without
one (`Addresses`): otherwise `InsertSection` succeeds, and the same path and
tag do not find what it has added. `GeneratedReadsBack` asks
that what is written is `Writable`: the editing calls take any key, raw line
and tag without a test, and a `=` in a key, a `#` or `<` in front of one, or a
`/` in front of a tag makes its line one of another kind when it is read
(`MCKeys` has one of each). `PointerOutlivesNoGrowth` says exactly how long an `Article *` lives.

## Fairness

`CronThread`: every thread that can take a step takes one (weak fairness), a
thread that waits for the mutex gets it if it is free again and again (strong
fairness, which the mutex of the C library provides in practice), a pending
signal is delivered. Nothing is assumed of the clock, of signals being sent or
of logging. `JobRegistry`: a thread inside Destroy keeps running.
`HttpThread`: the poll thread attends to a ready control socket in every round
and tests `IsKilled` after it, which gives strong fairness of `HandleCtl` and
`MgrFree`; workers run, and get the mutex and the socket if they are available
again and again. Nothing is assumed of clients, of a kill, or of workers after
the manager was freed. The specifications of `Bot` and `Sdk` state
safety only and assume nothing.

## Proofs

`tlapm` checks every theorem to its leaves; the only assumptions are the named
`ASSUME`s on constants, which say what kind of value each is, and which TLC
evaluates in the runs.

* **`CronThread_proofs`**, for every list of jobs, calendar, number of minutes,
  signals and clock steps. `TypeCorrect`: the type invariant is inductive only
  together with "while `DoLoop` runs the buffer names a minute of the run",
  which bounds the increment. `NoKillIsLost` and `CronEndsForAKill` share
  `KillInv`: who holds the mutex in each place (`MutexInv`), that the flag is
  not set in the part of the loop that holds it (`NotKilledInLoop`), that a
  handler about to notify has set the flag (`NotifyInv`), and why the thread
  left (`LeaveInv`). `NoJobStartsTwice` follows from `PassInv`, which relates
  the tasks started to the minute of the pass and to the wake-up time.
  `EveryJobIsStarted` adds `ScheduleInv`: before each pass everything due
  earlier was started, and the clock has moved at most one minute.
* **`JobRegistry_proofs`**, for any number of keys, entries, threads. Lemma
  `NextInLeast` (the successor is the least later entry, by well-foundedness)
  carries everything. `IsolatedAreDestroyed` follows from `DestroyInv`: until
  the loop is at the end, every isolated entry with the key is still ahead of
  the iterator. `HalfIsDestroyed` follows from `HalfInv`: the matching entries
  that the iterator has passed by are never more than those it has erased.
  `WalksAreComplete` and `OneMakerReplies` follow from `WalkInv`: every entry
  behind the iterator was seen, was not there at the start, or is gone.
* **`PidFile_proofs`**, for any instances and pids: `AtMostOneDaemon`,
  `FileIsTheDaemons`, `CleanStopsLeaveNoFile`. They need `ProcInv` (the pids of
  children are distinct and in use) and an invariant on non-overlapping starts:
  who is starting, and what the file holds at each point.
* **`HttpThread_proofs`**, for any addresses, clients, workers, requests and
  capacity. `AcksAlwaysMatchWaiters` counts: results and acknowledgement bytes
  on the control socket are as many as the workers that wait.
  `StrangersAlwaysComeLater` follows from `ClientInv`: every request under way
  names a session of its address that is not newer than the one there now.
  `HttpImplementsService` follows from `ServiceInv`, that requests under way
  are numbered (`Numbered`) and each is in one place (`InOnePlace`): then a
  step of the code is a step of `HttpService` or a stutter.
* **`MsgCrypt_proofs`**, about every text where TLC sees a few.
  `CipherRoundTrip` (padding, by arithmetic modulo 32), `Base64RoundTrip`,
  `SealedTextOpens` (one after the other), `FrameOpens` (what `htonl` wrote,
  `ntohl` reads, and the message is found at its place in the frame), and with
  the signature `ReplyOpens`: what `EncryptMsg` makes of a reply, `DecryptMsg`
  takes, and takes for that reply and for nothing else. `FrameOpens` asks that
  the sum of the sizes does not wrap at 32 bits (`Countable`), `ReplyOpens`
  also that base64 can hold the frame (`Encodable`): a reply of up to 749999979
  bytes, with the `Radix` of the code, 256.
* **`ConfigCodec_proofs`**, for any file, keys, values and comments.
  `CodecTypeCorrect` and `StackAlwaysFollows` follow from `CodecInv`: the lists
  of nodes are a tree (`IsTree`: a parent was created before its child), and
  the stack is nothing but the nodes of the calls that run and the last pair of
  each (`Follows`), so that a `pop_back` that takes another entry would be
  seen. `KeyEditsStayLocal` needs no more than that paths lead to the same
  sections as before (`SamePointers`) and what `GetKV` finds after one pair is
  appended, overwritten or erased (`AppendLeaves`, `OverwriteLeaves`,
  `EraseLeaves`). `NewSectionsAreFound` is `SplitBelow`, that a tag behind a
  path and a backslash is one more part for `SplitString`, and `AddedIsFound`,
  that the search then takes the same sections as before and ends at the new
  one.
  `GeneratedAlwaysReadsBack` is about any tree, of any depth, that any text and
  any calls have made. A reader is defined apart from the parser
  (`ReadsLine`, `ReadsText`): it keeps the view of each section that is open
  and takes a line at a time. `TextReads` says that the text of a tree leads
  the reader from nothing to the view of that tree; it goes from the last node
  to the first, as the text of a section is made of those of its children
  (`SectionReads`, `WrittenReads`). It needs that the tree is
  `Tidy` (comments are marked as such, raw lines end in `=`, levels count the
  sections), which every step keeps, and `Writable`. The parser does what the
  reader does: `Seen` is the view of each open section in the tree it has built
  so far, and each kind of line changes both alike (`CommentAdvances`,
  `PairAdvances`, `BeginAdvances`, `EndAdvances`). The invariant,
  `ReadBackInv`, is `CodecInv`, `Tidy`, that the running calls go down from
  the root (`Nested`), and `StillReads`: what is left of the text leads
  the reader from what was seen to the view of the tree that was written. It
  is strong enough because a line leaves the reader no choice, and at the end
  of the text it is the property.
* **`Bot_proofs`**, for any text, libraries, requests, reply makers and results
  of a wrong key. `RunningWasConfigured` follows from `StartInv`, what `main`
  has found in the tree at each place. `LibrariesAreBound` follows from
  `BoundInv`, a loop invariant of the loop over `root\libs`: what is loaded is
  what the lines read so far call for, in their order. `OnlySignedAreServed`
  follows from `ServeInv`: before the server runs nothing was served, and after
  that whatever is asked or sent back passed `ValidateSignature` with the same
  token, since the tree does not change any more. `OnlyWholeAreAsked` is about
  the constructors of `CallbackMessage` (`ExtractedIsWhole`).
  `RepliesAreReadBack` is `ReplyOpens` in every state of the daemon, for
  replies within the two limits. `UnloadsTakeTheirJobs` follows from `LibInv`
  (every library has an id of its own, every registration is of a library that
  was loaded, and one with at most one job has it at most once, or not at all
  after an unload) and `DestroyLeaves`, which says what the skipping loop
  leaves of a list of any length. `CrashesHaveCauses` uses another part of
  `LibInv`: a library is closed only by an unload of one of its names.
* **`Sdk_proofs`**, for any calls, texts and answers.
  `PointersOutliveNoGrowth` follows from `WeworkInv`: how often the vector has
  moved is a function of how many articles it holds (`Capacity`, `Moves`), and
  a pointer remembers that of the article it was given for.
  `JsonAlwaysWellFormed` is proved from contracts: read inside an object,
  `Members` leave the reader where it was, read inside an array, `Elements` do;
  each part of `GetJson` is one of the two, and so are parts written one after
  another (`AllRead`, `EachRead`), for any number of articles, buttons and
  mentions. `UsersItemsAlwaysSurvive` follows from `ItemsInv` (the variable and
  every copy of it begin with the user's items), `NoProxyIsAlwaysBorrowed` from
  `BorrowInv` (without overlap at most one caller is between save and restore,
  and its copy is `PutBack`: the original, or unset for one that was empty),
  `ZeroAlwaysMeansAccepted` from `AnswerInv`,
  `JobsRunWhenMeant` from `MaskInv` (each mask agrees with the meant schedule
  on the documented range). Each is a theorem of the specification of one
  class; `PartsAreRun` says that a library that uses any of the four runs each
  of them as specified, and `SdkTypeCorrect` and `SdkCallsAreCorrect` take the
  theorems over to the whole, which is what the run checks.

**How data of any size is treated.** The induction theorems of the library take
an operator, which the provers here cannot instantiate. Most loops over data
need no induction: an invariant of the steps does it (`DoLoop`, Destroy, the
loop over the libraries, the parser). Where the code is one definition, a
recursive function inside it, the proofs use the least element of a set of
numbers, which exists by well-foundedness (`MinIsLeast`): what holds at 0 and
of n + 1 whenever of n, holds of all (`Climb`, as a fact about a set of
numbers); and a function with one value for each step exists and is unique
(`Iteration`). From these come what Destroy leaves (`LoopIs`), what `FlattenSeq`
returns (`FlattenIs`), that a path leads to one section (`PointerIs`), and what
reading a list of calls yields (`TraceIs`).

**What the proofs assume.** That `Symbols`, the words a configuration is made
of, include those `main` looks for (`StartupAssumption`), and what the codec,
the encryption and the registries are given has its kind. `MAX_ARTICLE_COUNT`
is at most 8, its value in `WeworkMessage.hpp`. Beside these, only
`RepliesAreReadBack` has a hypothesis, its two limits.

Only model-checked: the liveness properties `SignalTerminates`,
`DestroyReturns`, `EveryRequestIsServed` and `KillEndsPollThread`, which are
out of the prover's reach. TLC does not evaluate `StillReads`, which has a
quantifier without a bound; that it is inductive is known from the proof alone.

## Not modelled

* Layout and wording: log lines, the text of responses, the indentation
  `Generate` writes (its table `SpaceTable` has 11 entries, deeper sections
  read past its end; the daemon never calls `Generate`).
* How `GetHostInUrl` cuts a URL, and which XML `GetXml` builds: what matters to
  the callers, a host, and a text or none, is in the models.
* Memory beyond use after free: the response body leaks when its connection is
  gone. Failure of `malloc` and of `std::thread`.
* Undefined arguments: `ClearMinute(EVERY)` shifts by -1, and so do Set and
  IsSet of values outside the word.
* Locks inside the C library that a signal handler may meet.
* AES, SHA1, curl, mongoose, tinyxml2 and rapidjson, except as what the code
  uses of them.
* `main` joining the cron thread and the HTTP server as one system: the end of
  each after a signal is in `CronOnTime` and `HttpProgress`, and `main` does
  nothing but join them in turn.
* The sample library: one job and one reply maker, of which `Libraries`,
  `JobRegistry` and `Callback` have any number.

## How the modules build on each other

1. `CronConfig`, `CronThread`, `CronSchedule`: checked and proved.
2. `JobRegistry`: checked and proved.
3. `PidFile`: checked and proved.
4. `HttpService`, `HttpThread`: checked; safety and the refinement proved.
5. `ConfigCodec`, `Libraries`, `Startup`, then `MsgCrypt`, `Callback`, and
   `Bot`, which composes them: checked and proved.
6. `HttpClient`, `WeworkMessage`, and `Sdk`, which puts them beside the codec
   and the schedule: checked and proved.

What would come next: an abstract registry that the list implements where no
two neighbours share a key.
