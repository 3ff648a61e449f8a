# TLA+ models of the GDS C++ client

This directory specifies `gds-cpp-messages`: the client library (`src/src`), a
WebSocket session that speaks MessagePack with a GDS, and the console client
(`src/console_client`) that is built on it. The modules are translated from the
source; TLC checks them on small instances, TLAPS proves the main safety results
for all values of the constants.

```
tlc -config GdsClient_any.cfg MCGdsClient.tla      # one run; PROJECT.json lists them
tlapm GdsClientProofs.tla                          # all proofs of a module
```

`PROJECT.json` lists components, runs, mutants, hazards and theorems, and maps every
definition to the source lines it stands for.

## 1. The system

| component | source | state | operations |
|---|---|---|---|
| session | `gds_clients.hpp` `BaseGDSClient` | `m_state` (atomic), `mConnection` (plain `shared_ptr`), `mCountdownlatch`, two key files | `start`, `send`, `close`, destructor; handlers `m_on_open`, `m_on_message`, `m_on_close`, `m_on_error`; `login` |
| connection interface | `gds_connection.hpp` | `connection::State`, the listener | callbacks, `state_error` |
| latch | `countdownlatch.hpp` | a count | `countdown`, `await` |
| semaphore | `semaphore.hpp` | `mCounter`, a mutex and a condition variable | `post`, `wait`, `wait_for`, `set_limit` |
| messages | `gds_types.{hpp,cpp}` | header and thirteen bodies | `pack`, `unpack`, `validate`, `to_string` |
| console client | `console_client.{hpp,cpp}`, `main.cpp` | two binary semaphores, `login_success`, `contextDescriptor`, the client | `run`, `close`, `send_*`, the listener callbacks |
| arguments | `arg_parse.hpp`, `main.cpp` | `m_values`, `ok` | `parse` (over `getopt_long_only`), `has_arg`, `main` |
| file names | `console_client.cpp` | none | the split of a list, `to_hex` |
| builder | `gds_connection.cpp` | the TLS strings | `with_tls`, `build` |
| certificates, uuid | `gds_certs.hpp`, `gds_uuid.hpp` | none over time | PKCS12, random numbers |

How they interact:

- `start()` spawns a **detached** thread, which runs the io loop of the WebSocket
  library and every handler, one at a time, and calls the listener from them.
  Application threads use the same object through `start`, `send` and `close`.
  `m_state` is the only member that is synchronised.
- `send`, `login` and `m_on_message` are where the session meets the messages.
- The console client's main thread waits on semaphores the callbacks post; pages of
  a result are asked for from inside a callback.
- The command line decides which command `run` sends, over which kind of connection,
  with which attachments, and how long it waits for the answer.

What is hard here, and to which property it leads (the full list, line by line, is
`hazards` in `PROJECT.json`):

- **session**: `close` on one thread between two compare-and-swaps of the other
  (`NoStateError`); test, dereference and reset of `mConnection` without a lock
  (`NoNullDeref`, `LoggedInHasConnection`); a late login reply (`FinalStateStable`); four
  places that report the end of a session (`OneVerdict`, `SuccessFirst`, and all of it
  together in `ImplementsSession`); a timeout that runs only when the io loop is over
  (`AwaitFindsDisconnected`, `StartReported`); key files that outlive the session
  (`KeyFilesRemoved`).
- **semaphore**: counter and limit are loaded one after the other and before the mutex is
  taken (`OvershootBounded`, `ImplementsBounded`), and the limit may be lowered between any
  two of these steps (`LoweredLimitHolds`); `notify_all` after the unlock, spurious
  wake-ups, waits that run out as the permit arrives (`NoLostWakeup`, `Conservation`,
  `SleeperServed`).
- **messages**: optional members move the positions of the others (`RoundTrip`);
  `validate` on both sides (`SentIsReadable`); a context that must survive unpack,
  copy and pack (`ContextReturned`).
- **console client**: a `workDone` that comes too early (`DoneMeansComplete`,
  `NoCallbackDies`), pages and logins that race with the timeouts (`DiesOfTimeout`),
  a context that each page overwrites (`PagesInOrder`), a GDS that is silent or goes
  away (`MainEnds`), one that is not (`CommandServed`).
- **arguments**: commands that exclude each other (`CommandKept`,
  `RefusedForAReason`), options that are repeated (`LastWins`), a certificate without
  its secret (`SecureAsGiven`), a timeout that goes through four integer types
  (`TimeoutKept`).
- **file names**: empty names and a trailing delimiter (`NamesKept`), bytes that are
  printed with one digit or with eight (`AttachmentsKept`).

## 2. Modules

| module | what it is |
|---|---|
| `GdsSession` | what a client promises: one login, what its listener hears, what `send` lets through |
| `GdsClient` | the session: application threads and the WebSocket thread |
| `BoundedSemaphore` | what a semaphore promises: atomic post and take |
| `Semaphore` | `post`, `wait`, `wait_for`, `set_limit` step by step |
| `Recursion` | values defined round by round, with the induction the proofs about them need |
| `GdsStructures` | the structures of `gds_types.hpp`, as the sets of their values |
| `GdsTypes` | pack, unpack and validate of header and bodies, as operators |
| `GdsCodec` | a message composed, packed, unpacked, and the next page asked for |
| `ConsoleClient` | main thread, callbacks and a GDS that answers, over a `GdsSession` |
| `FileNames` | a list of names split, a name turned into an id |
| `CommandLine` | `parse`, the choices of `main` and `run` up to the first request |
| `*Proofs` | inductive invariants and theorems, see 4 |
| `MC*` | model values, message sets, command lines and symmetry for TLC |

How they fit together: `GdsClient` implements `GdsSession`, and `ConsoleClient` is
composed with `GdsSession` in place of the client; it counts the permits of its
semaphores as `BoundedSemaphore` allows, which `Semaphore` implements. `CommandLine`
ends with the request that `ConsoleClient` begins with (`command`).

Loops over data (`to_hex`, the split of a list, the sub-results of a reply, arrays in
arrays) are recursive functions: `Recursion` takes the value before the first round
and what a round makes of it, and is instantiated once for each loop.

### GdsClient

`pc[t]` says where each thread is; `ret[t]` where it goes on after a `close` or a
`send`, which are the same code on either side. Every access to a shared member is
an action: `close` is `CloseLoad`, `CloseStore`, `CloseTest`, `CloseFrame`,
`CloseReset`; `m_on_open` is two compare-and-swaps with the assignment of
`mConnection` between them; a login reply counts the latch down and checks the
state in one step (`ReplyReceived`) and acts on it in the next. A
compare-and-swap that fails, a null pointer that is dereferenced, a `send` that throws
in a callback, and a thread that runs on in a destroyed client end the process: `fault`
says which it was. Calls that throw to their caller and change nothing (`start` or
`send` in a wrong state) have no action.

Constants describe the application: `EarlyClose` (it may close before any outcome was
reported), `Destroys`, `CallbackOps` (what the listener does from a callback), and the
network: `LinkErrors`. `sent`, `calls` and `gds` are what an observer on the wire, the
listener and the GDS see. `Secure` is whether the two PEM files were written; their
life ends in `RemoveKeyFiles`.

External, modelled as the code uses it: the io loop runs one handler at a time and
ends when the link is down; the library answers a close frame; a GDS answers a login
at most once and sends data only to a client it has accepted.

### GdsSession

Four variables: how the GDS answered the login, whether `send` lets a message through
(`logged_in`: not yet, yes, no more), how often each callback was invoked, and how many
application frames went out. Its guards are the promises: success once and before all
else, messages only between success and the end, one end (two for a declined login,
whose connection closes as well), `send` open from just before success until the first
close by either side and never again, no frame without an accepted login. `GdsClient`
implements it with `logged_in` read off `m_state` and the place of the WebSocket
thread (`ImplementsSession`): that it is three-valued is what tells a client that has
not logged in from one that never will again.

### Semaphore

`post` is `PostLoads` and `PostCompares` (outside the mutex), `PostIncrements` (under it),
`PostNotifies` (after it). The comparison `mCounter.load() < mLimit` is two loads of two
atomics, in an order the language leaves open: the first is kept in `loaded[p]`, and others
post, take and set the limit before the second. A waiter that finds no permit is asleep
until a notification, a spurious wake-up (`Spurious`) or its timeout (`TimesOut`); what runs
under the mutex is one step. `set_limit` (of `DynamicSemaphore`) may change the limit at any
time; with `Limits = {}` it is the fixed one. `posted` and `taken` count permits,
`inherited` is how many there were when the limit was last set; they are history, the code
has no such counters. `BoundedSemaphore` has the permits and those taken. The code
overshoots its limit by one permit for every poster that passed the comparison together with
another: the semaphore is an atomic one whose limit is that much higher (`Ceiling`), and
with one poster it is the limit itself. For a limit that changes, `LoweredLimitHolds` says
the same with the permits `set_limit` found in place of the limit, where they were more.
`mCounter` is a natural number: 2^32 permits are not reached.

### GdsTypes and GdsCodec

A structure is a record with the members' names, an optional a sequence of at most one
element, a MessagePack object a tuple tagged with its type. Strings, numbers and byte
arrays are opaque. An array whose announced length differs from what follows is `Garbled`.
`GdsStructures` has each structure as a set of records, so that "has these members, of
these types" is membership; `TypeOK` says it of every message, unpacked message and
context. A field value may be an array of field values, as deep as `Depth`; `Names` and
`Indexes` are the keys a map may have. The tag of a number agrees with its sign, as
MessagePack writes it.

`RoundTrip` compares whole messages, member by member, with `Kept`: the message as
composed, without what the code is known to lose. `Kept` names every loss, one operator
each: the part of a login reply that its status does not announce, sub-results without field
values, the `returnings` of documents, the `field_values` of a context, the total of a
page without hits. Each of them is in 5; nothing else may be lost.

`Memory` is what an uninitialised `int64_t` may hold (`totalNumberOfHits` of a page
without hits is never read).

A GDS packs event replies as `unpack` expects them (`GdsEventReply`), an external
definition; with `GdsIsOurs = TRUE` they are packed by this library instead, see 5.

### ConsoleClient

`main` is the main thread from the constructor to the end of `main()`. The two
semaphores are counters: one thread posts them, and `Semaphore` shows that such a
semaphore is atomic. The session is `GdsSession`: every step of the WebSocket thread that
the listener or `send` can see is one of its actions. `asked` is what went out, in
order; the GDS answers it in order and a message is `handling` from its arrival to the
end of its callback. Everything that ends the process is in `fault`: a `send` that throws in a
callback, a state change that fails because `close` overtook the login (`EarlyClose`), a
client destroyed under its thread, a message whose callback is not overridden.

`Impatient` lets the timeouts run out at any time; without it they run out only when
nothing can come any more. `Breaks` lets the link break or the GDS close it, `Unasked`
lets the GDS send a type the listener does not override.

### FileNames and CommandLine

A command line is a sequence of words; an option is named without its dash. `parse()`
is one action per round of its loop, `main()` and `run()` one per choice.
`seen` is history: the options as they were given. The properties speak of `seen`, the code of
`m_values`. `long_options` has no terminating entry, so a word that is the name of no
option is looked up past its end: it may be refused, taken for the option it
begins, or end the process (`Overrun`).

The timeout is a text that `stoul` reads (a minus sign included) as `unsigned long`,
multiplied by 1000 modulo 2^64 and read as a signed count by `wait_for`; `Modulus`
stands for 2^64. `FileNames` works on bytes: a byte above 127 is a negative `char`, which
the hexadecimal output extends to 32 bits, and one below 16 has a single digit.

Left out: the form `-name=value`, which `getopt_long_only` takes as well; how
`wait_for` adds the duration to the clock, which may overflow for a huge one.

## 3. What the runs show

| run | instance | properties | states |
|---|---|---|---|
| `client_any` | 2 users, early close, destructor, link errors, callbacks that send and close | `TypeOK`, `NoUnauthenticatedTraffic`, `AwaitFindsDisconnected`, `OneVerdict`, `SuccessFirst`, `ImplementsSession` | 41 thousand (symmetry) |
| `client_patient` | 2 users that close after an outcome, the rest as above | `NoStateError`, `FinalStateStable`, `StartReported`, `KeyFilesRemoved` | 50 thousand |
| `client_single` | 1 user that closes after an outcome, no link errors | `NoNullDeref`, `LoggedInHasConnection` | 3.3 thousand |
| `semaphore` | 3 posters, 2 waiters, limits 1 and 2 | `TypeOK`, `OvershootBounded`, `Conservation`, `NoLostWakeup`, `LoweredLimitHolds`, `ImplementsBounded`, `SleeperServed` | 370 thousand |
| `codec_kept` | messages of every type, absent and present optionals | `TypeOK`, `RoundTrip`, `SentIsReadable`, `ContextReturned` | 2.3 thousand |
| `console_any` | all commands, 3 pages, any timeout, any break, any message | `TypeOK`, `DoneMeansComplete`, `PagesInOrder`, `DiesOfTimeout`, `MainEnds` | 1.5 thousand |
| `console_served` | all commands, patient, no break | `NoCallbackDies`, `CommandServed` | 389 |
| `command_line` | command lines of up to four parts, timeouts, certificates, lists | `TypeOK`, `CommandKept`, `RefusedForAReason`, `LastWins`, `SecureAsGiven`, `TimeoutKept`, `NamesKept`, `AttachmentsKept` | 38 thousand |
| `early_close`, `silent_gds`, `sub_results`, `field_values` | see 5 | one each, violated | |

Bounds, and why they are enough:

- `Users`: two application threads beside the WebSocket thread interleave every pair
  of calls; they are interchangeable, hence the symmetry. `MaxSends`, `MaxData` (1 to
  3): a frame more repeats a step that changes nothing but its counter. Each session
  is started once: no state leads back to `NOT_CONNECTED`.
- `MaxPosts`: no call of `post` begins after three permits; those under way may add more.
  With the limits 1 and 2, three posters reach every overshoot and find sleepers, full
  counters, loads that are stale, a limit that is lowered with posts under way, and late
  notifications.
- The message sets hold every optional member present and absent, every list empty and
  not, and with `Depth = 2` an array within an array. Two `Names` and two `Indexes` make a
  key that is there and one that is not. `Memory` has the value that would hide the read of an
  uninitialised total, and one that does not.
- `LastPage = 3`: a first, a middle and a last page.
- `Lines`: up to three options of every kind in any order, with and without a value,
  abbreviated, unknown and `--`; three settings with one command after them; timeouts
  on both sides of each value where a type changes; lists of up to four bytes of every
  width that `to_hex` prints, and the delimiter. `Modulus = 8192` is small enough to
  reach every wrap of the product with 1000, and not a divisor of it.

A run whose cfg has `CHECK_DEADLOCK FALSE` models something that really stops: a
session ends, users may be idle for ever, posts are bounded.

Fairness, where liveness is claimed:

- `ThreadFairness` (`GdsClient`): a thread goes on with what it began. There is no lock in
  it that another thread could hold, and every wait in it is the timed `await`. No call of
  the application is fair: nobody has to send or close.
- `PeerFairness`: an attempt to open ends in `m_on_open` or `m_on_error` (a connect is
  refused, succeeds or times out in the operating system), an open login is answered
  or dropped, a close frame is answered. The second is an assumption on the GDS;
  `silent_gds` is the same run without it.
- `FairSpec` (`Semaphore`): a poster that began goes on, a thread that was woken gets the
  mutex. Weak fairness is enough, nobody holds the mutex across a step.
- `MainSpec` (`ConsoleClient`): the main thread runs, nothing else; its waits are timed.
  `LiveSpec` adds that the callbacks run and the GDS answers.

## 4. What is proved

All by TLAPS, for any number of threads, pages and command lines, any limit, any bounds,
texts and lists of any length and field values of any depth. Every invariant and action
property that a run checks and expects to hold is the subject of a theorem. The proofs start
from the named assumptions of the modules only: `WsAssumption`, `FlagAssumption`,
`BoundAssumption` of the client; `LimitAssumption`, `ThreadAssumption` of the semaphore;
`CommandsAssumption`, `PageAssumption` and `FlagAssumption` of the console client;
`WordsAssumption`, `LinesAssumption`, `ModulusAssumption` of the command line;
`DepthAssumption`, `GdsIsOursAssumption`, `MessagesAssumption`, `MemoryAssumption`,
`HeaderAssumption` of the messages. A theorem that needs more of its constants says so
(`~EarlyClose /\ Spec => ...`).

`Recursion` has no data types to do induction over and needs none: `NatSetInduction` says that
a set with 0 and every successor has all naturals, from well-foundedness, and the proofs
take the set of the rounds of which something is known. `Recursive` shows that a
value defined round by round exists and satisfies its equations, whatever the rounds do.

`GdsClientProofs`:

- `Typing`: `TypeOK` is inductive.
- `SessionSafe`: `SessionInv` is. `NoUnauthenticatedTraffic` alone is not inductive,
  since the guard of `send` looks at `m_state` and not at the GDS: the invariant adds that
  `LOGGED_IN` and any frame about to leave imply an accepted login.
  `AwaitFindsDisconnected` is not inductive either: that the latch is still up when the
  link is down has to be tied to `m_on_close`, the one way to lose the link without
  counting down. `LoginGuards` and `TimeoutUnreachable` follow.
- `Patient`: with `~EarlyClose`, `PatientInv` is inductive. It says, for each place of
  the WebSocket thread until the session is `Settled`, what `m_state` is, and that
  until an outcome is reported no application thread is inside `close`: so nobody else
  writes `m_state`. `PatientNoStateError` and `PatientFinal` follow; the second is an
  action property.

`GdsSessionProofs`: `VerdictInv` accounts for the callbacks. While the process lives, the
number of ends the listener has heard is one for a link that is down plus one for a
declined login, less the one the WebSocket thread is on its way to report; the number of
successes likewise. Each handler alone looks innocent, the sum is what makes
`ReportedOnce` and `Order` true. With it, `Refinement` maps every step of the client to
a step of `GdsSession` or a stutter (`StepMaps`), whatever threads, listener and
network do.

`GdsClientProofs` ends with `SingleInv`: with `SingleUse` (one application thread that waits
for an outcome, a listener that calls nothing, a link that does not break), whoever is
between the test and the use of `mConnection` is alone with it: `SingleNoNull`,
`SingleConnected`.

`SemaphoreProofs`: `Typing`, `PermitsConserved` and `WakeupsKept` are inductive as they
stand. `Overshoot` is not: `PendingBounded` counts with the permits the posters that are
about to lock and those that have loaded a counter below the limit, since each of them may
still add one; whoever loads the counter last finds it below the limit (`BoundKept` says
what a step may do to such a sum, `OtherSteps` which steps cannot disturb it).
`LoweredLimit` has the same form over the limit in force, with the posters that have loaded
an older, higher one (`MayAddBounded`). `Refinement` shows for any finite set of posters
that every step is a step of `BoundedSemaphore` with the higher limit, or a stutter.

`ConsoleClientProofs`: `ConsoleInv` ties the requests to the answers. At most one request
is open, and none while a reply is in its callback; the n-th request for a page carries the
context of page n; the pages received are those asked for up to the one being handled; a
permit of `workDone` means that the work is done. `DoneIsDone` and `PagesOrdered`
follow, for any number of pages, any timeout and any link.

In the same module, `WaitingInv` says that while an answer is owed or handled, either main
waits in `working` and the session lets messages through (or the link has broken), or it
has been reported as over, or `run` has given up waiting. So whatever timeouts and link are,
main closes the session under a callback only after a timeout (`TimeoutsOnly`), and a
user who waits long enough over a link that lasts (`Patient`) never meets that
(`NoneDies`).

`CommandLineProofs`: `ParseInv` relates `m_values` to what was seen: the last of each
setting, and, as long as `parse` has not refused, the one command seen. `OneCommand`,
`Refusals`, `LastGiven` and `Secured` follow for any set of values and command lines.
`OutcomeInv` adds what is left behind: the timeout is the product of the seconds and 1000,
modulo `Modulus`; the ids are those of the list that was given. With it:

- `WaitsAsAsked`: `TimeoutKept` for any modulus, whichever way the product wraps (the one fact
  of arithmetic it needs, that a remainder never exceeds what is divided, is a lemma);
- `AllNamesRead`: `NamesKept`, since the names of a list are exactly its pieces between
  delimiters, and written down again they are the list, with no empty name behind a
  delimiter at its end (`SplitKeeps` of `FileNamesProofs`, by induction on the bytes read);
- `AttachmentsApart`: `AttachmentsKept`, since `to_hex` is injective on names without
  control characters (`HexIsDistinct`). A byte is two digits below 128 and eight from there
  on; read from its end, a text of digits falls apart into bytes in one way only,
  so the induction takes bytes off the end.

`GdsCodecProofs` goes up the way the messages are built: a field value with arrays of any depth
(`ValueBack`, by induction on the depth), lists, each structure, each of the
thirteen bodies (`BodyBack`), the fragment fields, a message (`MessageBack`): what
`unpack` makes of what `pack` wrote is what `Kept` leaves of it. `IInv` ties that to the
actions: what is on its way is one of `Messages`, or asks for what follows the page of
one of them, with the context as it was kept; its bytes are those `pack` wrote; what has
arrived is kept of it. `RoundTrip` is not inductive without the middle part: that the bytes
belong to the message, and that the message is typed and valid, is what `MessageBack` needs.

- `Types`: `TypeOK`; `ReadAsSent`: `RoundTrip`, both whoever packs the event replies;
- `SentIsRead`: `SentIsReadable`, if event replies are packed by a GDS (`~GdsIsOurs`): those this
  library packs are thrown away, see 5;
- `ContextComesBack`: `ContextReturned`, if the contexts of the pages have no field values: those
  that have are the finding `field_values`.

Model-checked only: everything temporal under fairness (`StartReported`,
`KeyFilesRemoved`, `SleeperServed`, `MainEnds`, `CommandServed`): liveness is out of the
prover's reach.

## 5. Where the code disagrees with what is said about it

Shown by a run each (`findings` in `PROJECT.json`):

- `early_close`: a `close` before the login is through makes a compare-and-swap of the
  WebSocket thread throw; nothing catches it.
- `silent_gds`: the login timeout does not start while the connection is open, so a
  login that is never answered is never reported.
- `sub_results`: `EventReplyBody::unpack` drops sub-results without field values.
- `field_values`: `QueryContextDescriptor::unpack` clears the objects it is about to read,
  so the next page is asked for without them.

The same models show, with other constants:

- `EarlyClose = TRUE`: a login accepted after `close` sets `LOGGED_IN` with no
  connection behind it (`LoggedInHasConnection` fails).
- `LinkErrors = TRUE` with one user: `close` by the application and by `m_on_error`
  race for `mConnection` (`NoNullDeref` fails).
- `Destroys = TRUE`: the detached thread runs on in a freed client (`fault = "freed"`).
- two posters: the counter goes above the limit, by one for each poster beyond the first
  and never by more; no semaphore of the console client has two at a time.
- `GdsIsOurs = TRUE`: an event reply packed by this library cannot be unpacked by it, since
  `EventReplyBody::pack` leaves out the array around the results.
- `Impatient = TRUE`: a page of `-queryall` that arrives after the timeout calls `send` on
  a closed client inside a callback, and a main thread that gives up while the login is
  open closes the client under the WebSocket thread. `NoCallbackDies` fails;
  `DiesOfTimeout` says that main does this only after such a timeout.
- the console client of any user: `main` destroys the client while its detached thread may
  still be in it (`UseAfterReset`, `fault = "freed"`), which `NoCallbackDies` is not about.
- `Unasked = TRUE`: a message whose callback the console client does not override throws
  `not_implemented_error` on the WebSocket thread.
- the acknowledgement of an attachment carries a nil body: `response = {}` empties the
  optional the next lines write to (`NamedInAck`).
- event documents: `returnings` is packed as an empty map whatever it holds, and never
  read (`UnpackEventDocument`).
- login replies: the login is read only under status 200 and the error details only under
  401, whatever was packed (`KeptLoginReply`).
- pages without hits: `totalNumberOfHits` keeps what the memory held (`KeptTotal`).
- file ids: README.md line 175 calls the hex values "unique identifiers"; that holds only for
  names without control characters, since a byte below 16 is printed with one digit
  (`IdsDistinct` without `Printable` fails: the bytes 1, 27 and 17, 11 share an id).
- a `-cert` without `-secret` is not refused: the client is built without TLS.
- a negative timeout is accepted: `-1` waits for no time at all. One whose milliseconds do
  not fit an `int64_t` may be cut short (`TimeoutKept` says when a timeout is kept, and
  that none that is not negative is handed to `wait_for` as a longer one).

## 6. What is not modelled

- Bytes that are not well-formed messages; a frame that cannot be parsed at all. They
  are for the MessagePack library to refuse; the models assume a GDS that keeps to the
  format.
- `to_string` and the help texts: wording without effect on any state.
- PKCS12 parsing and random message ids: OpenSSL and the standard generator. The life of
  the key files and the place of the ids in a message are modelled.
- The contents of files, and `save_binary`, which writes one to disk.
- A GDS that answers one login twice: `GdsSession!Answer` and `ReplyReceived` allow one
  reply.
- The two forms left out of `CommandLine`, named in 2.
- Build files and packaging.

## 7. What could come next

- Malformed messages: an `unpack` that may stop at any member, to say which of them throw
  where and which end the process.
- A second login reply, if a GDS is found to send one: `m_on_message` treats it like the
  first, in any state.
- `-name=value` and the clock of `wait_for`, if the console client is to be used with
  values of that kind.
