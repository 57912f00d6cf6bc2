# A TLA+ model of the Simple IoT Zephyr library and applications

This directory holds TLA+ specifications of the code in this repository, the
TLC configurations that check them on small instances, and proofs of their
safety properties that TLAPS checks. `PROJECT.json` relates every definition to
the lines it stands for, every run to its properties, and every hazard to the
properties that would catch it.

    tlc -workers 2 -config PointFlow.cfg MCPointFlow.tla     # check a run
    tlapm PointStoreProofs.tla                               # check the proofs

## 1. The system

A *point* (`include/point.h`) is a small fixed struct: type, key, data type,
data, time. Threads exchange points over one zbus channel, `point_chan`, and
keep the latest of each identity (type and key) in arrays. The console and a web
page read those arrays; selected points are saved in flash.

| part | state | operations | talks to |
|---|---|---|---|
| points and merging, `lib/point.c` | an array of points, of its caller | `points_merge`, JSON encode and decode, shell command `p` | `point_chan` |
| channels and ticker, `lib/zbus.c` | `point_chan`, `ticker_chan`, a timer | one publish every 500 ms; `bus_init` publishes board and version | the buffer pool all publishers share |
| metrics, `lib/metrics.c` | none | CPU load and uptime every second | `point_chan` |
| web server, `apps/siot-net/src/web.c` | `web_points`, its lock, a static payload buffer and cursor | `v1_handler` (GET, POST in pieces, abort), `web_thread` | page, `point_chan` |
| point cache and stream, `lib/point-cache.c` | the cache, its lock, `streaming` | cache thread, `siot dump`, `siot stream`, `siot status` | `point_chan`, console |
| settings in flash, `lib/nvs.c` | the flash, `nvs_pts` | `nvs_init`, `nvs_store_thread` | `point_chan`, ZMS |
| settings page, `frontend/src/Pages/Home_.elm` | points, edits not saved | poll, edit, save, discard | the web server |
| nRF91 publisher, `apps/siot-nrf` | key store, socket, a binary semaphore | `main`, `cert_provision`, `cloud_publish`, timer, shell command | modem, network |
| conversions, `lib/timeconv.c`, `lib/siot-string.c`, escapes in `lib/point.c` | none | values to text and back | page, console |

The difficult behaviour is in how these meet:

* **One publisher, two writers.** The POST handler merges a point into
  `web_points` itself and also publishes it, so the same array gets the point
  once early and once late, with older values of the identity in between.
* **A publish under a lock.** The handler publishes while it holds
  `web_points_lock`. `web_thread` needs that lock before it frees another buffer
  of the pool the publish needs. Only the 500 ms timeout breaks the circle, and
  then a point reaches some subscribers and not others.
* **Nobody looks at the result of a publish.**
* **Start-up order.** `nvs_init` must have broadcast the saved settings before
  the store thread starts to save points. Nothing but thread priority says so.
* **Power failures** between any two flash operations, and between deleting and
  writing a certificate.
* **A body in pieces**, received into a buffer that all connections share.
* **Flash that fails**: any mount, read or write of the settings may, and a read
  that fails is taken for a record that is missing.
* **Values that leave as text and come back.** A value passes up to three codes
  (JSON escapes, `quote_field`, the shell's own quoting) written in three places,
  and a host recognises its own write only if the time comes back unchanged.
* **Lines of a dump and of the stream interleave** on the console, and the host
  that reads them has to end up with what the cache holds.
* **Failures in the middle**: seven calls of `cloud_publish` may fail, each with
  different resources taken.

What makes each part correct: a reader of an array meets one value per identity,
never an old one (merging); after the traffic stops all arrays agree (bus); a
save that was not reported to have failed stands, unless the board dropped it
silently (page and server); a restart
brings back what was shown, and boot counts do not repeat (flash); a host that
follows the console has what the cache has (stream); a value, a number or a time
comes back from the page or a host unchanged (conversions); nothing is leaked and no request is forgotten
(nRF91).

## 2. Modules

| module | stands for | checked by |
|---|---|---|
| `Points` | `struct point`, `points_merge` as operators | all users |
| `PointsProofs` | lemmas about a merge | TLAPS |
| `PointStore` | an array and the merges made into it | `MCPointStore` |
| `PointMap` | abstract: a bounded map from identity to point | refined by `PointStore` |
| `PointStoreProofs` | theorems about `PointStore` | TLAPS |
| `PointFlow` | publishers, zbus with its pool, web server, point cache and settings store | `MCPointFlow` |
| `PointFlowProofs` | theorems about `PointFlow` | TLAPS |
| `NvsStore` | `nvs_init`, the store thread, flash, restarts | `MCNvsStore` |
| `NvsStoreProofs` | theorems about `NvsStore` | TLAPS |
| `PointStream` | cache thread, shell thread, a host on the console | `MCPointStream` |
| `PointStreamProofs` | theorems about `PointStream` | TLAPS |
| `JsonString` | escaping and unescaping, and what a JSON reader takes a text for, as operators | through `PointTrips` |
| `ShellLine` | `quote_field` and the shell's tokeniser, as operators | through `PointTrips` |
| `Numerals` | `itoa`, `atoi`, `ftoa`, `atof` on words of any width, as operators | through `PointTrips` |
| `TimeConv` | times to RFC 3339 and back, as operators, beside the calendar | through `PointTrips` |
| `PointTrips` | a point that goes to the page or the console as text and comes back | `MCPointTrips` |
| `WebApi` | connections, pieces of bodies, payload buffer, `web_points` | through `SettingsPage` |
| `SettingsPage` | the page's model and messages; extends `WebApi` | itself |
| `SettingsPageProofs` | theorems about `SettingsPage` and `WebApi` | TLAPS |
| `PointTripsProofs` | theorems about `PointTrips` and the operators it uses | TLAPS |
| `CloudPublish` | the nRF91 application | itself |
| `CloudPublishProofs` | theorems about `CloudPublish` | TLAPS |

`Points` is used by `PointStore`, `PointFlow`, `NvsStore` and `PointStream`, so
these cannot disagree about what a merge does.

How state and actions correspond to the code:

* **Points.** Time and data bytes are one abstract value. The data type is kept,
  with all the unknown ones as `"UNK"`, since `points_merge` and the readers branch on
  it. `Matches`, `Free`, `Slot`, `Refused` and `Merged` are the scan of
  `points_merge`; `Normalised` is its rewriting of a blank key, which happens in
  the caller's own point.
* **PointFlow.** `Take`, `Deliver`, `Finish`, `CloneTimesOut` and `TakeTimesOut`
  are `zbus_chan_pub`, step by step as zbus performs it. `PostDecoded`,
  `PostLock`, `PostMerge`, `PostRespond` are the POST branch of `v1_handler`;
  `WebReceive` and `WebMerge` the two halves of `web_thread`; `CacheMerge` the
  cache thread; `NvsSave` the store thread, once it runs, with what it has written
  in `flash`, each write failing or not (`Save`), and one of length 0 deleting the
  record (`Written`); `Tick...` the ticker. What is published is any point of
  `Traffic` (`Fresh`), a blank key, an unknown data type or one without data
  included. `newest`, `missed` and `unsaved` are history.
* **NvsStore.** One action per flash operation or publish of `nvs_init`, one per
  message of the store thread. `table` is `nvs_pts` with its count. With
  `FlashFails` any mount, read or write may fail; `Save` is what the store thread
  does with either outcome, `AfterRead` what `nvs_init` does. `shown`, `boots`,
  `faulted` and `unsaved` are history: the last two name the settings whose own
  read or write failed.
* **PointStream.** `CacheMerge`, `CheckStreaming`, `StreamEmit` are the three
  steps of an iteration of `point_cache_thread`: under the lock, the test, the
  line. A dump holds the lock from `DumpStart` to `DumpEnd`. `view` is the host.
* **PointTrips.** `point` is the point on the board, `text` what was last written
  of it, `at` where that is. `Get` and `Post` are `point_to_point_js` and
  `point_js_to_point`; `Emit` is `point_emit`; `Replay` and `Refuse` are
  `handle_sendpoint` on the same line with the verb changed. `outcome` is what the
  last conversion reported. `ways` and `original` are history. A float is a multiple
  of the smallest one; `Nearest` is what each operation of `ftoa` and `atof` does to
  its result, and `Atof` has two values where a compiler may fuse a product and a sum.
* **WebApi, SettingsPage.** `KeepPiece`, `FinishPost`, `Overflow`, `Abort` are
  the ways through `v1_handler`; `Conflict` is the server's reply while another
  connection is sending a body. `FinishPost` replies with success, whether it could
  decode the body (`MergeAndPublish`) or not (`RefuseBody`), and whichever of its
  points were published before their timeout (`Heard`). `Tick`, `Response`, `Lost`, `Edit`, `Save`,
  `Discard` are the messages of `update` in `Home_.elm`. `saved`, `unsure` and
  `dropped` are history: `dropped` names the settings whose last POST was answered
  with success and will not stand, because it was not decoded or because an older
  value is still to be merged behind it.
* **CloudPublish.** One action per call that may fail. `held` is what
  `socket_setup` and `cloud_publish` have to give back.

Operators marked "Mutant" are variants of the definition that follows them, each
with a plausible mistake. No behaviour of a specification uses them; replacing
the definition by its mutant must break a property, which shows that the property
says something about the code (`PROJECT.json`, "mutants").

## 3. Runs

Passing runs, with the instance and what it reaches:

| run | instance | shows |
|---|---|---|
| `store` | 3 slots, 2 types, 2 keys and the blank key, known and unknown data types, an untyped point | one visible value per identity, the latest offered; slots keep their identity; the array refines `PointMap` |
| `flow` | 2 identities, one of them a setting, also with a blank key, with JSON and with an unknown data type; POSTs of up to 2 points, a device, the ticker, 3 subscribers, a pool of 2, any write to the flash failing, 3 points in all | caches and flash are right once nothing is on its way, also after timeouts, but for a setting whose last write failed; POSTs are answered; the ticker is served; caches and flash converge |
| `nvs` | boot count and one string, 3 publications, 3 power failures, any mount, read or write failing, `nvs_init` undisturbed | saved is what is shown, boot counts climb, boots restore, all but for a setting whose own read or write failed; boots end and the queue drains whatever fails |
| `stream` | 2 slots, 3 publications, dumps and switches at will | a host that turns streaming on and then dumps misses nothing and sees nothing older |
| `conversions` | all strings of up to 4 of seven characters, all ints of 8 bits, 3,411 floats of ten bits printed with two decimals, every tick of ten days, stamps in and out of range | what is sent parses and means the value, or as much of it as there is room for; text without a backslash, ints and times come back as they were; a float fine enough for its decimals is never off by one in the last; a stamp is taken for the instant it names |
| `page` | 2 settings, 2 connections, 2 values, 1 lost request, any body undecodable, any publication timing out | the buffer holds one request's bytes; saves stand, but for the two cases where the board says "ok" to what it drops; requests end; the page converges |
| `cloud` | any certificate found, 2 power failures, any call failing | nothing leaks, nothing asked is forgotten, the certificate is in place |

Runs that end in a counterexample, each against a sentence of the repository:

| run | property | what happens |
|---|---|---|
| `store_recent` | `HoldsMostRecent` | an unknown data type spoils the slot of its identity; in a full array the next value is refused |
| `nvs_boot_race` | `BootCountClimbs` | the store thread attaches while `nvs_init` sleeps and writes the old boot count back |
| `nvs_blank_key` | `ShownIsSaved` | a setting published with a blank key is shown and not saved |
| `json_backslash` | `RoundTrip` | a backslash comes back as two |
| `garbled_time` | `GarbledRejected` | a stamp of February 29th of an ordinary year is stored as March 1st |

`PROJECT.json`, "findings", quotes the sentence and the lines for each.

### Bounds, and why they are enough

Every bound is a constant whose comment says "bound", or the size of an array.
Arrays of two or three slots are full, refuse, and are spoiled within the bound;
the real ones have 40 (`web.c`, `CONFIG_SIOT_POINT_CACHE_SIZE`), and the
theorems on `PointStore` and `PointStream` hold for any size, and those on
`PointFlow` for any pool and traffic. The pool has 2 buffers instead of 48
(`apps/siot-net/prj.conf:90`): the least with which a POST can starve itself, a
device and the ticker at once. Three points in `flow` are a POST of two and a
competitor, which is what the early merge, the late echo and a lost message need. Three power failures let a boot follow
an interrupted boot follow an interrupted boot. Two connections are what a conflict, an
overlapping save and a poll passed by a save need; the server allows six.

In `conversions` a data field has 4 bytes instead of 20: the strings of 4 characters
are those without a terminator, and with every character escaped they fill the
8 bytes of the JSON buffer, so that both a whole and a cut escape occur at its
end. The seven characters are one of every kind that some code on the way treats
on its own. Words have 8 bits, so every int is tried. Floats have ten
bits instead of 24 and two decimals instead of four: floats below 2 are as fine
against their last decimal as those of the code below 256, which is the limit that
`Fine` draws. The run tries all floats between some powers of two (small ones that
print as zero, the coarsest that `Fine` admits, some beyond it) and all that is read
from two decimals; what comes back must be one of them (`FloatsAssumption`, checked
in the run), so the set is closed under any number of trips. The calendar is the real one; the day has 12 seconds of 10
ticks, so that a word that ends in July 2554, as the 64 bits of nanoseconds do, is
within TLC's integers. The days are the ends of years, of centuries and
of February, leap or not. Fractions have up to nine digits, more than are kept.

Types, keys and settings whose names matter (`"bootCount"`, `"0"`) are strings;
the others are model values. No symmetry reduction is used, because most runs
check liveness.

### Fairness, and why the code justifies it

Threads that can run do (weak fairness): the kernel is preemptive, all threads
sleep or wait, and none spins. Waits for the channel, for a buffer and for a
mutex are strongly fair: Zephyr hands a semaphore, a freed buffer and a mutex to
the longest-waiting thread of the highest priority. The 500 ms of a publish do
pass, but a wait is taken to expire only where nobody can free what is waited
for (`Stuck`): publishes that time out for lack of CPU time alone are outside the
model. The browser repeats its poll every 3 s (`Home_.elm:113`). In
`CloudPublish` every call returns, since each has a timeout of its own. The store
thread is a thread like the others: `NvsSave` is weakly fair. Nothing is
asked of users, the host, the network or the power.

`Settled` in `PointFlow` and `Idle` in `NvsStore` let a finished instance
stutter. Deadlock is checked in every run.

### External parts

zbus, ZMS, Zephyr's HTTP server and mutexes, the browser, the modem and the network
are modelled from how the code uses them: a publish takes the channel, then a
buffer, and copies to each observer in order of priority; a ZMS write is atomic
and one of length zero deletes; the HTTP server has one thread, calls the
handler once per piece, and answers 409 while another connection holds the
resource. The shell's tokeniser (`Argument` of `ShellLine`) takes single and double
quotes around a word, and in double quotes decodes an escaped quote but no
other escape. `timeutil_timegm64` counts days of the calendar and lets an
excess of days or seconds run over. Negating the smallest int is undefined in C:
`Itoa` gives every text that a build could print for it.

## 4. Proofs

Each theorem holds for every value of the constants: any number of slots, settings,
connections, devices, buffers, publications and power failures. It assumes the
named `ASSUME`s of the modules it is about, which TLC evaluates in the runs (no
empty type or key among the real ones, `"0"` among the keys, at least one slot, a
table without the same entry twice, sizes that are numbers), and the hypotheses
written in the theorem itself. Every safety property of a passing run is proved,
but `FloatsKept`.

| module | theorems |
|---|---|
| `PointsProofs` | lemmas about a merge: `MergedUnique`, `VisibleAfterMerge` and what follows from them |
| `PointStoreProofs` | `TypeCorrect`, `OneValuePerIdentity`, `SlotsKeepIdentity`, `NothingStale`, `ArrayIsMap` |
| `PointFlowProofs` | `TypeCorrect`, `MirrorsFollow` |
| `NvsStoreProofs` | `TypeCorrect`, `NothingLostAtBoot`, `CountsNeverRepeat`, `ShownIsKept` |
| `PointStreamProofs` | `TypeCorrect`, `HostInSync`, `NothingOldPrinted` |
| `SettingsPageProofs` | `TypeCorrect`, `NothingLeftOver`, `SavedValueStands` |
| `CloudPublishProofs` | `TypeCorrect`, `NothingLeaks`, `CertificateInPlace`, `NoRequestForgotten` |
| `PointTripsProofs` | `TypeCorrect`, `TextParses`, `TextSurvives`, `NumbersSurvive`, `TimesSurvive`; `DaysComeBack`, `TimesComeBack` |

**A merge** (`PointsProofs`). A merge replaces the one match or, there being none,
takes a free slot, so it never makes a second visible slot of an identity
(`MergedUnique`); what is visible afterwards is the new point or an older one of
another identity (`VisibleAfterMerge`). All modules that merge cite these.

**An array** (`PointStoreProofs`). `KnownUnique` is inductive with `TypeOK`.
`NoStaleValue` is not inductive alone: replacing one of two visible values of an
identity would leave the other, an old one, readable. `ArrayIsMap` is the
refinement: initial arrays are the empty map, and each merge is a `Put` or a
`Spoil` of `PointMap`, or a stutter where the point is refused or hidden.
`SameCardinality` and the theorems on finite sets account for the wasted slots.

**The bus** (`PointFlowProofs`). `FlowInv` has four parts: what is carried is a
point as publishers build it, the arrays hold no identity twice, no more buffers
are in use than there are, and what is on the channel is the newest of its
identity, published by a thread that is publishing, and a slot that is taken has a
key that is not blank. `TypeOK`, with `InUse <= Pool`,
follows. `MirrorsWhenDrained` says nothing of an identity that is still on its
way, so the induction goes over `Mirror`, once per subscriber: of the messages of an
identity to come, *the last* is the newest, or, with none to come, the array
agrees already. For the web server "to come" includes the message in
`web_thread`'s hand, and "agrees" excepts a point merged but not yet published
(`MergedAhead`): this is how the early merge followed by an older echo is made good.
No hypothesis is needed of the traffic, which may name any type, key and data
type, or of the arrays: an array agrees with the newest value *if it has a free slot
now* (`InStep`). A merge never frees a slot (`MergeFrees`), so a free slot says that
nothing has been refused; 11 types (`include/point.h:64-74`) in an array of 40 leave
many. A value of unknown data type is to be shown by nobody, and spoils its slot; the
next one of its identity is shown from another. For the flash "agrees" is `Saved`: the
record is what a write of the newest value leaves, unless that write failed.

**Flash** (`NvsStoreProofs`).
* `NothingLostAtBoot` needs no hypothesis: until the table opens, at the end of
  `nvs_init`, the store thread writes nothing (`BootShape`).
* `TypeCorrect` bounds every count by the number of boots (`CountsBounded`).
  *Hypothesis* `HostLeavesCount`: nobody else publishes the boot count. The shell
  could, and later boots would count on from there.
* `CountsNeverRepeat`: all counts published so far climb and are below the count
  in flash, until that is published in turn (`Climbs`); between the write of
  `n + 1` and the publication of `n`, power may fail, and `n` is skipped, never
  repeated. *Hypotheses* `HostLeavesCount` and `~Preempts`; the run
  `nvs_boot_race` is what happens without the second.
* `ShownIsKept`: `ShownIsSaved` speaks of an empty queue; `SavedFor` says what
  holds on the way there: the last point waiting for a setting brings what is
  shown. During the boot it tells settings that are behind from the one in hand.
  *Hypotheses* as before and `TrafficFits`: publishers of a setting name its key
  and its data type, as the settings page does; the run `nvs_blank_key` is what
  happens otherwise.

The run `nvs` checks these hypotheses of its traffic (`TrafficAsProved`), and sets
`Preempts = FALSE`: the main thread has priority over the store thread, and
the run says what a flash driver that sleeps would cost.

**The console stream** (`PointStreamProofs`). Contents grow from the host through
the cache and the thread's hand to the queue (`QueueInOrder`, `MergedIsOlder`,
`HandIsNewest`, `HostBehindCache`); a dump has brought the host level with the
slots it has passed (`DumpedSoFar`), which no merge disturbs since it holds the lock;
a host in sync lacks the point in hand at most (`SyncedButForHand`).
`HostTracksCache` is the last part when nothing is in hand, and
`HostNeverGoesBack` follows from the order.

**Page and server** (`SettingsPageProofs`). `BufferInv` is the type invariant,
`OwnBytesOnly`, that only the holder has sent part of a body (`OneHolder`), and
what requests look like (`Requests`). `SavesStand` only speaks of a setting whose
saves have been answered; `SavesUnderWay` adds what is true before: every open
request that touches the setting carries the saved value, and that value was
published last, or is in a body that has yet to be, or has been dropped. That a
publication timed out matters only if an older value of the setting is still to be merged:
if none is, the handler's own merge stands (`PublishedStands`). Lemmas on lists of changes
(`ChangedInTurn`, `ChangedStepwise`) say that the last change of a setting counts,
in however many pieces and echoes it arrives.

**nRF91** (`CloudPublishProofs`). `NothingHeld` only speaks of the loop between
publishes, so the induction goes over `HeldIsDue`, which says what is held at each
stage. `Provisioned` and `RequestKept` are inductive.

**Time conversion** (`PointTripsProofs`). The runs try a few times with a day of
minutes; `TimesComeBack` is about all that a word holds and a clock of any size.
`DaysComeBack` says that `civil_from_days` inverts the calendar: within a period of
400 years by its year and day of the year (`DayOfEra`), the calendar's months by
their first days (`MonthStarts`, `MarchOf`). The clock is two divisions undone
(`ClockComesBack`). The digits of a fraction are summed by a recursive function; that
the partial sums are the leading digits is shown one digit at a time
(`TicksComeBack`), which needs no induction because *hypothesis* `TickDigits <= 9`
bounds the digits; the code prints nine.

**Trips** (`PointTripsProofs`). The theorems hold for words, fields, texts and
characters of any number, where the run has bytes and fields of four characters.
`Shape` is the invariant under all of them: a point never leaves its type, an int but
the smallest never changes, a float is one of `Floats`, and what is under way is a text of the point the board has. `GetStep`, `PostStep`, `EmitStep`,
`ReplayStep` and `RefuseStep` say once what each action does under `Shape`; the
proofs of the properties start from these.
* `TypeCorrect` includes that every text fits its buffer. *Hypothesis* `NumbersFit`:
  the texts of the ints and of the floats a board may hold fit `JsonBuffer`, which
  is 40 bytes in the code, where an int takes 11. Strings need no hypothesis:
  `json_escape_string` and `quote_field` check.
* `NumbersSurvive` is about ints (`IntsKept`): atoi undoes itoa, digit by digit,
  wrapping included (`IntsComeBack`). It needs no `NumbersFit`: a text that is too
  long is not sent, and the point stays what it was. Of floats the proofs use only
  `FloatsAssumption` (their texts are digits, and what is read from one is a float of the set);
  how far a float moves (`FloatsKept`) is a matter of rounding, and only
  model-checked.
* `TimesSurvive`: `TimeInv` adds what a line under way carries: no stamp, or one
  that is read as the original time or refused. *Hypothesis* `StampsNameInstants`:
  a host's stamps have no longer fractions than the parser has room for, and those it
  accepts name an instant. The run `garbled_time` is what happens otherwise; a stamp
  that it rejects may be anything.
* `TextParses`: whatever prefix of a text is written, escaped, a JSON reader finds
  that prefix (`MeaningEscaped`), and `json_escape_string` writes the whole text, or
  stops only where the next character leaves no room for the terminator
  (`PrefixGrows`, `EscapeLongest`).
* `TextSurvives`: a text without a backslash is written by `quote_field` and by
  `json_escape_string` as pieces that the shell and `json_unescape_string` take
  apart again (`Spelt`, `ShellChars`, `InsideQuotesBody`, `UnescapeSpelt`). `TextInv`
  adds that it never gets a backslash and, as long as the property applies, is still the
  original. The run `json_backslash` shows why the backslash is left out.

Each operator on text is a recursive function over the places of a text, and a
`CHOOSE` to the prover. `Recursion` and `BackwardRecursion` show that such
definitions have solutions, by induction over *sets* of numbers or places
(`Induction`, `Descent`, `Downward`), which the provers can instantiate where
the library's theorems about operators they cannot. Lemmas named `...Is` or `...Reads`
turn each definition into an equation per place; `ReadPieces` then says that what is
read from its end, piece by piece, is its pieces in a row. The runs of
`MCPointTrips` check the three hypotheses as `ASSUME`s.

**Only model-checked.** `FloatsKept` of `PointTrips`, since it is about the rounding
of every operation. Liveness needs fairness, which is beyond the prover:
`Converges`, `PostAnswered` and `TickServed` of `PointFlow`, `QueueDrains` and
`BootEnds` of `NvsStore`, `AllMerged` of `PointStream`, `RequestsEnd` and
`PageConverges` of `SettingsPage`, `RequestServed` of `CloudPublish`.

## 5. Not modelled, and why

* `lib/html.c`, and `utoa64` and `atou64` of `lib/siot-string.c`: called by no
  application, the last two by a test only.
* Subnormal floats, infinities, NaN and floats whose integral part is no int. How far
  floats above `Fine` move is in the model and no property: with 24 bits and four
  decimals 600000.4375 is printed as it is and read as 600000.375, and some floats
  above 512 lose a bit with every trip; nothing in the repository says more.
* A stamp with more than 17 digits of fraction is refused (`Accepted`), although
  `include/timeconv.h:22-23` allows a fraction "of any length": a hazard in
  `PROJECT.json`. `TimeKept` is checked and proved for shorter ones.
* The dumps for the log (`point_dump`, `points_dump`): nothing reads them back.
* Why a JSON document is refused (`RefuseBody` says only that one may be), and lengths in bytes: the terminator
  behind a full `v1_payload_buf`, the size of a reply, more than five points in a
  body. These are hazards with a note in `PROJECT.json`; planned (below).
* Control characters in JSON strings: they go out raw, and `Parseable` excepts
  them, because nothing in the repository says what is meant for them.
* SD card, network callback, board start-up, small samples, the page's view, the
  development server, build files: I/O or presentation, with no state that
  another part reads.
* Priorities of threads, except where `NvsStore` depends on them (`Preempts`).

## 6. Plan

Done: points and merging; the bus with both caches and the settings store; flash
with its failures; console stream; web server and page; nRF91; the conversions,
composed from the board to the page or the console and back; proofs of the safety
properties of all of these.

Next, in order:

1. `Payload`: bodies of up to five points at byte granularity, the terminator at
   the end of `v1_payload_buf`, more than five points, and a reply that does not fit;
   composed with `WebApi`.
2. Carrying a time of its own through `PointStream`, for a host that leaves out
   the lines that report its own writes.
