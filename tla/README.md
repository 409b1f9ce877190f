# TLA+ models of hp-legacy-print

hp-legacy-print brings old HP LaserJets back to life: it finds them on USB,
takes their interface from the kernel's `usblp` driver, lets PAPPL render jobs,
has foo2zjs encode them, and sends the result through a transport session that
survives unplugging without ever printing a byte twice. Beside the PAPPL server
there is a command line that lists and watches printers, tries claims and
prints a test page. This directory holds TLA+ modules of the parts of it that
keep state, TLC runs that check them on small instances, and proofs, checked by
TLAPS, for instances of any size.

Paths below are relative to the repository's root. Line numbers without a file
are of `src/usb_transport.c`.

## 1. Inventory

| component | state it keeps | operations | what makes it hard | what makes it correct |
|---|---|---|---|---|
| model table (`src/models.c`) | none | `hplp_model_lookup` | -1 marks endpoints nobody has verified | unverified models are never touched |
| USB bus, `usblp`, usbfs (external) | what is plugged, which driver is bound, who holds an interface | the libusb calls, plug, unplug | any call may fail, any time a printer may go | - |
| device claim (`claim_device`, `close_session_handle`) | the session record | open, read serial, detach, claim, undo, release, attach | six error returns inside a loop; other processes in between | exclusive claims, nothing leaked, the right printer |
| transport session (`hplp_usb_session_*`) | `bytes_accepted`, `last_error`, handle, serial | open, write, reconnect, close | partial transfers, reconnect and replay | no byte twice, none missing after success, none after a tear |
| transport watch (`hplp_usb_transport_watch`) | a session, `last_state`, the run flag | claim, poll, let go, signal, stop | staleness, signals, lists that fail | what it prints is what it holds; it stops and gives back |
| raster callbacks (`src/pappl_app.c`) | `p1102_job_data_t`, two temporary files, a child process | start/end job and page, write line, encode | refusals and failures on every level | only whole jobs are encoded, nothing is left in `/tmp` |
| PAPPL driver capabilities, application start (`src/pappl_app.c`) | none after start | fills PAPPL's tables | - | - |
| hplp device scheme (`src/pappl_device.c`) | the session pointer | list, open, write, close, URI codec | truncation, decoding, URIs that users write | a listed URI opens the listed printer |
| claim check (`src/usb_claim.c`) | a handle, `detached`, the exit code | detach, claim, release, attach | five ways out; other checks and sessions | leaves the driver as found, exit code 0 means claimed |
| print test (`src/print_test.c`) | a handle, `detached`, the send counters | render, claim, send, clean up | a send loop and a claim walk of its own | each byte once, nothing left behind |
| render test (`src/render_test.c`) | two temporary files, a child process | write, fork, wait, unlink | a failure at each of eight system calls | the wrapper sees the whole page; code and files agree |
| discovery and state monitor (`src/usb_discovery.c`, `src/main.c`) | `last_state`, the run flag | list, poll, print | two passes, serial numbers that cannot be read yet, lists that fail | no printer missing, no change swallowed |
| inspection, power report (`src/usb_inspect.c`, `src/usb_power.c`) | none | print | - | - |

How they interact: PAPPL calls the raster callbacks and the device scheme; the
device scheme calls discovery and the session; session, watch, claim check and
print test each open their own libusb context, in one process or in several,
and meet only on the bus: a usbfs claim excludes others, a bound `usblp`
excludes a claim, an unplug ends every handle at once. Nothing is persisted, so
there is no crash recovery to model; what is lost with a killed process is what
is lost with an unplug. At this milestone rendered jobs are not sent
(`raster_rendjob` always returns false), so RasterJob and UsbSession do not meet
yet.

PROJECT.json lists the hazards, each at its line, with the properties that
cover it.

## 2. Modules

    PrinterModels <- UsbBus <- ClaimDevice <- UsbSession <- UsbSessionInv <- UsbSessionProofs
                       |           |              |\
                       |           |              | JobStream (abstract) - also implemented by PrintTest
                       |           |              +<- Contention (INSTANCE ClaimCheck, PrintTest)
                       |           |                    <- ContentionProofs (also UsbSessionProofs,
                       |           |                       INSTANCE PrintTestProofs)
                       |           +<- TransportWatch <- TransportWatchProofs
                       +<- ClaimCheck <- ClaimCheckProofs
                       +<- PrintTest <- PrintTestProofs       PrintTest also extends RenderTest
                       +<- Discovery <- DeviceWatch <- DeviceListing (with DeviceUri)
                                                         <- DeviceListingProofs
                                                            (with DeviceUriProofs)
    RasterJob <- RasterJobProofs

* `PrinterModels` - the table of `src/models.c` and the test for a verified
  profile. The table in use is a constant: `hplp_models`, or one row more.
* `UsbBus` - the external world. A *device* is one enumeration of a printer: an
  unplug kills every reference to it and the next plug makes another.
* `ClaimDevice` - `claim_device` in its caller's loop over the device list, and
  `close_session_handle`. One step is one libusb call, so other clients and
  unplugs come between any two. `cpc` is the call a client makes next, `sess`
  the session record, `try` the locals of `claim_device`.
* `UsbSession` - `hplp_usb_session_open`, `_write`, `_close` on top of it, with
  the caller (`hplp_device_open`, `_write`, `_close` of `src/pappl_device.c`).
  `pc` is the call a client is in, `left` is `bytes - offset`, `wire` what the
  printer has taken of the transfer in flight. A byte is its position in the
  job, so order and repetition can be seen. `job` and `printed` are history.
* `JobStream` - the abstract specification: what a sender promises, with no USB
  in it. Bytes are taken in order and once each; a write that succeeds has
  delivered everything; a printer that leaves tears the job. It includes the
  caller that writes on after a failure (`SWriteOn`, `STakeBehind`): bytes may
  then be missing, but never repeated, reordered or added to a torn job.
  `UsbSession` and `PrintTest` implement it; `Stream(c)` is the refinement
  mapping of each.
* `UsbSessionInv`, `UsbSessionProofs` - the inductive invariant, and the proofs of
  it, of what follows from it, and of the refinement.
* `TransportWatch`, `TransportWatchProofs` - `hplp_usb_transport_watch`, also on
  top of `ClaimDevice`.
* `RasterJob`, `RasterJobProofs` - the raster callbacks, `encode_pbm_to_zjs` and
  its child process. `encoder` is the child and its exit status, which `WaitPid`
  looks at; `stream` is what the ZJS file holds, which is all that `Stat` looks
  at: a foo2zjs that fails may leave a stream, and one that exits with 0 none.
* `ClaimCheck`, `ClaimCheckProofs` - `hplp_usb_claim_check_supported` and `check_one`.
  `kpc` is the libusb call each check makes next; `found`, `claimed`, `original` and `lost`
  are history: what it found, claimed, and said of the driver.
* `RenderTest` - `hplp_render_p1102_test_file`. One step is a system call that can
  fail, with the calls that undo what went before.
* `PrintTest`, `PrintTestProofs` - `hplp_print_p1102_test` with `open_p1102` and
  `send_file`; it extends `RenderTest`, whose steps are its first half, and
  `PrintTestProofs` holds the proofs about both. `unread`, `unsent` and `taken` are the bytes not read, not sent, and taken in flight.
* `Contention`, `ContentionProofs` - sessions, claim checks and print tests side by side. It extends
  `UsbSession` and instantiates the other two on the same bus variables;
  `program` says which program a client is.
* `Discovery` - `hplp_usb_list`: the counting pass, the filling pass with
  `read_serial`, and the free.
* `DeviceWatch` - `--list` and `--watch` of `src/main.c`. `shown`, `latest` and
  `exit_code` are what its user sees.
* `DeviceUri`, `DeviceUriProofs` - the URI codec and `parse_hplp_uri`, as functions
  on byte strings, and what they compute for every string. `Scanned` is the word
  that sscanf's `%767s` takes: it skips white space in front, stops at the next,
  and the code refuses a URI that goes on behind it.
* `DeviceListing` - discovery under its three callers: `--list`, `--watch`, and
  PAPPL with `hplp_device_list`, `_open` (up to the session) and `_close`. Of the
  devices listed, `Ready` have a verified profile and a serial number that was
  read, `Named` one that is not empty; the callback may stop at any of them.
  `offers` is what it was called with, `opened` what PAPPL has open.
  `DeviceListingProofs` - what the list, the command line and the scheme promise.
* `MC*` - the instances for TLC.

Definitions marked "Mutant" are not part of the models. Each is a plausible bug;
put in the place of the definition below it, it makes TLC report the property
that PROJECT.json names, which shows that the property can fail.

### What the models abstract

* Bytes, chunk and time: `HPLP_USB_CHUNK_SIZE` is 1 or 2, a sleep is stuttering,
  and a timeout is an error like others, because the code treats them alike.
* libusb result codes: SUCCESS, NO_DEVICE, or ERROR for all others. A failing
  call on a live enumeration says ERROR, on a dead one NO_DEVICE.
* The serial number of a printer is its identity; serial numbers are unique. In
  `DeviceListing` the string matters too: it has no say in how a device is
  listed, and is chosen when it is put into the URI.
* A row's vendor id is 0x03f0 throughout, so a product id alone is looked up.
* A URI is its product and its encoded serial number. The buffers keep their
  proportions (a serial of n, an encoded one of 3n bytes); a URI of a serial that
  fits always fits its 1024 bytes.
* What `print_device`, `print_watch_devices` and the logs say in words.

### Assumptions about what the code calls

* libusb reports `transferred` exactly, also on errors; `kernel_driver_active`
  is supported (Linux), so `LIBUSB_ERROR_NOT_SUPPORTED` does not happen. A device
  descriptor reads the same whenever it is read, because libusb keeps it.
* A bus number and address are not given to another printer between two polls.
* PAPPL calls `rendpage` after a line that failed or a cancelled page, and
  `rendjob` after any failure; after a `false` it calls nothing else.
* The calls of one session come one after another, as PAPPL makes them. PAPPL
  has one device of the scheme open at a time, and does not list meanwhile.
* A failing `calloc` or `libusb_init` in `hplp_usb_session_open` changes nothing
  and is not a step; neither is a write of no bytes.
* The command-line programs of `RenderTest` install no signal handler, so their
  `waitpid` fails only when the child has ended (SIGCHLD ignored). In the server
  (`RasterJob`) it may fail while the child runs.
* `mkstemp`'s path fits the caller's 128 bytes.

## 3. Runs

| run | instance | checks | shows |
|---|---|---|---|
| `session_stream` | one session, two identical printers, chunks of 2, writes of up to 3 and jobs of up to 4 bytes, 2 attempts; the caller may write on after a failure | `AcceptedCounts`, `RightPrinter`, `NoByteTwice`, `NoByteAfterTear`, `NoReattachAfterJob`, `ImplementsJobStream`, `CallReturns` | a session is a job stream on the printer of its URI, and its calls return |
| `session_pair` | two sessions, one printer, 2 bytes | `SessionInv`, `Exclusive`, `NothingLeaked` | contention; the invariant of the proofs |
| `session_race` | two sessions, one printer | `NoReattachAfterJob` | violated: finding 1 |
| `watch_twins` | one watch, two printers of a model, one without a serial number | `WatchTypeOK`, `ReportsWhatItHolds`, `StopsClean`, `LeavesUnboundAlone`, `StopsOnSignal`, `NoticesUnplug` | the watch |
| `watch_replug` | one watch, one printer | `ClosesStaleHandle` | violated: finding 2 |
| `watch_restore` | one watch, one printer | `OriginalStateRestored` | violated: finding 3 |
| `raster` | jobs of up to 3 pages of up to 2 lines, a header for each reason to refuse | `TypeOK`, `EncodesWholeJobs`, `EncodedMeansEncoded`, `NoTemporaryLeft`, `JobEnds` | the raster callbacks |
| `raster_stub` | jobs of one page | `RejectedAtStart` | violated: finding 4 |
| `check` | two claim checks at once, a P1102 and a P1006 | `LeavesAsFound`, `FinishedCheck` | the drivers are as found, or the check has said otherwise; exit code 0 |
| `print_test` | one test after another, two P1102, a PostScript page of 2 bytes, a rendered one of up to 3, a buffer of 2 | `TestTypeOK`, `RenderContract`, `NothingLeft`, `NoUsblpAfterPage`, `ImplementsJobStream`, `TestEnds` | the print test with its rendering |
| `contention` | a session beside claim checks or print tests, one P1102, one byte to a transfer | `OneWriter`, `EveryJobAStream`, `OnlyTakerHandsBack` | the programs do not disturb each other's jobs; which of them can bind `usblp` to a printer that has printed |
| `devices` | `--list`, `--watch` or PAPPL; two devices at a time of: a P1102, one without a serial number, a P1006 (whose profile is not verified), another device; serial numbers of up to 3 of 6 bytes; URIs users write | `UriTypeOK`, `ListsEachOnce`, `ShowsLatest`, `ExitCodeTells`, `OffersOpen`, `OpenedCanBeNamed`, `NoticesEmptyBus`, `Ends` | discovery, the state monitor, the device URIs |

Why the bounds are enough. Two identical printers are what it takes to claim the
wrong one, or to carry something over from one printer of a walk to the next.
Chunks of 2 in writes of 3 make a write of two transfers, a transfer that is cut
short, and a last transfer shorter than the chunk; jobs of 4 make a second
write; the page of 3 in a buffer of 2 does the same for `send_file`. Two attempts
are a first and a last one. `session_pair` and `contention` have one byte to a
chunk because contention is about claims and not bytes, and two clients are the
smallest contention. Three pages are a first page, one that must match it, and
one after a refusal. In `devices` the serial buffer holds 3 characters, so that
strings that just fit, and strings that just do not, both occur; the six bytes
are the escape character, the space that sscanf's `%s` skips in front and stops
at behind, an ordinary reserved byte and the digits that could be taken for an
escape; a user's URI has complete, broken, lower-case and zero escapes, spaces in
any place, and pieces for an overflow. Two devices at a time (`Ports`) are every
pair of a printer that may be offered, one whose profile is not verified though
its number was read, one that is verified but has no number, and a device that is
no printer; they are bound to `usblp` (`Probed`), which nothing in this run looks
at. Both bounds are constants of the module, and the theorems hold for any.
Printers come and go without a bound in every run.

Every run checks for deadlock: a caller may always call again, a printer may
always come or go, PAPPL may always start a job.

### Findings

1. `claim_device` attaches `usblp` again when its claim fails (223-227), for
   every model. If the claim failed because another session held the interface,
   and that session prints and closes before the attach, `usblp` is bound to a
   P1102 after a job, which `include/hplp/models.h` 26-29 rules out. The two
   other walks behave alike: the undo of a failed claim in `src/print_test.c`
   (69-76), so that `NoUsblpAfterPage` is checked for one test at a time only, and
   the attach of `src/usb_claim.c` (83-92), whose comment leaves the quirk to the
   transport.
2. `session_still_present` compares serial numbers (118-125), so a printer that
   was replugged between two polls is "present"; the watch keeps the dead
   handle and never claims the new enumeration, against its comment (643-647).
3. "original kernel-driver state restored" (664) is printed whatever
   `libusb_attach_kernel_driver` returned (166, 225), and after a failed device
   list has made the watch close its printer without restoring (138, 639-649).
4. The comment in `src/pappl_app.c` 447-451 says the callbacks reject a job at
   rstartjob; they accept it, render and encode it, and reject it at rendjob.

## 4. Fairness

* `UsbSession`: weak fairness of what each client does *inside* a call. libusb
  calls return (a bulk transfer within `HPLP_USB_TIMEOUT_MS`), and the sleep of a
  second ends. Nothing makes a caller call or a printer come back. `CallReturns`
  asks that printers stop leaving: one that leaves after every reconnect makes a
  write begin its attempts again each time, and the code has no bound on that.
* `TransportWatch`: weak fairness of the loop, for the same reasons; none of the
  signal and none of the bus.
* `RasterJob`: `raster_rendjob` runs on once called, and foo2zjs ends. The code
  does not bound foo2zjs; `JobEnds` rests on that assumption.
* `ClaimCheck` and `PrintTest`: weak fairness of what a program does once it is
  started; the print test also has foo2zjs-wrapper end. No printer has to stay:
  the print test retries nothing, so `TestEnds` needs no such condition.
* `DeviceListing`: weak fairness of `--list` and `--watch`, whose libusb calls
  return and whose sleep ends; none of PAPPL, of the signal or of the bus.
  `NoticesEmptyBus` asks in its own hypothesis that lists do not fail for ever.
* `Contention` states no liveness: a session can lose every race for a printer.

## 5. Proofs

All proofs are for any sets of printers and clients, any model table, and any
chunk, buffer, page and job size. They rest on the assumptions the modules name
and TLC evaluates: `BusAssumption` (names are distinct, serialised printers are
printers), `SessionAssumption`, `PrintAssumption`, `RenderAssumption`,
`ContentionAssumption` and `RasterAssumption` (bounds are numbers, a buffer and a
page are not empty), `DiscoveryAssumption` (a bus has finitely many printers,
without which an array could not hold their list), `UriAssumption` (the buffer of
a serial number is not empty) and `ListingAssumption` (a serial number is a C
string that fits the 256 bytes `hplp_usb_list` reads it into; what users write
is a C string of any length; the bounds are a number and a set of drivers). The only hypothesis a theorem adds is `Alone`, in
two of them, which says that one client is at work.

| module | theorem | states |
|---|---|---|
| `UsbSessionProofs` | `SessionInvariant`, `TypesCorrect` | `Spec => []SessionInv`, `Spec => []TypeOK` |
| | `AcceptedIsExact`, `HoldsRightPrinter` | `AcceptedCounts`, `RightPrinter` |
| | `SessionsExclude`, `NoLeak` | `Exclusive`, `NothingLeaked` |
| | `BytesOnce`, `TornStaysTorn` | `NoByteTwice`, `NoByteAfterTear` |
| | `OnlyUndoReattaches` | `Spec => HandsBackUnprinted`, any number of sessions |
| | `LoneSessionKeepsUsblpOff` | `Alone => (Spec => []NoReattachAfterJob)` |
| | `SessionIsAJobStream` | `Spec => ImplementsJobStream` |
| | `WritesAreTaken` | `Spec => []WrittenMeansTaken` |
| `TransportWatchProofs` | `WatchInvariant`, `WatchTypesCorrect` | `Spec => []WatchInv`, `WatchTypeOK` |
| | `StateLineIsTrue`, `StopLeavesNothing` | `ReportsWhatItHolds`, `StopsClean` |
| | `UnboundStaysUnbound` | `LeavesUnboundAlone` |
| `ClaimCheckProofs` | `CheckInvariant`, `CheckTypesCorrect` | `Spec => []CheckInv`, `CheckTypeOK` |
| | `FinishedMeansChecked`, `DriversAsFound` | `FinishedCheck`, `LeavesAsFound` |
| `PrintTestProofs` | `RenderKeepsContract` | `RenderSpec => []RenderContract` |
| | `TestInvariant`, `TestTypesCorrect` | `Spec => []TestInv`, `Spec => []TestTypeOK` |
| | `TestRenders`, `TestLeavesNothing` | `RenderContract`, `NothingLeft` |
| | `PageIsAJobStream` | `Spec => ImplementsJobStream` |
| | `LoneTestKeepsUsblpOff` | `Alone => (Spec => []NoUsblpAfterPage)` |
| | `SentPagesAreTaken` | `Spec => []SentMeansTaken` |
| `ContentionProofs` | `ProgramsInvariant`, `OneWriterEach` | `AllSpec => []WriterInv`, `OneWriter` |
| | `EveryJobStreams` | `AllSpec => EveryJobAStream` |
| | `OnlyTakersHandBack` | `AllSpec => OnlyTakerHandsBack` |
| `DeviceUriProofs` | `UriRoundTrip` | the URI of a serial number that fits opens as that number |
| | `UrisDiffer` | two printers with one URI have one product and one serial number |
| | `ParsedIsOne` | whatever a user writes opens as one name at most, whose number is a C string that fits; white space in front makes no difference |
| `DeviceListingProofs` | `ListInvariant`, `ListIsComplete` | `Spec => []Lists`, `ListsEachOnce` |
| | `NeverBeyondArray` | `Spec => []StaysInArray` |
| | `MainTypesCorrect` | `Spec => []MainTypeOK` |
| | `WatchShowsLatest`, `ListExitCode` | `ShowsLatest`, `ExitCodeTells` |
| | `UriTypes` | `Spec => []UriTypeOK` |
| | `OfferedCanBeOpened`, `OpenedIsNamed` | `OffersOpen`, `OpenedCanBeNamed` |
| `RasterJobProofs` | `RasterInvariant`, `RasterTypesCorrect` | `RasterInv`, `TypeOK` |
| | `OnlyWholeJobs`, `OkMeansOk`, `NoTemporarySurvives` | `EncodesWholeJobs`, `EncodedMeansEncoded`, `NoTemporaryLeft` |

**Sessions.** None of the properties is inductive: `Exclusive`, for one, says
nothing of a client in the middle of a reconnect. `SessionInv` adds, for each
client: which libusb call it can be at given the session call it is in
(`Control`); when its record has a handle and when one is open (`Holding`); how
the serial number travels from the URI through `want` and `try` into the record
(`Target`); that a claim belongs to exactly the client whose record holds the
live handle it was made with (`Claimed`); how `accepted`, `wire`, `left` and
`sent` bound each other (`Counters`); that what was taken lies below what is to
be sent (`Increasing`); that a torn job's session has no live handle
(`TornIsDead`); and that nothing is missing while no write of the job has failed
(`Complete`).

A step of one client shows `StepOk`: types, its own part of the invariant, and
that the others see nothing of it (`OthersSame`), from which `OthersKept` keeps
theirs. The steps of a walk that claim nothing share one lemma, `WalkOn`; the
three ends of a transfer share `TransferTypes` and `TransferBytes`. An unplug
touches every client, and has a proof of its own. `TornStaysTorn` follows from the
invariant and `BytesOnlyTaken`: only `TakeByte` adds a byte, and it needs a live
handle.

**Refinement.** `UsbSessionProofs` has one lemma for each step of JobStream, saying what a session must show for it (`Completes` needs that exactly the bytes
1..sent have been taken, which is `Complete` and `Counters`; `Takes` that the next
byte is the next position, or lies behind all others after a failure, which is
`Increasing`). The actions of a session then each name their step; those of other
clients, and of the bus, change neither its call nor its job.

**Who hands a printer back.** `NoReattachAfterJob` is false of two sessions
(finding 1), so what can be proved comes in two theorems. `OnlyUndoReattaches`
holds for any number: when a quirk printer that has printed is bound to `usblp`,
the step is the undo of a walk of a session none of whose bytes were taken.
A close never does it, whatever the others have done, and neither does the
session that printed. It needs `HandBackInv`: a live handle or reference is to a
printer on the bus, and no driver is bound under a claim.
`LoneSessionKeepsUsblpOff` rules the undo out as well, for one session, through
`AloneInv`: a walk that may still undo its detach holds a printer that has not
printed, since it found it bound to `usblp`. `LoneTestKeepsUsblpOff` argues the
same way about `open_p1102`.

`OnlyTakersHandBack` says it of the programs side by side: when a quirk printer
that has printed is bound to `usblp` again, a program does it that took `usblp`
off itself: in the undo of a walk or of an `open_p1102`, or at the end of a claim
check, never in a close and never a session that has printed. `TakerInv` says what
each program knows at the call that may attach (`Owes`): a session that closes
has no quirk printer there, one that undoes has detached, and so has a claim
check. What a program knows lies in its own variables, so that a polite step of
another one keeps it.

**Watch.** `WatchInv` is the claim part of the session's invariant, around
another loop: what the record has, what is open and what was printed last, at
each place of the loop and of the walk below it. `LeavesUnboundAlone` is about
all watches at once and needs `RestoreInv`: a watch that may attach `usblp`, in
an undo or in a close, owes it to a detach of its own, and so to an enumeration
that was first seen bound (`Owes`). It holds for any number of watches; the run
has one.

**Claim check.** `CheckInv` says of each check that what it found is claimed,
has failed it, or is still to come (`Covers`), from which `FinishedCheck` follows
at its end. `LeavesAsFound` is about the checks together: in `RestoreInv`, a
printer that was found bound to `usblp` is bound to it, reported lost, or taken by
a check that has yet to hand it back (`GivesBack`). Two checks may have detached
the same enumeration one after the other, so the witness is some check, not a
count of one.

**Print test.** `TestInv` joins the invariant of the rendering with what a test
holds at each libusb call (`Holds`) and how far the page is (`Sends`): read,
unsent and taken bytes add up to the page, and position i of what the printer got
is i. A step of the print test is a step of the rendering or leaves it alone, so
the rendering is proved once. The refinement follows as for sessions.

**Success means delivery.** `WritesAreTaken` and `SentPagesAreTaken` are what a
caller reads out of a success. As long as no write of a job has failed, what the
printer has taken between two writes of a session is exactly the bytes 1..n of
the job, across every reconnect; a print test that ended with "sent" has put all
of its page, in order and nothing else, into the printer it opened. Both are about
the state a call leaves behind; that the steps in between are right is the
refinement.

**Programs side by side.** No program knows of the others, and the proof does not
look at pairs of them. `Polite` is what a step of any of the three may do to the
bus: it takes only a free interface, on a printer it has open, releases only its
own claim, and changes no handle but its own. A polite step keeps the rules of the
bus (`BusRules`), the session invariant of every other session and the claim of
every other test; with its own step's part that is `WriterInv`, hence
`OneWriter`. `EveryJobAStream` reuses the refinements: `StreamsInv` adds to
`WriterInv` what `PrintTestProofs` knows of one test, and that module is
instantiated as a whole. Its assumptions are proved of the instance from
`ContentionAssumption` and `BusAssumption`.

**Discovery.** `Lists` says of the filling pass that what has been named, and the
supported printers still to come, are apart and make up what was counted: the list
is complete when nothing is to come, and the array is large enough until then
(`NeverBeyondArray`, whatever leaves the bus between the passes). The step from
sets to the length of the array is `OnceCounts`: a sequence without repetition is
as long as the set of what it names. `Shows` is about the command line above: what
stands on the screen, and what the last list that came through was. `OfferInv` is
about PAPPL: each printer is offered once, with a verified profile and the URI of
the number that was read for it (`Reads`: a descriptor that was read was there),
and what is open is one name at most that fits its buffer.

**Device URIs.** `UriRoundTrip` is about the code of `uri_encode_component`,
`uri_decode_component` and the `sscanf` between them, for every string: each byte
becomes itself or an escape of three, none contains white space (so that
`ScannedWhole`: sscanf takes it whole), the decoder
takes exactly one such piece at a time, and what it has after the i-th is the
first i bytes. It takes two inductions. The induction theorems of the library
have an operator as a parameter, which the provers cannot instantiate;
`Induction` says the same of a *set* of numbers and follows from `WFMin` and
`NatLessThanWellFounded`. What a recursive function computes can only be used
once a function with its equation is known to exist, which `Recursion` gives for
steps along the numbers; `RestExists` and `FlatExists` get the decoder and
`FlattenSeq` from it. From the round trip follow `UrisDiffer` (no two printers
share a URI, so an offer cannot open another printer) and, with `ParsedIsOne`,
the two properties of the scheme. `ParsedIsOne` is about strings that no encoder
wrote: `ScannedIs` shows that sscanf finds one word at most, and `ScannedSkips`
that it finds the same one behind another space.

**Raster callbacks.** `RasterInv` says that the pages of the PBM file are whole
and alike as long as the job has not failed, what the last one has of its rows
while it is open, and which files and which child exist at each system call of
the encoder. `OkMeansOk` needs the order of two of them: `stat` finds a stream
that is not empty also when foo2zjs has failed, and only the exit status, which
`waitpid` gave before, says that it is a whole one (`Encoding`).

Only model-checked is liveness (`CallReturns`, `StopsOnSignal`, `NoticesUnplug`,
`JobEnds`, `TestEnds`, `NoticesEmptyBus`, `Ends`): it rests on fairness, and
fairness on ENABLED, which is out of the prover's reach. Every safety invariant
and every action property of a passing run is also proved, `NoReattachAfterJob` and
`NoUsblpAfterPage` under `Alone`, as their runs check them. Only proved, and in no
run, are the inductive invariants other than `SessionInv`, `CheckTypesCorrect`,
`MainTypesCorrect`, `NeverBeyondArray`, `OnlyUndoReattaches`, the two theorems of
"Success means delivery" and those of `DeviceUriProofs`.

## 6. Plan

What is left is to make proofs shorter: `UsbSessionProofs` and
`TransportWatchProofs` share the walk of `ClaimDevice`, and some of its lemmas
could be stated once for both. Three of the hazards in PROJECT.json have no
property, each with its reason: a foo2zjs that hangs, a `waitpid` that fails
while foo2zjs runs, and a printer replaced by another between two polls.

Not modelled and why: `driver_cb`, `set_media`, `autoadd` and `main` of
`src/pappl_app.c` fill PAPPL's tables once; `src/usb_inspect.c` and
`src/usb_power.c` take no interface, keep nothing between two calls and only
print what they read, so there is no state to relate; `hplp_protocol_name`,
`hplp_usb_error_string`, `print_device` and the log texts are wording.
