# Verification of koha-rfid-go

TLA+ models of koha-rfid-go (`src/`), the TLC runs that check them, and TLAPS
proofs about them. koha-rfid-go connects a 3M 810 RFID reader to the Koha
library system: a Go server owns the serial port and offers `/scan/`, `/secure`
and `/program` over HTTPS; a script in Koha's staff pages polls the server,
submits Koha's forms for the tags it sees, and has the server change the AFI
byte of a tag (DA: in the library, D7: on loan; the door gate reads it).

## 1. Inventory

| Part | Source | State | Operations |
|---|---|---|---|
| serial driver | `internal/rfid/reader.go` | port, `consecutiveFailures`, `mu` | Inventory, InventoryWithReset, ReadAfi, ReadBlocks, WriteAfi, WriteBlocks, reset, Probe |
| reader operations | `internal/rfidops/ops.go` | none of its own (error lists of one call) | Scan, Secure, Program |
| HTTP server | `server.go` | the handlers in progress | `/scan/` (3 tries), `/secure`, `/program` |
| server process | `main.go` | alive or not | start with a probe, exit on SIGINT |
| page script | `koha-rfid.js` | map `rfid_afi` and flag `rfid_no_reader` in localStorage, `rfid_poll_pending`, timers, form fields | `rfid_poll`, `rfid_scan`, `rfid_secure`, sweep, cleanup, buttons, page load |
| mock reader | `mock.go` | tag list, error and timeout counts | the driver's calls, `/mock/*` |
| RFID501 codec | `internal/rfid/rfid501.go` | none | decode, encode, blank |
| scan command | `cmd/scan/main.go` | tags of the previous round | enter and leave events |
| program command | `cmd/program/main.go` | none | write blocks, write AFI |
| Koha plugin | `plugin/.../RFID.pm` | none | inject the script into a list of pages |

How they interact. The page calls the server over HTTP; a handler runs one
operation of `ops.go`; an operation takes `r.mu` and makes driver calls; a driver
call exchanges frames with the reader over the serial line, one response per
command, with no identifier that ties a response to its command. The page and
Koha interact through form submissions and page loads: the script dies with its
page, and only localStorage survives.

What is hard here, and what makes each part correct:

* **Driver.** Frames are lost or damaged; a call that gives up may leave a
  response unread for the next call to take as its own; an acknowledgement says
  nothing about the tag. Correct: every result is true of the tag it is about
  (`WriteAfiVerified`, `WriteBlocksVerified`, `ReadsAreFresh`), because commands
  and responses stay paired (`InSync`); every call returns; a port that died is
  reopened.
* **Operations and handlers.** Requests run concurrently on one serial line, any
  step can fail, the process can be killed. Correct: mutual exclusion through
  every failure path, scans that are snapshots, answers that say exactly what
  reached the tags, a scan that heals a dead port in its own three tries.
* **Page.** Polls, answers, reloads, Koha and the librarian interleave; writes
  wait in localStorage for a later poll. Correct: one submission per book and
  window, no pending AFI lost, pending AFIs written in the end, polling that
  never dies.
* **Mock.** `Lock` and `Unlock` do nothing, so requests and the test that drives
  the mock interleave between any two calls; failure counts are consumed one per
  inventory, by whoever comes. Correct: what a scan says of a tag was true of
  that tag, a tag taken off is gone, scans recover.
* **Codec and commands.** Fields of 4, 12 and 20 bits share bytes, barcodes end
  at 16 bytes, blocks can be missing. The program command makes up to three
  driver calls and can die between or inside them; a blank overwrites three
  blocks only; the scan command compares rounds with failures between them.
  Correct: "Done" means that the tag decodes to what was asked for; a scan never
  shows a mixture; events alternate; a signal ends the loop, and without `-loop`
  so does the first scan that gets through.

`PROJECT.json` lists the components with their status and the hazards, each at
its line.

## 2. Plan

Modelled now, in this order, the most important behaviour first:

1. `TagMemory`, `RfidReader`: tags and the serial driver, frame by frame.
2. `TagReader`: the abstract specification of a driver call, implemented by
   `RfidReader` (`RfidReaderRefinement`).
3. `RfidReaderProofs`: the driver's type invariant and safety as theorems.
4. `RfidServer`: handlers, mutex, Scan, Secure, Program over driver calls that
   are single steps, as `TagReader` permits.
5. `RfidServerProofs`: types, mutual exclusion and snapshots as theorems.
6. `KohaRfid`: the page script with localStorage, Koha and the staff, in one or
   two browser tabs.
7. `MockReader`: the mock under requests and a test that interleave.
8. `Rfid501`: the codec, byte by byte; `Rfid501Proofs`: its round trip.
9. `BlockTags`, `ProgramCommand`, `ScanCommand`, and `Commands`, which composes
   them with the codec; `CommandsProofs`: what "Done" means, and the events.

10. `RfidServerWritesProofs`: the answers of `/secure` and `/program`, and torn
    tags; `ScansHeal` in `RfidServerProofs`.
11. The refinement of `TagReader`, step by step, in `RfidReaderProofs`.
12. `MockReaderProofs`: types, no mix-up, removed tags.
13. What a scan shows of a tag, in `CommandsProofs`.
14. `KohaRfidProofs`: types, polling, one form per window, and the AFI writes of
    check-ins.

Left:

15. The server's driver steps proved to be what `TagReader` allows, a write and
    its verdict being two steps there and one here: today the correspondence is
    by name, `RfidServer` taking the outcomes the contract has.
16. A property for the hazards that have none yet (`PROJECT.json` says why).

Proof modules import only what they prove about: `TagMemoryProofs` (the four
lemmas on what a write does to the memory) is shared by the driver's and the
server's proofs, `RfidServerWritesProofs` goes on from `RfidServerProofs`, and
`Rfid501Proofs` is used by `CommandsProofs`.

## 3. Modules and their correspondence to the code

**TagMemory** is what a tag remembers and what a radio write may do to it. Tags
and the reader are hardware, modelled from how `reader.go` uses them: a write
may or may not take, whatever status comes back, and a block write may stop half
way (`Torn`).

**RfidReader** has one call in progress at a time (`call`, the caller holds
`r.mu`), the serial line in both directions, and the reader behind it. A frame
is intact or damaged (the CRC detects it) and carries what the response really
carries: which command it answers, the tag, the data. Each pair of actions
`Send...` and `Recv...` is one exchange of a driver call (`sendFrame` and
`readResponse`), with the retry loop, the read-back and the failure count of the
code. `ResetPort` is `resetLocked`, which closes, reopens and drains. The
environment moves tags, unplugs and plugs the reader, and uses up a bounded
number of faults. Three kinds of fault exist, chosen by the constant `LinkFaults`:
`crc` (a damaged response), `silent` (no response) and `left` (an error of
`port.Read`, or a length damaged in transit, makes `readResponse` return with
the response still on the line). Lines are modelled at the granularity of
frames. A tag id of the wrong length (`Malformed`) is refused at once by the
code; the theorems cover it, the runs have none.

**TagReader** is the contract: a call in progress ends in one step with a result
that is true of the tags at that moment; a failed write may have changed the tag
it was for. **RfidReaderRefinement** maps the driver to it; frames, retries and
resets are stutters.

**RfidServer** has a record per handler: what the client asked, how far the
operation is, what it has collected. `Arrive`, `Lock`, `Unlock` are the request,
`ops.Lock()` and the deferred `ops.Unlock()` with the answer; `Call` enters a
driver call and the action named after the operation ends it with one of the
outcomes of the contract. That a driver call is one step here is what
`DriverImplementsContract` justifies. `InventoryWithReset` keeps the failure
count and the port, which requests share. `Crash` and `Start` are SIGINT and the
probe at startup. Form keys arrive in the order of a Go map, so a request's ops
are any sequence, and the same tag may be named twice.

**KohaRfid** is the script in the browser tabs of one browser. An action is one
JavaScript callback of the tab the variables stand for; with `Tabs` = 2, `other`
keeps the variables of the second tab, and `SwitchTabs` exchanges the two, so
that the callbacks of both interleave over one localStorage. `optedOut` is
`rfid_no_reader`, which each page reads when it loads. An answer of the server
is one snapshot whichever tab asked, because `ops.Lock` serves requests one by
one (`OtherWaits`). `map` is localStorage's `rfid_afi`, with ages in place of
timestamps: the clock `Tick`s freely, `Stale`, `Dedup` and `Retention` stand for 3 s, 10 s and 1 h, and an age
beyond its limit stays there. `ScanAnswers` is the server's snapshot and the
first `then` of `rfid_poll`; the actions under `Scan` are the branches of
`rfid_scan`, in the code's order of precedence; `Ready` is a page load, which
kills timers and callbacks but not the server's work. `nav` is the form whose
answer the browser waits for: a new submission replaces it. Koha, the staff and
the browser are the environment: Koha handles or refuses a form, the staff move
tags, open pages, switch tabs and press buttons. `InOrder` says that the server
serves requests, and the page hears of the answers, in the order they were sent;
it is FALSE wherever a property holds without it. `Hours` lets an hour pass
without a change to an entry.

**MockReader** has the list of tags, the two failure counts, and a record per
request in progress. Each call of the mock is an action, because its mutex is
held for one call; `TestStep` is one POST of a browser test to `/mock/...`. The
list may hold a number twice (`/mock/set` takes any list; the run's lists have
none, and `RemovedIsGone` is about such lists), and a tag may vanish
between the two reads of a scan: it then reads as D7 with no content, as the code
has it. An op of `/secure` or `/program` cannot fail here, so a request of
several ops is like several requests. `WriteBlocks` changes nothing in the mock:
a browser test of `/program` says nothing of what would be written. `was` is the
history of the list since a scan's inventory.

**Rfid501** is the codec as operators on bytes: `EncodeRFID501` is a function
from block numbers to blocks, `DecodeRFID501` reads what `MakeBlockHexes` hands
on when any set of blocks came back. Fields that Go shifts and masks together
are cut to their width the same way, for any integer.

**BlockTags** is what the terminal commands see of tags: eight blocks, an AFI
byte, one serial port. A read may come back with any of the sets `BlockReads`,
a write that fails may have stopped after any of `Stops` blocks. **ProgramCommand**
and **ScanCommand** are the two `main` functions with the `rfidops` function each
calls, an action per driver call; `Calls` is the sequence of writes a command
line leads to. **Commands** composes them at one reader, one command at a time
having the port (the other's `NewRfidReader` fails and it ends). `label` is the
history a scan is compared with: what each tag was last given, or `Uncertain`
after a command that broke off.

The `MC...` modules give the instances their requests, pages, lists and command
lines.

## 4. Runs

| Run | Shows | Bounds |
|---|---|---|
| `driver` | pairing and truth of every result; `RfidReader` implements `TagReader`; calls return; a replugged port is recovered | 2 tags, 2 AFIs, one content, whole or torn; 2 rounds of writing and 2 of reading back, failure limit 3; 2 damaged responses (`MaxFaults`), unplugging at any time |
| `driver_silent` (violation) | a silent reader is never reset | no fault but silence |
| `driver_desync` (violation) | two unread responses make WriteAfi report success for an untouched tag | fault `left`, two of them |
| `server_writes` | exclusion; exact `/secure`, honest `/program`; torn tags are known | 2 handlers, 2 tags, ops that name a tag twice or are refused, one kill |
| `server_scan` | snapshots; healing; every request is answered | 2 handlers, scans against a writer, link faults, unplugging |
| `page_polling` | polling never dies; one submission per window | one book, returns and main page and the loan page Koha answers with, two poll chains, answers in any order, buttons, misread blocks, refusals |
| `page_tabs` | no tab drops the other's AFI write; one submission per window over both | two tabs, one book, returns and loans page, refusals, misread AFIs, resets |
| `page_live` | a pending AFI is written, and not dropped | a book and a patron card, 3 pages, page and search tab changes |
| `page_forgotten` (violation) | the sweep deletes a checkout's pending AFI | one book |
| `page_unconfirmed` (violation) | the AFI is written before Koha answers | one book |
| `mock` | scans mix up nothing; a removed tag is gone; scans recover | 2 requests at once, `MaxControls` POSTs of the test |
| `commands` | "Done" means done; scans show what was programmed; events alternate; a signal ends the loop, a scan that gets through the one-shot mode | 1 tag, 9 command lines at the boundaries, reads that lose blocks, writes that stop after 2 or 4 blocks (`Stops`), once (`MaxTears`) |

Why the bounds are enough. The driver keeps no state between calls except the
line and the failure count, so two tags (the one a call is about and another it
could be confused with) and as many damaged responses as a loop has rounds show
every kind of confusion. Silence and unread responses have runs of their own, because
with them the promises fail. The server's handlers share the mutex, the tags and the
failure count: two handlers produce every pair of conflicting requests, and a
request with two ops every position of a failure. The page treats tags one at a
time: one book shows the protocol of one entry, a second tag shows the choice
among several. The retry limits of the code (100 rounds, 3 failures) are
constants of the models; the runs use small values, the proofs cover all.
A mock request meets the test and one other request; two handlers and a few
POSTs show every order of two calls around a third. The terminal commands treat
one tag each, and one command has the port: what one leaves on the tag is all
the next one sees, so one tag suffices, with command lines on both sides of each
boundary (16 and 17 bytes, upper and lower case, numbers at and beyond their
width, flags that exclude each other).

In the page's runs the windows keep the order they have in the code: an entry is
stale after 3 s, may be submitted again after 10 s and is dropped after an hour,
`Stale < Dedup < Retention`. `Dedup` is 2 there and not 1, for an entry must have
the time to be stale, swept and seen again while its window is still open, or
`OneSubmitPerWindow` would say nothing about the sweep. An age has no other
influence, so larger values only repeat the same choices.

Two properties of the page hold under a condition that the runs state, and fail
without it. `CheckinIsNotForgotten` needs `InOrder`, one exchange with the server
at a time over both tabs: a late answer of an earlier `/secure` clears the pending
AFI of a newer submission (line 195). `PendingIsWritten` is about a single book:
each poll takes up the first unprocessed book only (line 667), so a book that no
form of the page is for keeps the ones behind it waiting. A patron card may lie
beside it, but not on a page with a patron search: there the card is looked up
every time its window has passed, and nothing in the model forces the clock to go
on between two polls, so the book might wait for ever. `CheckinIsNotForgotten`
also leaves out the staff's own reset of the map, which is meant to forget.

Fairness. In the driver, the goroutine in a call runs on (weak fairness of its
steps), and staff pages keep polling (strong fairness of a new inventory, which
competes with other calls). In the server, a handler's steps are weakly fair and
`Lock` is strongly fair, because `sync.Mutex` hands itself over to a waiter it
has starved. In the page, timers fire, callbacks run, Koha answers, and a
request repeated for ever succeeds in the end (strong fairness of a successful
scan and write). `PendingIsWritten` in addition supposes that the tab stays on
one page from some moment on. Over the mock, requests run on and pages keep
asking for scans (strong fairness, other requests come between); the test's POSTs
are bounded, not fair. The scan command's driver calls return and its sleeps end
(weak fairness of its rounds), whether or not scans succeed: the reader may fail
for ever, so `OneShotEnds` has the case of a command that never gets a scan
through in its conclusion, not in an assumption.

## 5. Findings

Places where the code does something other than a comment or a document says;
each is the counterexample of a run (`findings` in `PROJECT.json`).

* `InventoryWithReset` promises a reset when the reader stops responding; a
  `Read` that times out returns no error, so the call spins and nothing is reset.
* `WriteAfi` promises read-back verification; after two reads that fail with
  their responses unread it verifies against another call's responses.
* The AFI is not "only changed after Koha confirms the operation".
* A pending AFI does not survive the reload when the book is lifted: the
  checkout stores it without a submit time, so the sweep may delete it.

Three more disagreements can be read off a few lines, without any interleaving,
and have no run. The models do what the code does, and no property calls it
correct:

* One failure injected into the mock does not fail one `/scan/`. The fields are
  "remaining /scan/ calls that return error" and "... that hang until timeout"
  (`mock.go:28-29`); the documents say "Next N `/scan/` calls return 500"
  (`docs/mock-rfid.md:66`), "Next 2 /scan/ calls fail" (`:192`), "counters
  decrement on each `/scan/` call and affect only the next N calls" (`:245`),
  "Next /scan/ returns 500" (`docs/e2e/03-mock-control.md:64`). But the mock takes
  one off per inventory (`mock.go:46`, `:51`) and `handleScan` tries three times
  (`server.go:144`): a count of 1 or 2 fails no `/scan/`, a count of 3 fails one
  if no other request takes its share, and the answer is a 504, not a 500.
* An injected timeout returns an error at once (`mock.go:52`); the documents say
  that the call hangs for 30 s (`docs/mock-rfid.md:67`, `:201`).
* `README.md:186` shows `program -afi 218` without a content, to set the AFI only;
  the command ends with "nothing to write" (`cmd/program/main.go:144`).

## 6. Proofs

`RfidReaderProofs` proves, for all values of the constants that satisfy
`TagMemoryAssumption` and `RfidReaderAssumption`: `TypeCorrect`, `LinkStaysPaired`,
`AfiWritesAreVerified`, `BlockWritesAreVerified`, `ReadsTellTheTruth`.

The properties are not inductive: that WriteAfi's verdict is true when it is
given depends on the response it read being the answer to the read-back it had
just sent, and on the tag not having changed in between. The inductive invariant
is the conjunction of the types, `InSync` (what is on the line at each point of a
call: nothing, or one response, damaged or to the command just sent and true of
the tag now) and `TrueResults` (a result is true of the tag too). A driver call in progress is the only writer of tags, so no other action disturbs
it. The proof that a step preserves the invariant has one step per action.
`InSync` holds only without the fault `left`; with it, `driver_desync` is the
counterexample, and the theorems that need it carry that assumption.

`DriverKeepsItsPromises` is the refinement: every behaviour of the driver is one
of `TagReader` (`DriverImplementsContract`). Initial states map to initial
states; the command of a write maps to the contract's attempt to write (`Touch`),
that of an inventory to its look at the field (`Sense`), the response or failure
that ends a call to `Succeed` or `Fail`, and every other frame, retry and reset to
a stutter. A response ends a call as the contract allows only if it is the answer
to the last command and true, which is `InSync`; hence the same assumption about
`left`.

`RfidServerProofs` proves `ServerTypeCorrect`, `OneOwner` (`PortExclusive`) and
`ScansAreSnapshots` (`ScanIsSnapshot`), for any number of handlers, requests,
tags and tries, from `TagMemoryAssumption` and `RfidServerAssumption`. Exclusion
is inductive together with the types and with the shape of a request's ops
(`RequestsOK`): a handler inside an operation is the holder, and every way out of
an operation goes through `Unlock`, or through `Crash`, which takes all handlers
with it. `ScanIsSnapshot` is not inductive: that an item is true when the scan
reports it needs every earlier half-read item to be true all along. `ScansOK`
says it of every scan at every step (what has been read, and the AFI byte read
while the blocks are still to come, agree with the tags now), that a scan which
is not inside an operation has read nothing, and that a scan changes no tag.
Steps of other handlers keep it because a step that changes a tag belongs to the
holder, and by exclusion a scan that has read something is the holder itself.

`ScansHeal` (`ScanHeals`) has the hypothesis `FailLimit <= ScanTries`, which the
code's 3 and 3 satisfy: handleScan makes as many rounds as the driver needs
failures. Its invariant `HealsOK` says of a scan during which the reader stayed
plugged and answered that while the port is down the shared failure count is not
behind the scan's rounds; other requests only add to the count, or reset the
port.

`RfidServerWritesProofs` proves `SecuredAsAnswered` (`SecureIsExact`),
`ProgrammedAsAnswered` (`ProgramIsHonest`) and `TornTagsAreKnown`
(`TornTagsAreSuspect`). What an answer says is built up op by op, so the
invariant `WInv` adds to the one above what holds after the first n ops, compared
with the memory when the request took the mutex: each tag they name has what the
last of them on it wrote, unless that op is among the errors, and no other tag
has changed. A request may name a tag twice, so which op is the last on a tag
moves as n grows; `LastWord` and `Settled` say it without choosing one. A torn
tag is the tag of a failed op of a request that is at work, or suspect already.

`Rfid501Proofs` proves `RoundTrip`: for every tag record with a barcode of at most
16 bytes without a zero byte, and any integers in its number fields, the decoder
gives back what the encoder was given, each number modulo the width of its field.
The argument goes field by field: what a nibble pair, the 12 and 20 bits of
block 5, the two's complement of block 6 and the padded 16 bytes decode to; then
the four blocks of the barcode joined; then the record.

`CommandsProofs` proves `ProgramIsFaithful` (`DoneMeansProgrammed`) for all tags,
command lines, earlier contents, lost blocks and broken-off writes, from
`BlockTagsAssumption`, `ProgramCommandAssumption` (no argument of a process has
a zero byte) and `CommandsAssumption` (the barcodes on the tags at the start are
of at most 16 bytes without a zero byte, as those the program command accepts). The property speaks of the moment after
the last call; the inductive invariant `IInv` says for each point of the calls
what is on the tag already (`Stage`): nothing yet; the whole image and some AFI;
the image and the AFI asked for. Only the program command changes tags, so the
scan command's actions keep it. `RoundTrip` turns the image into the item; a blank
and a 3M blank are decoded by hand. `EventsAreConsistent` (`EventsAlternate`)
rests on an invariant of one line: what the events have announced is what the
loop remembers.

`TypeCorrect` and `ScansShowWhatWasProgrammed` (`ShownIsProgrammed`) need a second
invariant, `SInv`: a command that is writing has the port, so a scan never reads
behind its back; a tag that no command is writing, and that none has left half
written, decodes to its label; what the current scan has collected is, for each
tag, the whole barcode, block 0 or nothing. The last is a lemma about the codec:
a read that lost a block of the barcode decodes to one of these three.

`MockReaderProofs` proves, for any number of requests and any POSTs of a test:
`TypeCorrect`; `ScansDoNotMixUp` (`NoMixUp`), with the invariant that what a
request has read so far was in the history of the list, and what it is about to
combine belongs to the number it asked for; `RemovedTagsAreGone`
(`RemovedIsGone`), under the hypothesis that no list the test posts holds a number
twice: `/mock/remove` takes the first place only.

`KohaRfidProofs` proves, for any tags, pages and staff, one tab or two, answers
in any order, misreads and refusals, from `KohaRfidAssumption` and
`NoValAssumption` (the null value is none of the records and numbers):

* `TypeCorrect`, and `PollingNeverStops` (`PollingGoesOn`). The invariant
  `ScriptInv` of a tab relates timers, scans in flight and `rfid_poll_pending`:
  the flag is set only for a scan that was asked for, and unless the librarian
  opted out a timer or a scan is left. It is kept for the tab that runs and for
  the other one.
* `OneFormPerWindow` (`OneSubmitPerWindow`). The property compares the map with
  the history of submissions; the invariant `EntryInv` says that while the window
  of a barcode is open its entry exists, with a submit time not older than the
  window, so that the sweep spares it; that the entry is not older than its
  submit time, so that the hourly cleanup does too (`Dedup < Retention`); and that
  the entry of what is not a book is a patron's, without which a card would be
  looked up again.
* `CheckinsAreNotForgotten` (`CheckinIsNotForgotten`), under `InOrder`. Of a step
  that gives up a pending AFI inside a window, the proof for each callback leaves
  two: an answer that shows the tag with that AFI, and a `/secure` that was
  answered. `OneAtATime` says that these tell the truth: over both tabs at most
  one answer or one write is on its way, an answer shows what the tags still
  have, and a write is the pending one, which the tag has once it is done.
  Without `InOrder` an older write's answer clears a newer pending AFI (section 4).

The runs and the theorems fit together: TLC found each invariant to hold on the
instances before it was proved, and evaluates every `ASSUME`.

Only model-checked: liveness, which fairness and so ENABLED enter
(`EveryRequestIsAnswered`, `CallReturns`, `PortRecovers`, `PendingIsWritten`,
`ScansRecover`, `SignalEndsScan`, `OneShotEnds`). Every safety property and the refinement are
proved, the latter and three of the driver's without the fault `left`, as said.

## 7. Not modelled

* TLS and certificates, JSON, the checks of method and origin: they refuse a
  request before it reaches the reader.
* The `-scan` mode of the server, and `Probe` beyond its place at the start.
* Logging, the CSV log of the scan command (nothing reads it back), the popup's
  looks, the storage version check.
* Leftovers on the serial line at the start: the driver's `Init` has an empty line,
  while `NewRfidReader` and `resetLocked` drain what fits in their reads.
* The moment in which a reset inside the scan command has the port closed: no other
  command takes it then.
* Input forms of the codec that no caller uses, and the names of item types.
* `strings.ToUpper` beyond ASCII.
* The Koha plugin, which keeps no state, and the shell scripts.
