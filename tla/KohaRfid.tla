------------------------------ MODULE KohaRfid ------------------------------
(***************************************************************************)
(* The script koha-rfid.js in a librarian's browser tabs: it polls /scan/, *)
(* fills and submits Koha's forms for the tags it sees, and asks the       *)
(* server (/secure) to change the AFI byte once a form is submitted.  What *)
(* must outlive a page is in localStorage, which the tabs share: the map   *)
(* `rfid_afi' and the flag `rfid_no_reader'.                               *)
(*                                                                         *)
(* JavaScript runs one callback at a time, so an action is one callback: a *)
(* timer that fires, an answer that arrives, a click, a page that loads.   *)
(* The server, Koha, the tags and the staff run in between, and so do the  *)
(* callbacks of a second tab: the variables of a page are those of the tab *)
(* that runs, and `other' keeps them for the tab that does not.            *)
(*                                                                         *)
(* Time is a clock that ticks freely; localStorage keeps the ages of the   *)
(* timestamps, and an age beyond every limit of the code stays there.      *)
(***************************************************************************)
EXTENDS Integers, FiniteSets

CONSTANTS
  Books,      \* barcodes 130..., each on one tag
  Cards,      \* barcodes of patron cards
  DA, D7,     \* AFI: secured (in the library), unsecured (on loan)
  Patron,     \* the sec of a map entry for a patron card
  NoVal,      \* null, an empty string or a missing entry
  Garbled,    \* the content /scan/ shows for blocks that came back short
  Empty,      \* the content /scan/ shows for blocks it could not read
  Pages,      \* the pages of Koha staff may open
  Staff,      \* what staff do: "move" tags, "open", "tab", "buttons", "reset"
  Refuses,    \* operations Koha may refuse
  BadReads,   \* which reads of a scan may fail: "afi", "blocks"
  InOrder,    \* are requests served and answered in the order they were sent?
  Stale,      \* a tag unseen for longer than this has left (3 s)
  Dedup,      \* RFID_DEDUP_MS (10 s)
  Retention,  \* an entry unchanged for longer than this is dropped (1 hour)
  Hours,      \* may an hour pass without a change to an entry?
  Tabs,       \* browser tabs with the script, 1 or 2
  Chains,     \* bound of the model: poll timers and scans in flight, per tab
  Writes      \* bound of the model: /secure requests in flight, per tab

Tags == Books \cup Cards
Keys == Tags \cup {Garbled}

\* path: "returns" and "renew" for returns.pl and renew.pl, "circ" for
\* circulation.pl and circulation-home.pl, "other" for mainpage.pl.
\* tab: the active search tab; patron: is a patron selected?
Page == [path : {"returns", "renew", "circ", "other"},
         tab : {"in", "out", "renew", "none"}, patron : BOOLEAN]

ASSUME KohaRfidAssumption ==
  /\ Books \cap Cards = {} /\ DA # D7
  /\ {Garbled, Empty, NoVal} \cap Tags = {} /\ Garbled # NoVal /\ Empty \notin {Garbled, NoVal}
  /\ {DA, D7, Patron} \cap {NoVal} = {} /\ Patron \notin {DA, D7}
  /\ Pages \subseteq Page /\ InOrder \in BOOLEAN /\ Hours \in BOOLEAN
  /\ \A p \in Pages : p.path = "circ" => p.tab # "none"
  /\ Stale \in Nat /\ Dedup \in Nat /\ Retention \in Nat
  /\ Stale < Dedup /\ Dedup < Retention
  /\ Tabs \in {1, 2} /\ Chains \in Nat \ {0} /\ Writes \in Nat \ {0}

VARIABLES
  koha,         \* Koha's books: "in" or "loan"
  afi,          \* the AFI byte of each book's tag
  field,        \* tags on the reader
  map,          \* localStorage rfid_afi: an entry or NoVal per barcode
  noReader,     \* localStorage rfid_no_reader
  page,         \* the document in the tab
  typed,        \* values of its barcode fields
  nav,          \* the form whose answer the browser waits for, or NoVal
  optedOut,     \* the variable rfid_no_reader
  pollPending,  \* rfid_poll_pending
  timers,       \* timers set to rfid_poll
  shown,        \* buttons in the popup: "none", "error" (retry, no reader), "disabled"
  scans,        \* /scan/ requests: [at, tags], or NoVal
  secures,      \* /secure requests: a record or NoVal
  other,        \* the other tab, a TabState, or NoVal
  checked       \* history: age of the last check-in or patron form per barcode

world   == <<koha, afi, field>>
script  == <<optedOut, pollPending, timers, shown, scans>>
vars    == <<world, map, noReader, page, typed, nav, script, secures, other, checked>>

(***************************************************************************)
(* The map rfid_afi.                                                       *)
(***************************************************************************)
Age(limit) == 0 .. limit + 1

Entry == [sec : {DA, D7, Patron, NoVal}, pending : {DA, D7, NoVal},
          submit : Age(Dedup) \cup {NoVal}, time : Age(Retention), seen : Age(Stale)]

\* What is in flight: a form, scans and the tags they show, AFI writes.
Form          == [op : {"checkin", "checkout", "renew", "patron"}, what : Keys,
                  at : {"sent", "handled"}]
Item          == [sid : Tags, content : Keys \cup {Empty}, security : {DA, D7, NoVal}]
ScanRequest   == [at : {"asked", "answered"}, tags : SUBSET Item]
SecureRequest == [book : Books, target : {DA, D7}, at : {"sent", "done"}, live : BOOLEAN]

Slot      == 1 .. Chains
WriteSlot == 1 .. Writes

\* What each tab has of its own.
TabState ==
  [page : Page, typed : [{"in", "out", "renew"} -> Books \cup {NoVal}],
   nav : Form \cup {NoVal}, optedOut : BOOLEAN, pollPending : BOOLEAN,
   timers : 0 .. Chains, shown : {"none", "error", "disabled"},
   scans : [Slot -> ScanRequest \cup {NoVal}],
   secures : [WriteSlot -> SecureRequest \cup {NoVal}]]

\* Nothing that there is looks like nothing.
ASSUME NoValAssumption ==
  /\ NoVal \notin Int /\ NoVal \notin Entry /\ NoVal \notin Form
  /\ NoVal \notin ScanRequest /\ NoVal \notin SecureRequest
  /\ NoVal \notin TabState

\* rfid_afi_set keeps the submit time and the last_seen of the entry.
AfiSet(m, k, sec, pending) ==
  [m EXCEPT ![k] =
     [sec |-> sec, pending |-> pending, time |-> 0,
      submit |-> IF m[k] = NoVal THEN NoVal ELSE m[k].submit,
      seen   |-> IF m[k] = NoVal THEN 0 ELSE m[k].seen]]

SetSubmit(m, k) == [m EXCEPT ![k].submit = 0]

LastSeen(m, S) ==
  [k \in Keys |-> IF k \in S /\ m[k] # NoVal THEN [m[k] EXCEPT !.seen = 0] ELSE m[k]]

ClearPending(m, k) ==
  IF m[k] = NoVal THEN m ELSE [m EXCEPT ![k].pending = NoVal, ![k].time = 0]

Unprotected(e) == FALSE   \* mutant of Protected: the sweep ignores the submit time
Protected(e)   == e.submit # NoVal /\ e.submit < Dedup

\* The sweep spares visible tags too: their last_seen has just been set.
SweepStale(m) ==
  [k \in Keys |-> IF m[k] # NoVal /\ m[k].seen > Stale /\ ~Protected(m[k])
                  THEN NoVal ELSE m[k]]

Cleanup(m) ==
  [k \in Keys |-> IF m[k] # NoVal /\ m[k].time > Retention THEN NoVal ELSE m[k]]

NoEntries == [k \in Keys |-> NoVal]

Older(a, limit) == IF a \in 0 .. limit THEN a + 1 ELSE a

(***************************************************************************)
(* A page loads: $(document).ready.  The callbacks of the old page die     *)
(* with it; the server goes on with the requests it has.                   *)
(***************************************************************************)
Asked     == [at |-> "asked", tags |-> {}]
NoScan    == [s \in Slot |-> NoVal]
Blank     == [f \in {"in", "out", "renew"} |-> NoVal]

Ready(p, m) ==
  /\ page' = p /\ map' = Cleanup(m)
  /\ typed' = Blank /\ nav' = NoVal
  /\ timers' = 0 /\ shown' = "none"
  /\ optedOut' = noReader /\ pollPending' = ~noReader
  /\ scans' = IF noReader THEN NoScan ELSE [NoScan EXCEPT ![1] = Asked]
  /\ secures' = [w \in WriteSlot |->
       IF secures[w] = NoVal THEN NoVal
       ELSE IF secures[w].at = "done" THEN NoVal
       ELSE [secures[w] EXCEPT !.live = FALSE]]

ThisTab ==
  [page |-> page, typed |-> typed, nav |-> nav, optedOut |-> optedOut,
   pollPending |-> pollPending, timers |-> timers, shown |-> shown, scans |-> scans, secures |-> secures]

AfiFor(state) == IF state = "in" THEN DA ELSE D7

Init ==
  /\ koha \in [Books -> {"in", "loan"}]
  /\ afi = [b \in Books |-> AfiFor(koha[b])]
  /\ field \in SUBSET Tags
  /\ map = NoEntries /\ noReader = FALSE
  /\ page \in Pages /\ typed = Blank /\ nav = NoVal
  /\ optedOut = FALSE /\ pollPending = TRUE /\ timers = 0 /\ shown = "none"
  /\ scans = [NoScan EXCEPT ![1] = Asked]
  /\ secures = [w \in WriteSlot |-> NoVal]
  /\ IF Tabs = 1 THEN other = NoVal ELSE \E p \in Pages : other = [ThisTab EXCEPT !.page = p]
  /\ checked = [k \in Keys |-> Dedup + 1]

(***************************************************************************)
(* Polling.                                                                *)
(***************************************************************************)
\* The server is neither answering the other tab nor writing for it.
OtherWaits ==
  other # NoVal =>
    /\ \A s \in Slot : other.scans[s] \in {NoVal, Asked}
    /\ \A w \in WriteSlot : other.secures[w] = NoVal

InFlight == {s \in Slot : scans[s] # NoVal}
Answered == {s \in InFlight : scans[s].at = "answered"}

\* rfid_poll does nothing while a scan is pending or the librarian opted out.
Poll(off) ==
  IF pollPending \/ off
  THEN UNCHANGED <<pollPending, scans>>
  ELSE /\ pollPending' = TRUE
       /\ \E s \in Slot \ InFlight : scans' = [scans EXCEPT ![s] = Asked]

TimerFires ==
  /\ timers > 0 /\ timers' = timers - 1
  /\ Poll(optedOut)
  /\ UNCHANGED <<world, map, noReader, optedOut, page, typed, nav, shown, secures, checked>>

\* What a tag may read as.
Readings(t) ==
  [sid : {t},
   content : {t} \cup (IF "blocks" \in BadReads THEN {Garbled, Empty} ELSE {}),
   security : {IF t \in Books THEN afi[t] ELSE DA}
                \cup (IF "afi" \in BadReads THEN {NoVal} ELSE {})]

\* The server reads the tags, and the first `then' of rfid_poll runs.
ScanAnswers(s) ==
  /\ scans[s] = Asked
  /\ InOrder => Answered = {} /\ OtherWaits /\ \A w \in WriteSlot : secures[w] = NoVal
  /\ \E read \in [field -> UNION {Readings(t) : t \in field}] :
       /\ \A t \in field : read[t] \in Readings(t)
       /\ scans' = [scans EXCEPT ![s] = [at |-> "answered", tags |-> {read[t] : t \in field}]]
  /\ pollPending' = FALSE
  /\ UNCHANGED <<world, map, noReader, optedOut, page, typed, nav, timers, shown, secures,
                 checked>>

StillPending == pollPending' = pollPending   \* mutant of PollOver
PollOver     == pollPending' = FALSE

\* 504, a broken body, the 15 s timeout: the `catch' of rfid_poll.
ScanFails(s) ==
  /\ s \in InFlight /\ scans' = [scans EXCEPT ![s] = NoVal]
  /\ PollOver
  /\ timers' = timers + 1 /\ shown' = "error"
  /\ UNCHANGED <<world, map, noReader, optedOut, page, typed, nav, secures, checked>>

(***************************************************************************)
(* rfid_scan: what the script does with the tags of one answer.            *)
(***************************************************************************)
IsBook(x)   == x.content \in Books
IsCard(x)   == x.content \in Cards \cup {Garbled}
CheckoutTab == page.tab = "out" \/ (page.path = "circ" /\ page.tab # "in")

Pending(k) == IF map[k] = NoVal THEN NoVal ELSE map[k].pending

Unprocessed(x) ==
  map[x.content] = NoVal \/ map[x.content].sec # x.security \/ Pending(x.content) # NoVal

\* The tag an answer is about: the only one, a patron card when a patron is
\* wanted, or the first unprocessed book.  The order of tags is the reader's.
Chosen(tags) ==
  LET cards == {x \in tags : IsCard(x)}
  IN  IF Cardinality(tags) = 1 THEN tags
      ELSE IF CheckoutTab /\ ~page.patron /\ cards # {} THEN cards
      ELSE {x \in tags : IsBook(x) /\ Unprocessed(x)}

Seen(s)  == LastSeen(map, {x.content : x \in scans[s].tags})

ScheduleTwice == timers' = timers + 2   \* mutant of Schedule: a missing return
Schedule      == timers' = timers + 1

\* Every way through rfid_scan ends with a timer for the next poll.
Done(s) ==
  /\ scans' = [scans EXCEPT ![s] = NoVal]
  /\ pollPending' = FALSE /\ Schedule
  /\ UNCHANGED <<world, noReader, optedOut, page>>

Idly == UNCHANGED <<typed, nav, secures, checked>>

\* No tag, an empty tag, or several tags that are all processed.
NothingToDo(s) ==
  LET chosen == Chosen(scans[s].tags) IN
  /\ chosen = {} \/ \E x \in chosen : x.content = Empty
  /\ map' = SweepStale(Seen(s))
  /\ shown' = "none" /\ Done(s) /\ Idly

\* Step 1: a pending AFI is written before anything else, and settled when
\* the tag shows it.
WritePending(s, x) ==
  /\ IsBook(x) /\ Pending(x.content) \notin {NoVal, x.security}
  /\ \E w \in WriteSlot :
       /\ secures[w] = NoVal
       /\ secures' = [secures EXCEPT ![w] =
            [book |-> x.content, target |-> Pending(x.content), at |-> "sent", live |-> TRUE]]
  /\ map' = Seen(s)
  /\ shown' = "none" /\ Done(s) /\ UNCHANGED <<typed, nav, checked>>

PendingWritten(s, x) ==
  /\ IsBook(x) /\ Pending(x.content) = x.security /\ x.security # NoVal
  /\ map' = AfiSet(Seen(s), x.content, x.security, NoVal)
  /\ UNCHANGED shown /\ Done(s) /\ Idly

\* Step 2: outside check-in and renewal, an unchanged AFI means no new event.
Unchanged(x) ==
  /\ map[x.content] # NoVal /\ map[x.content].sec = x.security
  /\ page.path \notin {"returns", "renew"} /\ page.tab \notin {"in", "renew"}

Skip(s, x) ==
  /\ IsBook(x) /\ Pending(x.content) = NoVal /\ Unchanged(x)
  /\ map' = Seen(s)
  /\ UNCHANGED shown /\ Done(s) /\ Idly

Fresh(x) == IsBook(x) /\ Pending(x.content) = NoVal /\ ~Unchanged(x)

\* Steps 3 to 5: the form a fresh book is for, and its barcode field.
CheckinPage == page.path = "returns" \/ (page.path = "circ" /\ page.tab = "in")
RenewPage   == page.path = "renew" \/ (page.path = "circ" /\ page.tab = "renew")
LoanPage    == page.path = "circ" /\ page.tab = "out"
Lately(e)   == e # NoVal /\ e.submit # NoVal /\ e.submit <= Dedup

Submit(op, f, k) ==
  /\ typed[f] # k /\ typed' = [typed EXCEPT ![f] = k]
  /\ nav' = [op |-> op, what |-> k, at |-> "sent"]

Checkin(s, x) ==
  /\ Fresh(x) /\ CheckinPage /\ ~Lately(map[x.content])
  /\ Submit("checkin", "in", x.content)
  /\ map' = SetSubmit(AfiSet(Seen(s), x.content, x.security,
                             IF x.security = D7 THEN DA ELSE NoVal), x.content)
  /\ checked' = [checked EXCEPT ![x.content] = 0]
  /\ shown' = "none" /\ Done(s) /\ UNCHANGED secures

Renew(s, x) ==
  /\ Fresh(x) /\ RenewPage /\ x.security = D7
  /\ Submit("renew", "renew", x.content)
  /\ map' = AfiSet(Seen(s), x.content, x.security, NoVal)
  /\ shown' = "none" /\ Done(s) /\ UNCHANGED <<secures, checked>>

Checkout(s, x) ==
  /\ Fresh(x) /\ LoanPage /\ page.patron /\ x.security = DA
  /\ Submit("checkout", "out", x.content)
  /\ map' = AfiSet(Seen(s), x.content, x.security, D7)
  /\ shown' = "none" /\ Done(s) /\ UNCHANGED <<secures, checked>>

\* No form for this book: its AFI goes into the map.
Noted(x) ==
  \/ page.path = "renew" /\ x.security # D7
  \/ page.path = "returns" /\ Lately(map[x.content])
  \/ LoanPage /\ x.security # DA
  \/ page.path = "other"

Note(s, x) ==
  /\ Fresh(x) /\ Noted(x)
  /\ LET noted == AfiSet(Seen(s), x.content, x.security, NoVal)
     IN  map' = IF page.path = "other" THEN SweepStale(noted) ELSE noted
  /\ shown' = "none" /\ Done(s) /\ Idly

\* No form, or its field already holds the barcode: only the label changes.
Labelled(x) ==
  \/ CheckinPage /\ ~Lately(map[x.content]) /\ typed["in"] = x.content
  \/ RenewPage /\ x.security = D7 /\ typed["renew"] = x.content
  \/ LoanPage /\ x.security = DA /\ (~page.patron \/ typed["out"] = x.content)
  \/ page.path = "circ" /\ page.tab = "in" /\ Lately(map[x.content])
  \/ page.path = "circ" /\ page.tab = "renew" /\ x.security # D7

Label(s, x) ==
  /\ Fresh(x) /\ Labelled(x)
  /\ map' = Seen(s)
  /\ shown' = "none" /\ Done(s) /\ Idly

\* A patron card, or whatever does not begin with 130.
PatronCard(s, x) ==
  LET k      == x.content
      lately == Lately(map[k]) /\ map[k].sec = Patron
  IN
  /\ IsCard(x)
  /\ map' = SweepStale(IF lately THEN Seen(s)
                       ELSE SetSubmit(AfiSet(Seen(s), k, Patron, NoVal), k))
  /\ IF lately \/ page.tab # "out" THEN UNCHANGED <<nav, checked>>
     ELSE /\ nav' = [op |-> "patron", what |-> k, at |-> "sent"]
          /\ checked' = [checked EXCEPT ![k] = 0]
  /\ shown' = "none" /\ Done(s) /\ UNCHANGED <<typed, secures>>

Scan(s) ==
  \/ NothingToDo(s)
  \/ \E x \in Chosen(scans[s].tags) :
       \/ WritePending(s, x) \/ PendingWritten(s, x) \/ Skip(s, x)
       \/ Checkin(s, x) \/ Renew(s, x) \/ Checkout(s, x)
       \/ Note(s, x) \/ Label(s, x) \/ PatronCard(s, x)

(***************************************************************************)
(* /secure: the server writes the tag; the script hears of it, or not.     *)
(***************************************************************************)
Wanted(w) == secures[w] # NoVal /\ secures[w].at = "sent"

WriteSucceeds(w) ==
  /\ Wanted(w) /\ secures[w].book \in field
  /\ afi' = [afi EXCEPT ![secures[w].book] = secures[w].target]
  /\ secures' = [secures EXCEPT ![w] = IF @.live THEN [@ EXCEPT !.at = "done"] ELSE NoVal]
  /\ UNCHANGED <<koha, field, map, noReader, page, typed, nav, script, checked>>

DropPending(w) == map' = ClearPending(map, secures[w].book)   \* mutant of KeepPending
KeepPending(w) == map' = map

\* A failed write may have reached the tag.  The script leaves all to the
\* next scan.
WriteFails(w) ==
  /\ Wanted(w) /\ KeepPending(w)
  /\ \/ UNCHANGED afi
     \/ secures[w].book \in field /\ afi' = [afi EXCEPT ![secures[w].book] = secures[w].target]
  /\ secures' = [secures EXCEPT ![w] = NoVal]
  /\ UNCHANGED <<koha, field, noReader, page, typed, nav, script, checked>>

WriteAnswered(w) ==
  /\ secures[w] # NoVal /\ secures[w].at = "done"
  /\ map' = ClearPending(map, secures[w].book)
  /\ secures' = [secures EXCEPT ![w] = NoVal]
  /\ UNCHANGED <<world, noReader, page, typed, nav, script, checked>>

\* The 15 s timeout of rfid_secure: nobody listens to the answer any more.
WriteAborted(w) ==
  /\ secures[w] # NoVal /\ secures[w].live
  /\ secures' = [secures EXCEPT ![w] =
                   IF @.at = "done" THEN NoVal ELSE [@ EXCEPT !.live = FALSE]]
  /\ UNCHANGED <<world, map, noReader, page, typed, nav, script, checked>>

(***************************************************************************)
(* Koha, the staff and the clock.                                          *)
(***************************************************************************)
KohaHandles ==
  /\ nav # NoVal /\ nav.at = "sent" /\ nav' = [nav EXCEPT !.at = "handled"]
  /\ \/ nav.op = "checkin" /\ koha' = [koha EXCEPT ![nav.what] = "in"]
     \/ nav.op = "checkout" /\ koha' = [koha EXCEPT ![nav.what] = "loan"]
     \/ nav.op \in {"renew", "patron"} \cup Refuses /\ UNCHANGED koha
  /\ UNCHANGED <<afi, field, map, noReader, page, typed, script, secures, checked>>

\* The page Koha answers a form with.
Landings(op) ==
  CASE op = "checkin"  -> {[path |-> "returns", tab |-> "none", patron |-> FALSE]}
    [] op = "renew"    -> {[path |-> "renew", tab |-> "none", patron |-> FALSE]}
    [] op = "checkout" -> {[path |-> "circ", tab |-> "out", patron |-> TRUE]}
    [] op = "patron"   -> {[path |-> "circ", tab |-> "out", patron |-> p] :
                             p \in {TRUE} \cup (IF "patron" \in Refuses THEN {FALSE} ELSE {})}

KohaAnswers ==
  /\ nav # NoVal /\ nav.at = "handled"
  /\ \E p \in Landings(nav.op) : Ready(p, map)
  /\ UNCHANGED <<world, noReader, checked>>

StaffOpens ==
  /\ "open" \in Staff
  /\ \E p \in Pages : Ready(p, map)
  /\ UNCHANGED <<world, noReader, checked>>

StaffSwitchesTab ==
  /\ "tab" \in Staff /\ page.path \in {"circ", "other"}
  /\ \E t \in {"in", "out", "renew"} \ {page.tab} : page' = [page EXCEPT !.tab = t]
  /\ UNCHANGED <<world, map, noReader, typed, nav, script, secures, checked>>

StaffMovesTags ==
  /\ "move" \in Staff
  /\ \E f \in SUBSET Tags \ {field} : field' = f
  /\ UNCHANGED <<koha, afi, map, noReader, page, typed, nav, script, secures, checked>>

\* "retry" after an error, and "enable" after "no reader".
StaffRetries ==
  /\ "buttons" \in Staff /\ shown \in {"error", "disabled"}
  /\ timers + Cardinality(InFlight) < Chains
  /\ noReader' = FALSE /\ optedOut' = FALSE /\ Poll(FALSE)
  /\ UNCHANGED <<world, map, page, typed, nav, timers, shown, secures, checked>>

StaffOptsOut ==
  /\ "buttons" \in Staff /\ shown = "error"
  /\ noReader' = TRUE /\ optedOut' = TRUE /\ shown' = "disabled"
  /\ UNCHANGED <<world, map, page, typed, nav, pollPending, timers, scans, secures, checked>>

StaffResets ==
  /\ "reset" \in Staff
  /\ map' = NoEntries /\ checked' = [k \in Keys |-> Dedup + 1]
  /\ UNCHANGED <<world, noReader, page, typed, nav, script, secures>>

Tick ==
  /\ map' = [k \in Keys |-> IF map[k] = NoVal THEN NoVal ELSE
       [map[k] EXCEPT !.submit = Older(@, Dedup), !.seen = Older(@, Stale),
                      !.time = IF Hours THEN Older(@, Retention) ELSE @]]
  /\ checked' = [k \in Keys |-> Older(checked[k], Dedup)]
  /\ UNCHANGED <<world, noReader, page, typed, nav, script, secures>>

-----------------------------------------------------------------------------
\* The browser runs callbacks of the other tab.
SwitchTabs ==
  /\ other # NoVal /\ other' = ThisTab
  /\ page' = other.page /\ typed' = other.typed /\ nav' = other.nav
  /\ optedOut' = other.optedOut /\ pollPending' = other.pollPending /\ timers' = other.timers
  /\ shown' = other.shown /\ scans' = other.scans /\ secures' = other.secures
  /\ UNCHANGED <<world, map, noReader, checked>>

Callback ==
  \/ TimerFires
  \/ \E s \in Slot : ScanAnswers(s) \/ ScanFails(s)
  \/ \E s \in Answered : Scan(s)
  \/ \E w \in WriteSlot :
       WriteSucceeds(w) \/ WriteFails(w) \/ WriteAnswered(w) \/ WriteAborted(w)
  \/ KohaHandles \/ KohaAnswers
  \/ StaffOpens \/ StaffSwitchesTab \/ StaffMovesTags
  \/ StaffRetries \/ StaffOptsOut \/ StaffResets
  \/ Tick

Next == (Callback /\ UNCHANGED other) \/ SwitchTabs

Spec == Init /\ [][Next]_vars

\* JavaScript callbacks run to their end, timers fire, requests are answered
\* or time out, and the reader and Koha answer one that is repeated for ever.
\* With two tabs it would also have to say that both of them run.
Here(A) == A /\ UNCHANGED other

FairSpec ==
  /\ Spec
  /\ WF_vars(Here(TimerFires)) /\ WF_vars(Here(KohaHandles)) /\ WF_vars(Here(KohaAnswers))
  /\ \A s \in Slot : SF_vars(Here(ScanAnswers(s)))
  /\ SF_vars(Here(\E s \in Answered : Scan(s)))
  /\ \A w \in WriteSlot : SF_vars(Here(WriteSucceeds(w))) /\ WF_vars(Here(WriteAnswered(w)))

-----------------------------------------------------------------------------
TypeOK ==
  /\ koha \in [Books -> {"in", "loan"}] /\ afi \in [Books -> {DA, D7}]
  /\ field \in SUBSET Tags /\ noReader \in BOOLEAN
  /\ map \in [Keys -> Entry \cup {NoVal}]
  /\ ThisTab \in TabState /\ other \in TabState \cup {NoVal}
  /\ timers + Cardinality(InFlight) <= Chains
  /\ checked \in [Keys -> Age(Dedup)]

\* Polling goes on, whatever fails and whichever buttons are pressed, until
\* the librarian opts out: the flag rfid_poll_pending is only ever set for a
\* request in flight, and a poll that does nothing leaves another to come.
PollingGoesOn ==
  /\ pollPending => \E s \in Slot : scans[s] = Asked
  /\ ~optedOut => timers > 0 \/ InFlight # {}

\* koha-rfid.js:530 and :630: a book is checked in, and a patron looked up,
\* only once per 10-second window, by whichever tab; the submit time survives
\* reloads, sweeps, AFI writes and other pages.
OneSubmitPerWindow ==
  [][\A k \in Keys, op \in {"checkin", "patron"} :
       nav' # nav /\ nav' = [op |-> op, what |-> k, at |-> "sent"] /\ ~SwitchTabs
         => checked[k] >= Dedup]_vars

Forgotten(b) == Pending(b) # NoVal /\ Pending(b)' # Pending(b)

\* The AFI write of a check-in is not given up while the 10 s of its window
\* last, wherever the tag is and whatever fails, before the tag has it; only
\* the reset button of the popup discards it.
CheckinIsNotForgotten ==
  [][\A b \in Books :
       Forgotten(b) /\ checked[b] < Dedup => afi[b] = Pending(b) \/ StaffResets]_vars

\* koha-workflow.md:127: the pending entry survives the reload, so the AFI
\* write can be completed after Koha confirms the operation.
PendingSurvives ==
  [][\A b \in Books : Forgotten(b) => afi[b] = Pending(b)]_vars

\* koha-workflow.md:7: the AFI is only changed after Koha confirms the
\* operation.
AfiFollowsKoha ==
  [][\A b \in Books : afi'[b] # afi[b] => afi'[b] = AfiFor(koha[b])]_vars

\* koha-rfid.js:198: a write that failed is retried by the next scan.  Once
\* the tab stays on one page, a pending AFI is written, whatever failed before
\* (for a single book that stays on the reader: see the README).
PendingIsWritten ==
  <>[][page' = page]_vars =>
    \A b \in Books, v \in {DA, D7} : (Pending(b) = v) ~> (afi[b] = v)
=============================================================================
