----------------------------- MODULE MockReader -----------------------------
(***************************************************************************)
(* The reader of the browser tests (mock.go): a list of tags and two       *)
(* counts of failures to come, behind a mutex taken for one call at a      *)
(* time, and the /mock/ endpoints a test drives it by.  Its Lock and       *)
(* Unlock do nothing, so that the calls of /scan/, /secure and /program    *)
(* (server.go, ops.go) and of the test interleave freely.                  *)
(***************************************************************************)
EXTENDS Integers, Sequences, FiniteSets

CONSTANTS
  Sids,         \* serial numbers of 16 characters
  Contents,     \* barcodes, Empty among them
  Empty,        \* the content, or the security, that a test leaves out
  Secure,       \* the AFI byte DA
  Unsecure,     \* the AFI byte D7
  Malformed,    \* a security that is not one hex byte
  Posts,        \* the tags a test may POST to /mock/tag
  Inventories,  \* the lists a test may POST to /mock/set
  Counts,       \* the counts a test may POST to /mock/error and /mock/timeout
  Ops,          \* the ops of /secure and /program requests
  Handlers,     \* slots for requests in progress
  ScanTries,    \* rounds of handleScan: 3
  MaxControls   \* bound of the model: POSTs of the test

Afis    == {Secure, Unsecure}
MockTag == [sid : Sids, content : Contents, security : Afis \cup {Empty, Malformed}]
Op      == [sid : Sids, afi : Afis]
NoOp    == [sid |-> Empty, afi |-> Empty]

ASSUME MockReaderAssumption ==
  /\ Empty \in Contents /\ Contents \cap {Secure, Unsecure, Malformed} = {}
  /\ Posts \subseteq MockTag /\ Inventories \subseteq Seq(MockTag)
  /\ Ops \subseteq Op /\ Counts \subseteq Nat /\ ScanTries \in Nat \ {0} /\ MaxControls \in Nat

VARIABLES
  tags,          \* state.tags
  errorCount, timeoutCount,
  req,           \* the request of each handler
  was,           \* history: the lists of tags since the inventory of a scan
  controls       \* POSTs the test has made

counts == <<errorCount, timeoutCount>>
vars   == <<tags, counts, req, was, controls>>

Idle == [at |-> "idle", try |-> 1, todo |-> <<>>, sec |-> Empty, items |-> {}, op |-> NoOp]

Init ==
  /\ tags = <<>> /\ errorCount = 0 /\ timeoutCount = 0
  /\ req = [h \in Handlers |-> Idle] /\ was = [h \in Handlers |-> {}]
  /\ controls = 0

Goto(h, r)  == req' = [req EXCEPT ![h] = r]
Matching(s) == {i \in DOMAIN tags : tags[i].sid = s}
First(s)    == CHOOSE i \in Matching(s) : \A j \in Matching(s) : i <= j

(***************************************************************************)
(* The test.  All endpoints replace what they set; /mock/tag replaces a    *)
(* tag of the same number, /mock/set takes any list as it is.              *)
(***************************************************************************)
Control == controls < MaxControls /\ controls' = controls + 1 /\ UNCHANGED req

Appended(t) == Append(tags, t)   \* mutant of Upserted: no look at the tags there are

Upserted(t) ==
  IF Matching(t.sid) = {} THEN Append(tags, t) ELSE [tags EXCEPT ![First(t.sid)] = t]

PostTag(t) == tags' = Upserted(t) /\ UNCHANGED counts
PostSet(l) == tags' = l /\ UNCHANGED counts

PostRemove(s) ==    \* 404 when there is none
  /\ Matching(s) # {}
  /\ tags' = [i \in 1 .. Len(tags) - 1 |-> IF i < First(s) THEN tags[i] ELSE tags[i + 1]]
  /\ UNCHANGED counts

PostClear ==        \* and /mock/reset
  tags' = <<>> /\ errorCount' = 0 /\ timeoutCount' = 0

PostError(n)   == errorCount' = n /\ UNCHANGED <<tags, timeoutCount>>
PostTimeout(n) == timeoutCount' = n /\ UNCHANGED <<tags, errorCount>>

TestStep ==
  /\ Control
  /\ \/ \E t \in Posts : PostTag(t)
     \/ \E l \in Inventories : PostSet(l)
     \/ \E s \in Sids : PostRemove(s)
     \/ PostClear
     \/ \E n \in Counts : PostError(n) \/ PostTimeout(n)

(***************************************************************************)
(* /scan/ over the mock.                                                   *)
(***************************************************************************)
ScanRequest(h) ==
  /\ req[h].at = "idle" /\ Goto(h, [Idle EXCEPT !.at = "inventory"])
  /\ UNCHANGED <<tags, counts, controls>>

NeverTired == errorCount' = errorCount   \* mutant of OneErrorLess

OneErrorLess == errorCount' = errorCount - 1

OneRoundMore(r) == r.try <= ScanTries   \* mutant of MayRetry
MayRetry(r)     == r.try < ScanTries

\* Inventory and InventoryWithReset: errors come before timeouts.  handleScan
\* tries again after either.
Inventory(h) ==
  /\ req[h].at = "inventory"
  /\ IF errorCount > 0 \/ timeoutCount > 0
     THEN /\ IF errorCount > 0 THEN OneErrorLess /\ UNCHANGED timeoutCount
             ELSE timeoutCount' = timeoutCount - 1 /\ UNCHANGED errorCount
          /\ Goto(h, IF MayRetry(req[h]) THEN [req[h] EXCEPT !.try = @ + 1] ELSE Idle)
     ELSE /\ Goto(h, [req[h] EXCEPT !.at = "afi",
                                    !.todo = [i \in DOMAIN tags |-> tags[i].sid]])
          /\ UNCHANGED counts
  /\ UNCHANGED <<tags, controls>>

AfiByte(security) ==
  CASE security = Empty -> Secure [] security = Malformed -> Unsecure [] OTHER -> security

\* Mutant of Lookup: the tag in the place it had in the inventory.
InPlace(r) ==
  IF Cardinality(r.items) < Len(tags) THEN {Cardinality(r.items) + 1} ELSE {}

\* The tag a scan is reading, if it is still listed.
Lookup(r) == IF Matching(Head(r.todo)) = {} THEN {} ELSE {First(Head(r.todo))}

ReadAfi(h) ==
  LET r == req[h] IN
  /\ r.at = "afi" /\ r.todo # <<>>
  /\ Goto(h, [r EXCEPT !.at = "blocks",
                !.sec = IF Lookup(r) = {} THEN Unsecure
                        ELSE AfiByte(tags[CHOOSE i \in Lookup(r) : TRUE].security)])
  /\ UNCHANGED <<tags, counts, controls>>

ReadBlocks(h) ==
  LET r == req[h] IN
  /\ r.at = "blocks"
  /\ Goto(h, [r EXCEPT !.at = "afi", !.todo = Tail(@),
                !.items = @ \cup {[sid |-> Head(r.todo), security |-> r.sec,
                                   content |-> IF Lookup(r) = {} THEN Empty
                                               ELSE tags[CHOOSE i \in Lookup(r) : TRUE].content]}])
  /\ UNCHANGED <<tags, counts, controls>>

ScanAnswers(h) ==
  /\ req[h].at = "afi" /\ req[h].todo = <<>>
  /\ Goto(h, Idle)
  /\ UNCHANGED <<tags, counts, controls>>

(***************************************************************************)
(* /secure, and /program, whose WriteBlocks changes nothing here: each op  *)
(* writes the AFI byte of every tag of its number and cannot fail, so that *)
(* the ops of a request are like requests of one op after each other.      *)
(***************************************************************************)
WriteRequest(h) ==
  /\ req[h].at = "idle"
  /\ \E o \in Ops : Goto(h, [Idle EXCEPT !.at = "write", !.op = o])
  /\ UNCHANGED <<tags, counts, controls>>

WriteAfi(h) ==
  /\ req[h].at = "write"
  /\ LET o == req[h].op
     IN  tags' = [i \in DOMAIN tags |-> IF i \in Matching(o.sid)
                                        THEN [tags[i] EXCEPT !.security = o.afi] ELSE tags[i]]
  /\ Goto(h, Idle)
  /\ UNCHANGED <<counts, controls>>

Step(h) == Inventory(h) \/ ReadAfi(h) \/ ReadBlocks(h) \/ ScanAnswers(h) \/ WriteAfi(h)

Noted ==
  was' = [h \in Handlers |-> CASE req'[h].at \in {"idle", "write"} -> {}
                               [] req'[h].at = "inventory"         -> {tags'}
                               [] OTHER                            -> was[h] \cup {tags'}]

Next ==
  /\ TestStep \/ \E h \in Handlers : ScanRequest(h) \/ WriteRequest(h) \/ Step(h)
  /\ Noted

Spec == Init /\ [][Next]_vars

\* Requests are handled, and pages go on polling between other requests.
FairSpec ==
  Spec /\ \A h \in Handlers : WF_vars(Step(h) /\ Noted) /\ SF_vars(ScanRequest(h) /\ Noted)

-----------------------------------------------------------------------------
Item == [sid : Sids, security : Afis, content : Contents]

Request ==
  [at : {"idle", "inventory", "afi", "blocks", "write"}, try : 1 .. ScanTries,
   todo : Seq(Sids), sec : Afis \cup {Empty}, items : SUBSET Item, op : Op \cup {NoOp}]

TypeOK ==
  /\ tags \in Seq(MockTag)
  /\ errorCount \in Nat /\ timeoutCount \in Nat
  /\ req \in [Handlers -> Request]
  /\ was \in [Handlers -> SUBSET Seq(MockTag)]
  /\ controls \in 0 .. MaxControls

\* A tag taken off is off, until the test puts it on again: whatever was posted
\* before, and in whatever order, there is one of each number to remove, unless
\* a list that /mock/set took as it is had two.
RemovedIsGone ==
  [][\A s \in Sids : Control /\ PostRemove(s) => \A i \in DOMAIN tags' : tags'[i].sid # s]_vars

\* What a scan would say of tag s if it read it from list l.
In(l, s) == {l[i] : i \in {j \in DOMAIN l : l[j].sid = s}}

(***************************************************************************)
(* Nothing keeps a scan of the mock in one piece, but it never says of one *)
(* tag what is true of another, however the list changes under it: each    *)
(* half of an item was true of its tag at some time since the inventory,   *)
(* where a tag that has been taken off reads as D7 with no content.        *)
(***************************************************************************)
NoMixUp ==
  \A h \in Handlers : \A x \in req[h].items :
    /\ \E l \in was[h] : \/ \E m \in In(l, x.sid) : x.security = AfiByte(m.security)
                         \/ In(l, x.sid) = {} /\ x.security = Unsecure
    /\ \E l \in was[h] : \/ \E m \in In(l, x.sid) : x.content = m.content
                         \/ In(l, x.sid) = {} /\ x.content = Empty

\* Injected failures run out: scans get through again.
ScansRecover == []<>(\E h \in Handlers : req[h].at = "afi")
=============================================================================
