----------------------------- MODULE RfidServer -----------------------------
(***************************************************************************)
(* The HTTP server: the handlers /scan/, /secure and /program (server.go)  *)
(* and the operations they run (internal/rfidops/ops.go), one goroutine    *)
(* per request, over one reader guarded by the mutex r.mu (reader.go).     *)
(*                                                                         *)
(* A handler is between two driver calls or inside one.  A driver call     *)
(* takes effect in one step, with the outcomes TagReader allows: what it   *)
(* tells is true, and a failed write may have changed the tag.  The        *)
(* failure count and the resets of InventoryWithReset are kept: the        *)
(* requests share them.                                                    *)
(***************************************************************************)
EXTENDS Integers, Sequences, TagMemory

CONSTANTS
  Handlers,   \* slots for requests in progress
  Nobody,     \* the owner of a free mutex
  BadAfi,     \* an AFI argument that is not one hex byte
  TooLong,    \* a content of more than 16 bytes
  Garbled,    \* what Scan shows for a tag whose blocks came back incomplete
  AfiOf,      \* the AFI byte Program gives to a content: DA to books, "130..."
  Requests,   \* the requests clients send, each a [kind, ops]
  FailLimit,  \* failed inventories in a row before the port is reopened: 3
  ScanTries,  \* rounds of handleScan: 3
  MaxFaults,  \* bound of the model: inventories that fail with the port up
  MaxCrashes  \* bound of the model: kills of the server process

Arguments == Afis \cup Datas \cup {BadAfi, TooLong}
Op        == [tag : Tags, val : Arguments]

\* Form keys come in the random order of a Go map, and the same tag may be
\* named twice (in two spellings), so ops is any sequence.
WellFormed(q) ==
  \/ q.kind = "scan"    /\ q.ops = <<>>
  \/ q.kind = "secure"  /\ q.ops \in Seq([tag : Tags, val : Afis \cup {BadAfi}])
  \/ q.kind = "program" /\ q.ops \in Seq([tag : Tags, val : Datas \cup {TooLong}])

ASSUME RfidServerAssumption ==
  /\ Nobody \notin Handlers
  /\ {BadAfi, TooLong} \cap (Afis \cup Datas) = {}
  /\ AfiOf \in [Datas -> Afis]
  /\ \A q \in Requests : WellFormed(q)
  /\ FailLimit \in Nat \ {0} /\ ScanTries \in Nat \ {0}
  /\ MaxFaults \in Nat /\ MaxCrashes \in Nat

VARIABLES
  alive,    \* is the server process running?
  holder,   \* the handler that holds r.mu, or Nobody
  req,      \* the request of each handler, or its last one and its answer
  mem,      \* memory of the tags
  field,    \* tags the reader can see
  port,     \* "up", or "down" when every read and write on the port fails
  plugged,  \* is the reader connected?
  fails,    \* r.consecutiveFailures, saturated at FailLimit
  suspect,  \* history: tags whose last programming failed or was cut short
  faults, crashes

link == <<port, plugged, fails, faults>>
vars == <<alive, holder, req, mem, field, link, suspect, crashes>>

\* The driver call an operation begins with.
FirstPart(kind) ==
  CASE kind = "scan" -> "inv" [] kind = "secure" -> "afi" [] kind = "program" -> "blocks"

(***************************************************************************)
(* A request: `i' is the op it is at; `part' the driver call it is at;     *)
(* `todo' and `cur' the tags a scan has still to read and is reading;      *)
(* `items' the tags it has read; `errs' the ops that failed; `try' the     *)
(* round of handleScan.  History: `start', the memory when it took the     *)
(* mutex; `calm', no unplugging and no link fault of its own so far.       *)
(***************************************************************************)
NewRequest(q) ==
  [kind |-> q.kind, ops |-> q.ops, at |-> "want", i |-> 1,
   part |-> FirstPart(q.kind), todo |-> {}, cur |-> NoVal, sec |-> NoVal,
   items |-> {}, errs |-> {}, out |-> "none", try |-> 1, start |-> NoVal, calm |-> plugged]

Idle ==
  [NewRequest([kind |-> "scan", ops |-> <<>>]) EXCEPT !.at = "idle"]

\* What is left of a request once it is answered.
Answered(r) ==
  [Idle EXCEPT !.kind = r.kind, !.out = r.out, !.calm = r.calm]

Inside  == {"between", "calling", "unlock"}   \* places reached holding r.mu
Set(h, r) == req' = [req EXCEPT ![h] = r]

Init ==
  /\ alive = TRUE /\ holder = Nobody
  /\ mem \in [afi : [Tags -> Afis], data : [Tags -> Datas]]
  /\ field \in SUBSET Tags
  /\ port = "up" /\ plugged = TRUE /\ fails = 0
  /\ suspect = {} /\ faults = 0 /\ crashes = 0
  /\ req = [h \in Handlers |-> Idle]

Arrive(h) ==
  /\ alive /\ req[h].at = "idle"
  /\ \E q \in Requests : Set(h, NewRequest(q))
  /\ UNCHANGED <<alive, holder, mem, field, link, suspect, crashes>>

AlwaysFree == TRUE              \* mutant of MutexFree: a Lock that does nothing
MutexFree  == holder = Nobody

\* ops.Lock() of Scan, Secure and Program.
Lock(h) ==
  /\ req[h].at = "want" /\ MutexFree
  /\ holder' = h
  /\ Set(h, [req[h] EXCEPT !.at = "between", !.start = mem])
  /\ UNCHANGED <<alive, mem, field, link, suspect, crashes>>

Named(r) == {r.ops[k].tag : k \in DOMAIN r.ops}

KeepMutex    == holder' = holder   \* mutant of ReleaseMutex: a path without Unlock
ReleaseMutex == holder' = Nobody

\* The deferred ops.Unlock(), and then the answer, or the pause of handleScan.
Unlock(h) ==
  /\ req[h].at = "unlock"
  /\ ReleaseMutex
  /\ Set(h, IF req[h].kind = "scan" /\ req[h].out = "err"
             THEN [req[h] EXCEPT !.at = "pause", !.start = NoVal]
             ELSE Answered(req[h]))
  /\ suspect' = IF req[h].kind # "program" THEN suspect
                ELSE IF req[h].out = "ok" THEN suspect \ Named(req[h])
                ELSE suspect \cup Named(req[h])
  /\ UNCHANGED <<alive, mem, field, link, crashes>>

OneRoundMore(r) == r.try <= ScanTries      \* mutants of MayRetry
OneRoundLess(r) == r.try + 1 < ScanTries
MayRetry(r)     == r.try < ScanTries

\* handleScan after its 200 ms pause: another round, or 504.
Resume(h) ==
  LET r == req[h] IN
  /\ r.at = "pause"
  /\ IF MayRetry(r)
     THEN Set(h, [r EXCEPT !.at = "want", !.try = @ + 1, !.out = "none"])
     ELSE Set(h, Answered(r))
  /\ UNCHANGED <<alive, holder, mem, field, link, suspect, crashes>>

(***************************************************************************)
(* Driver calls.                                                           *)
(***************************************************************************)
Current(r)  == r.ops[r.i]
HasOp(r)    == r.kind # "scan" /\ r.i <= Len(r.ops)
Refused(r)  == HasOp(r) /\ Current(r).val \in {BadAfi, TooLong}

\* The next driver call of the request: all that precedes it is done.
Call(h) ==
  LET r == req[h] IN
  /\ r.at = "between"
  /\ \/ r.kind = "scan" /\ (r.part = "inv" \/ r.cur # NoVal)
     \/ HasOp(r) /\ ~Refused(r)
  /\ Set(h, [r EXCEPT !.at = "calling"])
  /\ UNCHANGED <<alive, holder, mem, field, link, suspect, crashes>>

\* Mutant of AfiOutcomes: the write is believed without reading it back.
AfiUnverified(t, a) ==
  IF port = "down" THEN {<<FALSE, mem>>}
  ELSE {<<ok, m>> : ok \in BOOLEAN, m \in AfiWrites(mem, field, t, a)}

\* The outcomes of a write call: <<succeeded, memory after it>>.
AfiOutcomes(t, a) ==
  IF port = "down" THEN {<<FALSE, mem>>}
  ELSE {<<FALSE, m>> : m \in AfiWrites(mem, field, t, a)}
         \cup (IF t \in field THEN {<<TRUE, SetAfi(mem, t, a)>>} ELSE {})

DataOutcomes(t, d) ==
  IF port = "down" THEN {<<FALSE, mem>>}
  ELSE {<<FALSE, m>> : m \in DataWrites(mem, field, t, d)}
         \cup (IF t \in field THEN {<<TRUE, SetData(mem, t, d)>>} ELSE {})

Readable(t) == port = "up" /\ t \in field

(***************************************************************************)
(* Scan.                                                                   *)
(***************************************************************************)
ScanFails(h) == Set(h, [req[h] EXCEPT !.at = "unlock", !.out = "err"])

Found(h) ==
  Set(h, [req[h] EXCEPT !.at = "between", !.part = "afi", !.todo = field])

\* InventoryWithReset after a failed inventory; own: the link failed it.
CountFailure(h, own) ==
  LET n      == IF fails = FailLimit THEN fails ELSE fails + 1
      used   == IF own THEN faults + 1 ELSE faults
      failed == [req[h] EXCEPT !.at = "unlock", !.out = "err",
                               !.calm = @ /\ ~own]
  IN  IF n < FailLimit
      THEN fails' = n /\ faults' = used /\ Set(h, failed) /\ UNCHANGED port
      ELSE IF ~plugged
      THEN fails' = n /\ faults' = used /\ Set(h, failed) /\ port' = "down"
      ELSE /\ fails' = 0 /\ port' = "up"
           /\ \/ Found(h) /\ faults' = used
              \/ /\ used < MaxFaults /\ faults' = used + 1
                 /\ Set(h, [failed EXCEPT !.calm = FALSE])

InventoryWithReset(h) ==
  /\ req[h].at = "calling" /\ req[h].part = "inv"
  /\ \/ port = "up" /\ Found(h) /\ fails' = 0 /\ UNCHANGED <<port, faults>>
     \/ port = "up" /\ faults < MaxFaults /\ CountFailure(h, TRUE)
     \/ port = "down" /\ CountFailure(h, FALSE)
  /\ UNCHANGED <<alive, holder, mem, field, plugged, suspect, crashes>>

NextTag(h) ==
  LET r == req[h] IN
  /\ r.at = "between" /\ r.kind = "scan" /\ r.part = "afi" /\ r.cur = NoVal
  /\ \E t \in r.todo : Set(h, [r EXCEPT !.cur = t, !.todo = @ \ {t}])
  /\ UNCHANGED <<alive, holder, mem, field, link, suspect, crashes>>

ScanAfi(h) ==
  LET r == req[h] IN
  /\ r.at = "calling" /\ r.kind = "scan" /\ r.part = "afi"
  /\ \E v \in {NoVal} \cup (IF Readable(r.cur) THEN {mem.afi[r.cur]} ELSE {}) :
       Set(h, [r EXCEPT !.at = "between", !.part = "blocks", !.sec = v])
  /\ UNCHANGED <<alive, holder, mem, field, link, suspect, crashes>>

ScanBlocks(h) ==
  LET r == req[h] IN
  /\ r.at = "calling" /\ r.kind = "scan" /\ r.part = "blocks"
  /\ \E c \in {NoVal} \cup
              (IF Readable(r.cur) THEN {mem.data[r.cur], Garbled} ELSE {}) :
       Set(h, [r EXCEPT !.at = "between", !.part = "afi", !.cur = NoVal, !.sec = NoVal,
                 !.items = @ \cup {[sid |-> r.cur, security |-> r.sec, content |-> c]}])
  /\ UNCHANGED <<alive, holder, mem, field, link, suspect, crashes>>

(***************************************************************************)
(* Secure stops at the first op that fails; Program goes on and counts.    *)
(***************************************************************************)
Ignoring(r) == r   \* mutant of Failing: the error is dropped
Failing(r)  == [r EXCEPT !.errs = @ \cup {r.i}]

SecureTag(h) ==
  LET r == req[h] IN
  /\ r.at = "calling" /\ r.kind = "secure"
  /\ \E o \in AfiOutcomes(Current(r).tag, Current(r).val) :
       /\ mem' = o[2]
       /\ IF o[1]
          THEN Set(h, [r EXCEPT !.at = "between", !.i = @ + 1])
          ELSE Set(h, [Failing(r) EXCEPT !.at = "unlock", !.out = "err"])
  /\ UNCHANGED <<alive, holder, field, link, suspect, crashes>>

SecureRefuses(h) ==
  /\ req[h].at = "between" /\ req[h].kind = "secure" /\ Refused(req[h])
  /\ Set(h, [Failing(req[h]) EXCEPT !.at = "unlock", !.out = "err"])
  /\ UNCHANGED <<alive, holder, mem, field, link, suspect, crashes>>

ProgramRefuses(h) ==
  /\ req[h].at = "between" /\ req[h].kind = "program" /\ Refused(req[h])
  /\ Set(h, [Failing(req[h]) EXCEPT !.i = @ + 1])
  /\ UNCHANGED <<alive, holder, mem, field, link, suspect, crashes>>

ProgramBlocks(h) ==
  LET r == req[h] IN
  /\ r.at = "calling" /\ r.kind = "program" /\ r.part = "blocks"
  /\ \E o \in DataOutcomes(Current(r).tag, Current(r).val) :
       /\ mem' = o[2]
       /\ IF o[1]
          THEN Set(h, [r EXCEPT !.at = "between", !.part = "afi"])
          ELSE Set(h, [Failing(r) EXCEPT !.at = "between", !.i = @ + 1])
  /\ UNCHANGED <<alive, holder, field, link, suspect, crashes>>

ProgramAfi(h) ==
  LET r == req[h] IN
  /\ r.at = "calling" /\ r.kind = "program" /\ r.part = "afi"
  /\ \E o \in AfiOutcomes(Current(r).tag, AfiOf[Current(r).val]) :
       /\ mem' = o[2]
       /\ LET next == [r EXCEPT !.at = "between", !.part = "blocks", !.i = @ + 1]
          IN  Set(h, IF o[1] THEN next ELSE [next EXCEPT !.errs = Failing(r).errs])
  /\ UNCHANGED <<alive, holder, field, link, suspect, crashes>>

\* The operation is through: Scan returns its items, Secure and Program OK.
Finish(h) ==
  LET r == req[h] IN
  /\ r.at = "between"
  /\ IF r.kind = "scan"
     THEN r.part = "afi" /\ r.cur = NoVal /\ r.todo = {}
     ELSE ~HasOp(r)
  /\ Set(h, [r EXCEPT !.at = "unlock", !.out = IF r.errs = {} THEN "ok" ELSE "err"])
  /\ UNCHANGED <<alive, holder, mem, field, link, suspect, crashes>>

(***************************************************************************)
(* The environment, and SIGINT: main returns and the handlers die with it. *)
(***************************************************************************)
MoveTags ==
  /\ field' \in SUBSET Tags
  /\ UNCHANGED <<alive, holder, req, mem, link, suspect, crashes>>

Unplug ==
  /\ plugged
  /\ plugged' = FALSE /\ port' = "down"
  /\ req' = [h \in Handlers |->
               IF req[h].at = "idle" THEN req[h] ELSE [req[h] EXCEPT !.calm = FALSE]]
  /\ UNCHANGED <<alive, holder, mem, field, fails, suspect, faults, crashes>>

Plug ==
  /\ ~plugged
  /\ plugged' = TRUE
  /\ UNCHANGED <<alive, holder, req, mem, field, port, fails, suspect, faults, crashes>>

Working(h) == req[h].kind = "program" /\ req[h].at \in Inside

Crash ==
  /\ alive /\ crashes < MaxCrashes
  /\ alive' = FALSE /\ holder' = Nobody /\ crashes' = crashes + 1
  /\ suspect' = suspect \cup UNION {Named(req[h]) : h \in {g \in Handlers : Working(g)}}
  /\ req' = [h \in Handlers |-> Idle]
  /\ UNCHANGED <<mem, field, link>>

\* main opens and probes the reader, and exits when it is not there.
Start ==
  /\ ~alive /\ plugged
  /\ alive' = TRUE /\ port' = "up" /\ fails' = 0
  /\ UNCHANGED <<holder, req, mem, field, plugged, faults, suspect, crashes>>

-----------------------------------------------------------------------------
Step(h) ==
  \/ Unlock(h) \/ Resume(h) \/ Call(h) \/ Finish(h)
  \/ InventoryWithReset(h) \/ NextTag(h) \/ ScanAfi(h) \/ ScanBlocks(h)
  \/ SecureTag(h) \/ SecureRefuses(h)
  \/ ProgramRefuses(h) \/ ProgramBlocks(h) \/ ProgramAfi(h)

Next ==
  \/ \E h \in Handlers : Arrive(h) \/ Lock(h) \/ Step(h)
  \/ MoveTags \/ Unplug \/ Plug \/ Crash \/ Start

Spec == Init /\ [][Next]_vars

\* Goroutines run, driver calls return, and sync.Mutex starves no waiter.
FairSpec ==
  Spec /\ \A h \in Handlers : WF_vars(Step(h)) /\ SF_vars(Lock(h))

-----------------------------------------------------------------------------
\* TagInfo: what a scan says of a tag, NoVal where its read failed.
Item == [sid : Tags, security : Afis \cup {NoVal}, content : Contents \cup {NoVal, Garbled}]

Request ==
  [kind : {"scan", "secure", "program"}, ops : Seq(Op),
   at : {"idle", "want", "between", "calling", "unlock", "pause"},
   i : Nat \ {0}, part : {"inv", "afi", "blocks"},
   todo : SUBSET Tags, cur : Tags \cup {NoVal}, sec : Afis \cup {NoVal},
   items : SUBSET Item,
   errs : SUBSET (Nat \ {0}), out : {"none", "ok", "err"},
   try : 1 .. ScanTries, start : Memory \cup {NoVal}, calm : BOOLEAN]

TypeOK ==
  /\ alive \in BOOLEAN /\ plugged \in BOOLEAN
  /\ holder \in Handlers \cup {Nobody}
  /\ req \in [Handlers -> Request]
  /\ mem \in Memory /\ field \in SUBSET Tags
  /\ port \in {"up", "down"} /\ fails \in 0 .. FailLimit
  /\ suspect \in SUBSET Tags
  /\ faults \in 0 .. MaxFaults /\ crashes \in 0 .. MaxCrashes

\* README, "Scanning": a scan and a tag write cannot interleave on the serial
\* line.  Whoever is inside an operation holds r.mu, through every failure,
\* early return, retry and crash.
PortExclusive ==
  \A h \in Handlers : req[h].at \in Inside <=> holder = h

\* The op that had the last word on tag t among the first n ops.
LastOn(r, n, t) ==
  LET on == {k \in 1 .. n : r.ops[k].tag = t}
  IN  CHOOSE k \in on : \A j \in on : j <= k

Reporting(h, kind) == req[h].at = "unlock" /\ req[h].kind = kind

(***************************************************************************)
(* The answer of /secure is exact, whatever ran concurrently and wherever  *)
(* it stopped: every op before the failing one (all of them, after OK) is  *)
(* on its tag, no tag that only later ops name was touched, no content was *)
(* changed.                                                                *)
(***************************************************************************)
SecureIsExact ==
  \A h \in Handlers : Reporting(h, "secure") =>
    LET r    == req[h]
        done == r.i - 1
        hit  == {r.ops[k].tag : k \in 1 .. done}
        now  == IF r.out = "err" THEN {Current(r).tag} ELSE {}
    IN  /\ r.out = "ok" => done = Len(r.ops)
        /\ mem.data = r.start.data
        /\ \A t \in Tags \ now :
             mem.afi[t] = IF t \in hit THEN r.ops[LastOn(r, done, t)].val
                          ELSE r.start.afi[t]

(***************************************************************************)
(* The answer of /program: a tag whose last op is not among the errors     *)
(* holds its content and the AFI of that content; a tag no op names is as  *)
(* it was.  So a half-programmed tag is never reported as a success.       *)
(***************************************************************************)
ProgramIsHonest ==
  \A h \in Handlers : Reporting(h, "program") =>
    LET r == req[h] IN
    /\ r.out = "ok" <=> r.errs = {}
    /\ \A t \in Tags :
         IF t \in Named(r)
         THEN LET k == LastOn(r, Len(r.ops), t)
              IN  k \notin r.errs => /\ mem.data[t] = r.ops[k].val
                                     /\ mem.afi[t] = AfiOf[r.ops[k].val]
         ELSE /\ mem.data[t] = r.start.data[t]
              /\ mem.afi[t] = r.start.afi[t]

\* What a scan returns was all true at one moment, although it takes two
\* driver calls per tag: no write of another request falls between them.
ScanIsSnapshot ==
  \A h \in Handlers : Reporting(h, "scan") =>
    \A x \in req[h].items :
      /\ x.security \in {NoVal, mem.afi[x.sid]}
      /\ x.content \in {NoVal, Garbled, mem.data[x.sid]}

\* Nothing tears a tag behind the operator's back: a tag with a torn content
\* was named by a /program request that failed, died with the server or runs.
TornTagsAreSuspect ==
  \A t \in Tags : mem.data[t] = Torn =>
    t \in suspect \/ \E h \in Handlers : Working(h) /\ t \in Named(req[h])

(***************************************************************************)
(* handleScan tries as often as it takes for its own failures to reach the *)
(* limit: a scan during which the reader stays plugged and answers is      *)
(* never 504, even on a port that died before it, whatever the other       *)
(* requests do to the shared count.                                        *)
(***************************************************************************)
ScanHeals ==
  \A h \in Handlers :
    ~(req[h].kind = "scan" /\ req[h].at = "idle" /\ req[h].out = "err" /\ req[h].calm)

\* Every request is answered (or dies with the server): nobody waits for the
\* mutex for ever, and no failure path keeps it.
EveryRequestIsAnswered ==
  \A h \in Handlers : (req[h].at = "want") ~> (req[h].at = "idle")
=============================================================================
