----------------------------- MODULE RfidReader -----------------------------
(***************************************************************************)
(* The serial driver of the 3M 810 reader: internal/rfid/reader.go.        *)
(*                                                                         *)
(* The driver runs one call at a time (its callers hold r.mu, see          *)
(* RfidServer).  A call is a series of exchanges; an exchange sends one    *)
(* command frame and reads one response frame.  `rx' is the byte stream    *)
(* from the reader, cut into frames.  The driver never matches a response  *)
(* with its command except by the command byte, and never flushes `rx'     *)
(* except when the port is reopened: whether responses and commands stay   *)
(* paired is therefore a property of the whole driver.                     *)
(*                                                                         *)
(* External (the reader, the tags, the operating system's serial port):    *)
(*   - the reader executes a command when it is sent and answers it with   *)
(*     one frame; the link may damage or lose that frame (LinkFaults);     *)
(*   - port.Read returns (0, nil) when its 100 ms timeout expires, so a    *)
(*     read that finds no byte only loops: a stuttering step here;         *)
(*   - the USB cable may be unplugged and plugged in again.                *)
(***************************************************************************)
EXTENDS Integers, Sequences, TagMemory

CONSTANTS
  Malformed,      \* "tags" that are not hex: sendFrame cannot encode them
  FailLimit,      \* failed inventories in a row before the port is reopened
  AfiRetries,     \* rounds of WriteAfi (100 in the code)
  VerifyRetries,  \* read-backs of WriteBlocks (10 in the code)
  LinkFaults,     \* the faults of this link, a subset of AllLinkFaults
  MaxFaults       \* bound of the model: link faults in one behaviour

AllLinkFaults ==
  { "crc",        \* a response arrives with a wrong checksum
    "silent",     \* no complete response arrives
    "left" }      \* readResponse fails and leaves the response unread

ASSUME RfidReaderAssumption ==
  /\ Malformed \subseteq Tags
  /\ FailLimit \in Nat \ {0}
  /\ AfiRetries \in Nat \ {0}
  /\ VerifyRetries \in Nat \ {0}
  /\ LinkFaults \subseteq AllLinkFaults
  /\ MaxFaults \in Nat

VARIABLES
  port,      \* r.port: "up", or "down" when every Read and Write on it fails
  plugged,   \* is the reader connected?  decides whether serial.Open works
  rx,        \* frames received and not yet read
  mem,       \* memory of the tags
  field,     \* tags the reader can see
  fails,     \* r.consecutiveFailures, saturated at FailLimit
  call,      \* the driver call in progress, or the last one and its result
  faults     \* link faults so far

vars == <<port, plugged, rx, mem, field, fails, call, faults>>

(***************************************************************************)
(* Frames.                                                                 *)
(***************************************************************************)
Kinds == {"inv", "rdafi", "wrafi", "rdblk", "wrblk"}

Frame == [kind   : Kinds \cup {"damaged", "none"},
          status : {"ok", "busy", "fail"},
          val    : Afis \cup Contents \cup {NoVal},
          tags   : SUBSET Tags]

Plain(k) == [kind |-> k, status |-> "fail", val |-> NoVal, tags |-> {}]
Damaged  == Plain("damaged")   \* right length, wrong CRC
NoFrame  == Plain("none")      \* readResponse returned an error

Reply(k, s, v, ts) == [kind |-> k, status |-> s, val |-> v, tags |-> ts]

(***************************************************************************)
(* Calls.  `at' is the place in the call, `n' its retry counter, `out' how *)
(* the last call ended, `got' and `found' what it returned.                *)
(***************************************************************************)
Ops == {"inventory", "readafi", "readblocks", "writeafi", "writeblocks"}
Places == {"idle", "send", "recv", "vsend", "vrecv", "reset", "resend", "rerecv"}

Call == [op : Ops, tag : Tags \cup {NoVal}, val : Afis \cup Datas \cup {NoVal},
         n : 0 .. AfiRetries + VerifyRetries, at : Places,
         out : {"none", "ok", "err"}, got : Afis \cup Contents \cup {NoVal},
         found : SUBSET Tags]

Started(op, t, v) ==
  [op |-> op, tag |-> t, val |-> v, n |-> 0, at |-> "send",
   out |-> "none", got |-> NoVal, found |-> {}]

Goto(p)     == call' = [call EXCEPT !.at = p]
Returns(o)  == call' = [call EXCEPT !.at = "idle", !.out = o]
ReturnsValue(v) == call' = [call EXCEPT !.at = "idle", !.out = "ok", !.got = v]

Sendable == port = "up" /\ call.tag \notin Malformed

(***************************************************************************)
(* The reader's answer to a command, and what the link makes of it.        *)
(***************************************************************************)
Deliver(f) ==
  \/ /\ rx' = Append(rx, f)
     /\ UNCHANGED faults
  \/ /\ faults < MaxFaults
     /\ faults' = faults + 1
     /\ \/ "crc" \in LinkFaults    /\ rx' = Append(rx, Damaged)
        \/ "silent" \in LinkFaults /\ rx' = rx

\* A command that changes no tag: inventory, read AFI, read blocks.
AskInventory ==
  /\ Deliver(Reply("inv", "ok", NoVal, field))
  /\ UNCHANGED mem

AskAfi(t) ==
  /\ \/ t \in field /\ Deliver(Reply("rdafi", "ok", mem.afi[t], {}))
     \/ Deliver(Reply("rdafi", "fail", NoVal, {}))
  /\ UNCHANGED mem

\* A tag at the edge of the field may answer with some of its blocks only.
AskBlocks(t) ==
  /\ \/ t \in field /\ Deliver(Reply("rdblk", "ok", mem.data[t], {}))
     \/ t \in field /\ Deliver(Reply("rdblk", "ok", NoVal, {}))
     \/ Deliver(Reply("rdblk", "fail", NoVal, {}))
  /\ UNCHANGED mem

\* The reader acknowledges a write ("ok") without knowing that the tag took it.
AskWriteAfi(t, a) ==
  \E s \in IF t \in field THEN {"ok", "busy", "fail"} ELSE {"busy", "fail"} :
    /\ Deliver(Reply("wrafi", s, NoVal, {}))
    /\ mem' \in AfiWrites(mem, field, t, a)

AskWriteBlocks(t, d) ==
  \E s \in IF t \in field THEN {"ok", "fail"} ELSE {"fail"} :
    /\ Deliver(Reply("wrblk", s, NoVal, {}))
    /\ mem' \in DataWrites(mem, field, t, d)

\* Mutant of ReadResponse: the checksum is checked before the payload is read.
PeekResponse(r) ==
  \/ /\ port = "down" /\ r = NoFrame
     /\ UNCHANGED <<rx, faults>>
  \/ /\ port = "up" /\ rx # <<>>
     /\ r = IF Head(rx) = Damaged THEN NoFrame ELSE Head(rx)
     /\ rx' = IF Head(rx) = Damaged THEN rx ELSE Tail(rx)
     /\ UNCHANGED faults

(***************************************************************************)
(* readResponse: r is the frame it returns, NoFrame when it returns an     *)
(* error; with no byte to read it waits.  A port.Read that fails, or       *)
(* damaged length bytes, make it return with (part of) the response still  *)
(* to be read: frame by frame, as here, that is the fault "left".          *)
(***************************************************************************)
ReadResponse(r) ==
  \/ /\ port = "down" /\ r = NoFrame
     /\ UNCHANGED <<rx, faults>>
  \/ /\ port = "up" /\ rx # <<>>
     /\ r = IF Head(rx) = Damaged THEN NoFrame ELSE Head(rx)
     /\ rx' = Tail(rx)
     /\ UNCHANGED faults
  \/ /\ port = "up" /\ rx # <<>> /\ r = NoFrame
     /\ "left" \in LinkFaults /\ faults < MaxFaults
     /\ faults' = faults + 1
     /\ UNCHANGED rx

\* What ReadResponse may return: a frame of the stream, or the error.
Readable == {NoFrame} \cup {rx[i] : i \in DOMAIN rx}

Answers(r, k)  == r.kind = k
Accepted(r, k) == Answers(r, k) /\ r.status = "ok"
Verified(r, k) == Accepted(r, k) /\ r.val = call.val

(***************************************************************************)
(* The environment starts a call, moves tags and handles the cable.        *)
(***************************************************************************)
Init ==
  /\ port = "up" /\ plugged = TRUE /\ rx = <<>>
  /\ mem \in [afi : [Tags -> Afis], data : [Tags -> Datas]]
  /\ field \in SUBSET Tags
  /\ fails = 0 /\ faults = 0
  /\ call = [Started("inventory", NoVal, NoVal) EXCEPT !.at = "idle"]

Begin(op, t, v) ==
  /\ call.at = "idle"
  /\ call' = Started(op, t, v)
  /\ UNCHANGED <<port, plugged, rx, mem, field, fails, faults>>

BeginInventory == Begin("inventory", NoVal, NoVal)

BeginOnTag ==
  \E t \in Tags :
    \/ \E op \in {"readafi", "readblocks"} : Begin(op, t, NoVal)
    \/ \E a \in Afis : Begin("writeafi", t, a)
    \/ \E d \in Datas : Begin("writeblocks", t, d)

MoveTags ==
  /\ field' \in SUBSET Tags
  /\ UNCHANGED <<port, plugged, rx, mem, fails, call, faults>>

Unplug ==
  /\ plugged
  /\ plugged' = FALSE /\ port' = "down" /\ rx' = <<>>
  /\ UNCHANGED <<mem, field, fails, call, faults>>

Plug ==
  /\ ~plugged
  /\ plugged' = TRUE
  /\ UNCHANGED <<port, rx, mem, field, fails, call, faults>>

(***************************************************************************)
(* InventoryWithReset: an inventory, and after FailLimit failures in a row *)
(* a reset of the port and one more inventory, which is not counted.       *)
(***************************************************************************)
SendInventory ==
  /\ call.op = "inventory"
  /\ \/ call.at = "send" /\ Goto("recv")
     \/ call.at = "resend" /\ Goto("rerecv")
  /\ port = "up"
  /\ AskInventory
  /\ UNCHANGED <<port, plugged, field, fails>>

NotCounted == UNCHANGED fails /\ Returns("err")

InventoryFails ==
  IF call.at \in {"send", "recv"}
  THEN LET n == IF fails = FailLimit THEN fails ELSE fails + 1
       IN  /\ fails' = n
           /\ IF n = FailLimit THEN Goto("reset") ELSE Returns("err")
  ELSE NotCounted

SendInventoryFails ==
  /\ call.op = "inventory" /\ call.at \in {"send", "resend"}
  /\ port = "down"
  /\ InventoryFails
  /\ UNCHANGED <<port, plugged, rx, mem, field, faults>>

RecvInventory ==
  /\ call.op = "inventory" /\ call.at \in {"recv", "rerecv"}
  /\ \E r \in Readable :
       /\ ReadResponse(r)
       /\ IF Accepted(r, "inv")
          THEN /\ call' = [call EXCEPT !.at = "idle", !.out = "ok", !.found = r.tags]
               /\ fails' = 0
          ELSE InventoryFails
  /\ UNCHANGED <<port, plugged, mem, field>>

\* Reopening the port discards what was received before, or the drain that
\* follows takes one frame of it.
Drained == {<<>>} \cup (IF rx = <<>> THEN {} ELSE {Tail(rx)})

ResetPort ==
  /\ call.at = "reset"
  /\ IF plugged
     THEN /\ port' = "up" /\ fails' = 0
          /\ rx' \in Drained
          /\ Goto("resend")
     ELSE /\ port' = "down" /\ rx' = <<>>
          /\ Returns("err")
          /\ UNCHANGED fails
  /\ UNCHANGED <<plugged, mem, field, faults>>

(***************************************************************************)
(* ReadAfi and ReadBlocks: one exchange.                                   *)
(***************************************************************************)
SendRead ==
  /\ call.op \in {"readafi", "readblocks"} /\ call.at = "send"
  /\ IF Sendable
     THEN /\ IF call.op = "readafi" THEN AskAfi(call.tag) ELSE AskBlocks(call.tag)
          /\ Goto("recv")
     ELSE Returns("err") /\ UNCHANGED <<rx, mem, faults>>
  /\ UNCHANGED <<port, plugged, field, fails>>

RecvRead ==
  /\ call.op \in {"readafi", "readblocks"} /\ call.at = "recv"
  /\ \E r \in Readable :
       /\ ReadResponse(r)
       /\ IF Accepted(r, IF call.op = "readafi" THEN "rdafi" ELSE "rdblk")
          THEN ReturnsValue(r.val)
          ELSE Returns("err")
  /\ UNCHANGED <<port, plugged, mem, field, fails>>

(***************************************************************************)
(* WriteBlocks: one write, then read back until it matches.                *)
(***************************************************************************)
SendWriteBlocks ==
  /\ call.op = "writeblocks" /\ call.at = "send"
  /\ IF Sendable
     THEN AskWriteBlocks(call.tag, call.val) /\ Goto("recv")
     ELSE Returns("err") /\ UNCHANGED <<rx, mem, faults>>
  /\ UNCHANGED <<port, plugged, field, fails>>

RecvWriteBlocks ==
  /\ call.op = "writeblocks" /\ call.at = "recv"
  /\ \E r \in Readable :
       /\ ReadResponse(r)
       /\ IF Accepted(r, "wrblk") THEN Goto("vsend") ELSE Returns("err")
  /\ UNCHANGED <<port, plugged, mem, field, fails>>

\* Mutants of Again: no limit, no counter.
AgainForEver(p, max)   == call' = [call EXCEPT !.at = p, !.n = @ + 1]
AgainUncounted(p, max) == call' = [call EXCEPT !.at = p]

\* One more round of a retry loop of max rounds, starting at place p.
Again(p, max) ==
  IF call.n + 1 < max
  THEN call' = [call EXCEPT !.at = p, !.n = @ + 1]
  ELSE Returns("err")

SendVerifyBlocks ==
  /\ call.op = "writeblocks" /\ call.at = "vsend"
  /\ IF Sendable
     THEN AskBlocks(call.tag) /\ Goto("vrecv")
     ELSE Again("vsend", VerifyRetries) /\ UNCHANGED <<rx, mem, faults>>
  /\ UNCHANGED <<port, plugged, field, fails>>

RecvVerifyBlocks ==
  /\ call.op = "writeblocks" /\ call.at = "vrecv"
  /\ \E r \in Readable :
       /\ ReadResponse(r)
       /\ IF Verified(r, "rdblk")
          THEN Returns("ok")
          ELSE Again("vsend", VerifyRetries)
  /\ UNCHANGED <<port, plugged, mem, field, fails>>

(***************************************************************************)
(* WriteAfi: write and read back, the two repeated together.               *)
(***************************************************************************)
SendWriteAfi ==
  /\ call.op = "writeafi" /\ call.at = "send"
  /\ IF Sendable
     THEN AskWriteAfi(call.tag, call.val) /\ Goto("recv")
     ELSE Again("send", AfiRetries) /\ UNCHANGED <<rx, mem, faults>>
  /\ UNCHANGED <<port, plugged, field, fails>>

RecvWriteAfi ==
  /\ call.op = "writeafi" /\ call.at = "recv"
  /\ \E r \in Readable :
       /\ ReadResponse(r)
       /\ IF Accepted(r, "wrafi") THEN Goto("vsend")
          ELSE IF r = NoFrame \/ (r.kind = "wrafi" /\ r.status = "busy")
               THEN Again("send", AfiRetries)
               ELSE Returns("err")
  /\ UNCHANGED <<port, plugged, mem, field, fails>>

SendVerifyAfi ==
  /\ call.op = "writeafi" /\ call.at = "vsend"
  /\ IF Sendable
     THEN AskAfi(call.tag) /\ Goto("vrecv")
     ELSE Again("send", AfiRetries) /\ UNCHANGED <<rx, mem, faults>>
  /\ UNCHANGED <<port, plugged, field, fails>>

RecvVerifyAfi ==
  /\ call.op = "writeafi" /\ call.at = "vrecv"
  /\ \E r \in Readable :
       /\ ReadResponse(r)
       /\ IF Verified(r, "rdafi")
          THEN Returns("ok")
          ELSE Again("send", AfiRetries)
  /\ UNCHANGED <<port, plugged, mem, field, fails>>

-----------------------------------------------------------------------------
Driver ==
  \/ SendInventory \/ SendInventoryFails \/ RecvInventory \/ ResetPort
  \/ SendRead \/ RecvRead
  \/ SendWriteBlocks \/ RecvWriteBlocks \/ SendVerifyBlocks \/ RecvVerifyBlocks
  \/ SendWriteAfi \/ RecvWriteAfi \/ SendVerifyAfi \/ RecvVerifyAfi

Environment == BeginInventory \/ BeginOnTag \/ MoveTags \/ Unplug \/ Plug

Next == Driver \/ Environment

Spec == Init /\ [][Next]_vars

\* The goroutine of a call runs; the staff page scans again and again.
FairSpec == Spec /\ WF_vars(Driver) /\ SF_vars(BeginInventory)

-----------------------------------------------------------------------------
TypeOK ==
  /\ port \in {"up", "down"} /\ plugged \in BOOLEAN
  /\ rx \in Seq(Frame)
  /\ mem \in Memory /\ field \in SUBSET Tags
  /\ fails \in 0 .. FailLimit
  /\ call \in Call
  /\ faults \in 0 .. MaxFaults

\* The command whose response the driver is about to read ("none" if it sent none).
Awaited ==
  CASE call.at \in {"recv", "rerecv"} /\ call.op = "inventory" -> "inv"
    [] call.at = "recv" /\ call.op = "readafi"     -> "rdafi"
    [] call.at = "recv" /\ call.op = "readblocks"  -> "rdblk"
    [] call.at = "recv" /\ call.op = "writeafi"    -> "wrafi"
    [] call.at = "recv" /\ call.op = "writeblocks" -> "wrblk"
    [] call.at = "vrecv" /\ call.op = "writeafi"   -> "rdafi"
    [] call.at = "vrecv" /\ call.op = "writeblocks" -> "rdblk"
    [] OTHER -> "none"

\* A response says what the tag of the call holds at this moment.
Truthful(f) ==
  f.status = "ok" =>
    CASE f.kind = "rdafi" -> f.val = mem.afi[call.tag]
      [] f.kind = "rdblk" -> f.val \in {mem.data[call.tag], NoVal}
      [] OTHER -> TRUE

(***************************************************************************)
(* Commands and responses stay paired: the link never holds a response     *)
(* that the driver is not about to read, and the one it holds answers the  *)
(* command just sent and is still true.  The driver does not check the tag *)
(* id of a response, so this is all that ties a result to its tag.  It     *)
(* holds as long as no response is "left" on the link.                     *)
(***************************************************************************)
InSync ==
  /\ (Awaited = "none" \/ port = "down") => rx = <<>>
  /\ Len(rx) <= 1
  /\ \A i \in DOMAIN rx :
       rx[i] = Damaged \/ (rx[i].kind = Awaited /\ Truthful(rx[i]))

\* WriteAfi that returned nil: the tag carries that AFI byte, although the
\* reader acknowledges writes the tag never took.
WriteAfiVerified ==
  (call.op = "writeafi" /\ call.at = "idle" /\ call.out = "ok")
    => mem.afi[call.tag] = call.val

\* WriteBlocks that returned nil: the tag holds the blocks, whole.
WriteBlocksVerified ==
  (call.op = "writeblocks" /\ call.at = "idle" /\ call.out = "ok")
    => mem.data[call.tag] = call.val

\* ReadAfi and ReadBlocks answer for the tag they were asked about, never
\* with a response left over from an earlier command.
ReadsAreFresh ==
  (call.at = "idle" /\ call.out = "ok") =>
    /\ call.op = "readafi" => call.got = mem.afi[call.tag]
    /\ call.op = "readblocks" => call.got \in {mem.data[call.tag], NoVal}

\* With a reader that answers every command, each call of the driver returns.
CallReturns == (call.at # "idle") ~> (call.at = "idle")

\* The comment on InventoryWithReset: it resets the port "when the reader
\* stops responding", so an inventory does not stay waiting for an answer.
StuckReaderIsReset ==
  (call.op = "inventory" /\ call.at = "recv") ~> (call.at \in {"reset", "idle"})

\* A reader plugged in again and left alone is found again by the resets the
\* scans trigger, whatever happened before, without a restart of the server.
PortRecovers == <>[]plugged => <>[](port = "up")
=============================================================================
