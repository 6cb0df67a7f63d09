---------------------------- MODULE ScanCommand ----------------------------
(***************************************************************************)
(* The terminal command that scans once, or in a loop until a signal, and  *)
(* prints which tags enter and leave (cmd/scan/main.go), with the          *)
(* rfidops.Scan it calls: an inventory, and two reads per tag, each of     *)
(* which may fail or find the tag gone.                                    *)
(***************************************************************************)
EXTENDS BlockTags

CONSTANT Unread   \* an AFI that could not be read: an empty security

VARIABLES
  scan,      \* the scan command
  announced  \* history: tags entered and not left, by the printed events

scanVars == <<scan, announced>>

NoScan ==
  [at |-> "ended", loop |-> FALSE, sig |-> FALSE, done |-> FALSE, prev |-> {},
   todo |-> {}, items |-> {}]

ScanInit == scan = NoScan /\ announced = {}

RunScan ==
  /\ scan.at = "ended"
  /\ \E loop \in BOOLEAN : scan' = [NoScan EXCEPT !.at = "open", !.loop = loop]
  /\ announced' = {}
  /\ UNCHANGED tags

OpenForScan ==
  /\ scan.at = "open"
  /\ \/ scan' = NoScan /\ UNCHANGED owner
     \/ owner = NoOne /\ scan' = [scan EXCEPT !.at = "top"] /\ owner' = "scan"
  /\ UNCHANGED <<mem, afi, field, announced>>

\* SIGINT or SIGTERM: it kills the process until signal.Notify is called, and
\* waits in a channel of one from then on.
Signal ==
  /\ scan.at # "ended"
  /\ scan' = IF scan.at = "open" THEN NoScan ELSE [scan EXCEPT !.sig = TRUE]
  /\ UNCHANGED <<tags, announced>>

\* Mutant of Noticed: `done := true' in the select, a variable of its own.
Shadowed == [scan EXCEPT !.sig = FALSE]

\* The select at the top of the loop; the round goes on even after a signal.
Noticed == [scan EXCEPT !.done = @ \/ scan.sig, !.sig = FALSE]

InventoryFinds ==
  /\ scan.at = "top"
  /\ scan' = [Noticed EXCEPT !.at = "reading", !.todo = field]
  /\ UNCHANGED <<tags, announced>>

\* Mutant of AfterError: the known tags are forgotten.
Forgetting(s) == [s EXCEPT !.at = "sleep", !.prev = {}]
AfterError(s) == [s EXCEPT !.at = "sleep"]

\* Scan error: pause and `continue', in the one-shot mode too.
InventoryFails ==
  /\ scan.at = "top"
  /\ scan' = AfterError(Noticed)
  /\ UNCHANGED <<tags, announced>>

ReadTag ==
  /\ scan.at = "reading"
  /\ \E t \in scan.todo, blocks \in UNION {Answers(u) : u \in Tags} :
       /\ blocks \in Answers(t)
       /\ \E a \in {Unread} \cup (IF t \in field THEN {afi[t]} ELSE {}) :
            scan' = [scan EXCEPT !.todo = @ \ {t}, !.items = @ \cup
                       {[sid |-> t, security |-> a, content |-> Content(blocks)]}]
  /\ UNCHANGED <<tags, announced>>

Current == {x.sid : x \in scan.items}
Entered == Current \ scan.prev
Left    == scan.prev \ Current

Again  == TRUE        \* mutant of GoesOn: no `break'
GoesOn == scan.loop

Report ==
  /\ scan.at = "reading" /\ scan.todo = {}
  /\ IF GoesOn
     THEN /\ scan' = [scan EXCEPT !.at = "sleep", !.prev = Current, !.items = {}]
          /\ UNCHANGED owner
     ELSE scan' = NoScan /\ owner' = NoOne
  /\ announced' = (announced \cup Entered) \ Left
  /\ UNCHANGED <<mem, afi, field>>

Wake ==
  /\ scan.at = "sleep"
  /\ IF scan.done THEN scan' = NoScan /\ owner' = NoOne
     ELSE scan' = [scan EXCEPT !.at = "top"] /\ UNCHANGED owner
  /\ UNCHANGED <<mem, afi, field, announced>>

ScanRound == OpenForScan \/ InventoryFinds \/ InventoryFails \/ ReadTag \/ Report \/ Wake
ScanStep  == RunScan \/ Signal \/ ScanRound
=============================================================================
