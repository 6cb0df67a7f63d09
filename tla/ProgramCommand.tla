--------------------------- MODULE ProgramCommand ---------------------------
(***************************************************************************)
(* The terminal command that programs one tag (cmd/program/main.go), with  *)
(* the rfidops.Program it calls for a single op.  It checks its arguments, *)
(* opens the port, and makes its driver calls one after the other; the     *)
(* first that fails ends it, and so does a kill between or inside them.    *)
(***************************************************************************)
EXTENDS BlockTags

CONSTANTS
  Commands,   \* the command lines, see Command
  Uncertain,  \* the label of a tag that was programmed half way
  Stops,      \* bound of the model: after how many blocks a write may stop
  MaxTears    \* bound of the model: block writes that stop half way

AfiSecure   == 218   \* 0xDA
AfiUnsecure == 215   \* 0xD7

\* A command line: the SID argument, in one word with the content (comma) or
\* not; NoTag stands for a SID that is not of 16 characters.  afi = 0 and
\* type = 0 are the flags' defaults, "not given".  No argument of a process
\* has a zero byte in it.
Command ==
  [sid : Tags \cup {NoTag}, comma : BOOLEAN, content : Seq(Byte \ {0}),
   blank : BOOLEAN, blank3M : BOOLEAN, afi : Int, type : Int,
   set : Int, total : Int, branch : Int, library : Int]

ASSUME ProgramCommandAssumption == Commands \subseteq Command /\ Stops \subseteq 1 .. 7 /\ MaxTears \in Nat

VARIABLES
  prog,   \* the command that runs: its line, and its driver calls to come
  label,  \* history: the barcode each tag was given, as far as it is known
  tears

progVars == <<prog, label, tears>>

Recased(content, from, to, by) ==
  [k \in DOMAIN content |-> IF content[k] \in from .. to THEN content[k] + by ELSE content[k]]
Upper(content) == Recased(content, 97, 122, -32)
Lower(content) == Recased(content, 65, 90, 32)

\* The comma form splits the word after strings.ToUpper.
Barcoded(c)  == IF c.comma THEN Upper(c.content) ELSE c.content
Rejected(c)  == c.sid = NoTag \/ Len(Barcoded(c)) > 16
SaysBlank(c) == c.blank \/ Lower(Barcoded(c)) = <<98, 108, 97, 110, 107>>
AutoAfi(s)   == IF Starts130(s) THEN AfiSecure ELSE AfiUnsecure

ItemOf(c) ==
  [set |-> c.set, total |-> c.total,
   type |-> IF c.type % 256 # 0 THEN c.type % 256 ELSE ItemType(Barcoded(c)),
   content |-> Barcoded(c), branch |-> c.branch, library |-> c.library, custom |-> 0]

(***************************************************************************)
(* The driver calls of a command, in their order: [blocks, val] or         *)
(* [afi, val].  -3mblank has the last word, and writes no AFI of its own.  *)
(***************************************************************************)
Blocks(v) == [call |-> "blocks", val |-> v]
Afi(v)    == [call |-> "afi", val |-> v]

Programming(c) ==
  IF c.blank3M           THEN <<Blocks(Blank3MRFID501)>>
  ELSE IF SaysBlank(c)   THEN <<Blocks(BlankRFID501), Afi(AfiUnsecure)>>
  ELSE IF c.content # <<>>
       THEN <<Blocks(EncodeRFID501(ItemOf(c))), Afi(AutoAfi(Barcoded(c)))>>
  ELSE <<>>

Override(c) == IF c.afi # 0 THEN <<Afi(c.afi % 256)>> ELSE <<>>

\* Mutant of Calls: the AFI asked for is written before the automatic one.
OverrideFirst(c) == Override(c) \o Programming(c)

Calls(c) == Programming(c) \o Override(c)

Ended == [at |-> "ended", cmd |-> NoTag, todo |-> <<>>]

ProgramInit == prog = Ended /\ tears = 0

RunProgram ==
  /\ prog.at = "ended"
  /\ \E c \in Commands :
       prog' = IF Rejected(c) THEN Ended
               ELSE [at |-> "open", cmd |-> c, todo |-> Calls(c)]
  /\ UNCHANGED <<tags, label, tears>>

\* NewRfidReader, Probe and Inventory: any of them may fail, and opening does
\* when another process has the port.  A tag that the inventory does not show
\* is tried anyway; a command with nothing to write ends here.
OpenForProgram ==
  /\ prog.at = "open"
  /\ \/ prog' = Ended /\ UNCHANGED owner
     \/ /\ owner = NoOne
        /\ IF Programming(prog.cmd) # <<>>
           THEN prog' = [prog EXCEPT !.at = "writing"] /\ owner' = "program"
           ELSE prog' = Ended /\ UNCHANGED owner
  /\ UNCHANGED <<mem, afi, field, label, tears>>

Wrote(call) ==
  LET t == prog.cmd.sid IN
  /\ t \in field
  /\ IF call.call = "blocks"
     THEN mem' = [mem EXCEPT ![t] = Overlay(call.val, @)] /\ UNCHANGED afi
     ELSE afi' = [afi EXCEPT ![t] = call.val] /\ UNCHANGED mem

\* A block write that fails may have stopped after its first n blocks.
MayHaveWritten(call) ==
  LET t == prog.cmd.sid IN
  IF call.call = "blocks"
  THEN \E n \in {0, 8} \cup (IF tears < MaxTears THEN Stops ELSE {}) :
         /\ mem' = [mem EXCEPT ![t] = Remnant(t, call.val, n)]
         /\ tears' = IF n \in Stops THEN tears + 1 ELSE tears
         /\ UNCHANGED afi
  ELSE /\ afi' \in {afi} \cup (IF t \in field THEN {[afi EXCEPT ![t] = call.val]} ELSE {})
       /\ UNCHANGED <<mem, tears>>

ProgramWrites ==
  /\ prog.at = "writing" /\ prog.todo # <<>>
  /\ Wrote(Head(prog.todo))
  /\ prog' = [prog EXCEPT !.todo = Tail(@)]
  /\ UNCHANGED <<field, owner, label, tears>>

\* A driver call that fails, or a kill before, inside or after one.
ProgramBreaksOff ==
  /\ prog.at = "writing"
  /\ IF prog.todo = <<>> THEN UNCHANGED <<mem, afi, tears>> ELSE MayHaveWritten(Head(prog.todo))
  /\ prog' = Ended /\ owner' = NoOne
  /\ label' = [label EXCEPT ![prog.cmd.sid] = Uncertain]
  /\ UNCHANGED field

AllDone == prog.at = "writing" /\ prog.todo = <<>>

\* The barcode a command gives its tag, in the words of the command line.
Given(c) ==
  IF c.blank3M THEN [k \in 1 .. 16 |-> 85] ELSE IF SaysBlank(c) THEN <<>> ELSE Barcoded(c)

ProgramDone ==
  /\ AllDone
  /\ prog' = Ended /\ owner' = NoOne
  /\ label' = [label EXCEPT ![prog.cmd.sid] = Given(prog.cmd)]
  /\ UNCHANGED <<mem, afi, field, tears>>

ProgramStep ==
  RunProgram \/ OpenForProgram \/ ProgramWrites \/ ProgramBreaksOff \/ ProgramDone

-----------------------------------------------------------------------------
\* The fields of the command line, each cut to its width on the tag.
Asked(c) ==
  [set |-> c.set % 16, total |-> c.total % 16, type |-> ItemOf(c).type,
   content |-> Barcoded(c), branch |-> c.branch % 4096, library |-> c.library % 1048576,
   custom |-> 0]

(***************************************************************************)
(* "Done" means done: the tag decodes to the item asked for, with all of   *)
(* it written over what was there, a blank tag to an empty barcode, and    *)
(* the AFI byte is the one asked for or else the automatic one.            *)
(***************************************************************************)
DoneMeansProgrammed ==
  AllDone =>
    LET c   == prog.cmd
        tag == DecodeRFID501([i \in 1 .. 8 |-> mem[c.sid][i - 1]])
    IN  /\ IF c.blank3M \/ SaysBlank(c) THEN tag.content = Given(c) ELSE tag = Asked(c)
        /\ c.afi # 0 => afi[c.sid] = c.afi % 256
        /\ c.afi = 0 /\ ~c.blank3M =>
             afi[c.sid] = IF SaysBlank(c) THEN AfiUnsecure ELSE AutoAfi(Barcoded(c))
=============================================================================
