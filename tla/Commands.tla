------------------------------ MODULE Commands ------------------------------
(***************************************************************************)
(* The two terminal commands at one reader: tags are programmed, moved and *)
(* scanned, one command at a time having the serial port.  `label' keeps   *)
(* what each tag was last given, so that what a scan shows can be compared *)
(* with what was programmed, through encoder, blocks, reads and decoder.   *)
(***************************************************************************)
EXTENDS ProgramCommand, ScanCommand

CONSTANTS
  Barcodes,   \* the barcodes tags may carry at first, by EncodeRFID501Content
  FirstAfi    \* and their AFI byte

\* Barcodes fit a tag, and the port's two owners are not taken for its being free.
ASSUME CommandsAssumption ==
  /\ Barcodes \subseteq Seq(Byte \ {0}) /\ \A s \in Barcodes : Len(s) <= 16
  /\ FirstAfi \in Byte
  /\ NoOne \notin {"program", "scan"}

vars == <<tags, progVars, scanVars>>

Init ==
  /\ label \in [Tags -> Barcodes]
  /\ mem = [t \in Tags |-> EncodeRFID501Content(label[t])]
  /\ afi = [t \in Tags |-> FirstAfi]
  /\ field \in SUBSET Tags
  /\ owner = NoOne
  /\ ProgramInit /\ ScanInit

MoveTags ==
  /\ field' \in SUBSET Tags
  /\ UNCHANGED <<mem, afi, owner, progVars, scanVars>>

Next ==
  \/ ProgramStep /\ UNCHANGED scanVars
  \/ ScanStep /\ UNCHANGED progVars
  \/ MoveTags

Spec == Init /\ [][Next]_vars

\* The scan command runs on: driver calls return, and sleeps end.
FairSpec == Spec /\ WF_vars(ScanRound /\ UNCHANGED progVars)

-----------------------------------------------------------------------------
ScanItem == [sid : Tags, security : Byte \cup {Unread}, content : Seq(Byte)]

TypeOK ==
  /\ mem \in [Tags -> [BlockNo -> Block]] /\ afi \in [Tags -> Byte]
  /\ field \in SUBSET Tags /\ owner \in {NoOne, "program", "scan"}
  /\ prog.at \in {"ended", "open", "writing"}
  /\ scan.at \in {"ended", "open", "top", "reading", "sleep"}
  /\ scan.items \subseteq ScanItem
  /\ scan.prev \cup scan.todo \cup announced \subseteq Tags
  /\ prog.at = "writing" <=> owner = "program"
  /\ scan.at \in {"top", "reading", "sleep"} <=> owner = "scan"
  /\ tears \in 0 .. MaxTears

(***************************************************************************)
(* What a scan shows of a tag is the whole barcode it was last given, or   *)
(* the four bytes of block 0 when other blocks were lost, or nothing, and  *)
(* its AFI byte as it is or none.  Never a mixture: not of two barcodes    *)
(* (a blank overwrites three blocks only), not of bytes that slid into the *)
(* place of a lost block.  Tags programmed half way are excepted.          *)
(***************************************************************************)
ShownIsProgrammed ==
  \A x \in scan.items : label[x.sid] # Uncertain =>
    /\ x.content \in {label[x.sid], mem[x.sid][0], <<>>}
    /\ x.security \in {afi[x.sid], Unread}

(***************************************************************************)
(* The printed events tell a consistent story, whatever scans fail between *)
(* them: a tag enters when it was out and leaves when it was in, and after *)
(* each report those inside are the tags of that scan.                     *)
(***************************************************************************)
EventsAlternate ==
  [][ owner = "scan" /\ Report =>
        /\ Entered \cap announced = {}
        /\ Left \subseteq announced
        /\ announced' = Current ]_vars

\* After SIGINT the scan command ends, in the loop or trying for its one scan,
\* even if every scan from then on fails.
SignalEndsScan == (scan.sig \/ scan.done) ~> (scan.at = "ended")

\* Without -loop the command scans once and ends: it goes on, without any
\* signal, only for as long as all its scans fail, and ends with the first one
\* that gets through, however many have failed before.
OneShotEnds ==
  (scan.at # "ended" /\ ~scan.loop) ~> (scan.at = "ended" \/ [](scan.at # "reading"))
=============================================================================
