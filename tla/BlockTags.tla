----------------------------- MODULE BlockTags -----------------------------
(***************************************************************************)
(* Tags as the two terminal commands see them: memory block by block, the  *)
(* AFI byte, and one serial port that one process opens at a time.  The    *)
(* driver's calls take effect at once, with the outcomes its contract      *)
(* allows (TagReader), here with the blocks a call may lose.               *)
(***************************************************************************)
EXTENDS Rfid501

CONSTANTS
  Tags,        \* serial numbers of the tags there are
  BlockReads,  \* sets of blocks a ReadBlocks(tag, 0, 8) may come back with
  NoOne        \* the owner of a free port

ASSUME BlockTagsAssumption == BlockReads \subseteq SUBSET BlockNo

VARIABLES
  mem,    \* the blocks of each tag
  afi,    \* the AFI byte of each tag
  field,  \* tags the reader can see
  owner   \* the command that has the serial port open, or NoOne

tags == <<mem, afi, field, owner>>

Overlay(data, m) == [i \in BlockNo |-> IF i \in DOMAIN data THEN data[i] ELSE m[i]]
Upto(data, n)    == [i \in {b \in DOMAIN data : b < n} |-> data[i]]

\* What ReadBlocks may answer for a tag: any of the sets of blocks, or an error.
Answers(t) ==
  IF t \in field THEN {[i \in bs |-> mem[t][i]] : bs \in BlockReads} ELSE {<<>>}

\* The tag after the first n blocks of a write; untouched out of the field.
Remnant(t, data, n) == IF t \in field THEN Overlay(Upto(data, n), mem[t]) ELSE mem[t]
=============================================================================
