----------------------------- MODULE TagMemory -----------------------------
(***************************************************************************)
(* What an RFID library tag remembers, and what one driver call may do to  *)
(* it.  The 3M 810 reader and the tags are hardware: nothing under src/    *)
(* implements them, so they are modelled from how internal/rfid/reader.go  *)
(* uses them.  The module is shared by the driver (RfidReader), by the     *)
(* contract the driver offers (TagReader) and by the server (RfidServer).  *)
(***************************************************************************)

CONSTANTS
  Tags,      \* tag serial numbers (16 hex digits in the code)
  Afis,      \* values of the AFI byte, for instance DA and D7
  Datas,     \* complete contents of the user blocks (an encoded barcode)
  Torn,      \* contents left by a block write that stopped half way
  NoVal      \* "no value": an absent argument or an empty answer

ASSUME TagMemoryAssumption ==
  /\ NoVal \notin Tags \cup Afis \cup Datas \cup {Torn}
  /\ Torn \notin Afis \cup Datas
  /\ Afis \cap Datas = {}

Contents == Datas \cup {Torn}

Memory == [afi : [Tags -> Afis], data : [Tags -> Contents]]

\* The two ways a tag's memory can change.
SetAfi(m, t, a)  == [m EXCEPT !.afi[t] = a]
SetData(m, t, d) == [m EXCEPT !.data[t] = d]

(***************************************************************************)
(* What a radio write to tag t may leave behind.  A tag out of the field   *)
(* is untouched; a tag in the field may or may not have taken the write,   *)
(* whatever status the reader reports, which is why the driver reads back. *)
(***************************************************************************)
AfiWrites(m, field, t, a) ==
  IF t \in field THEN {m, SetAfi(m, t, a)} ELSE {m}

DataWrites(m, field, t, d) ==
  IF t \in field THEN {m, SetData(m, t, d), SetData(m, t, Torn)} ELSE {m}
=============================================================================
