----------------------------- MODULE MCCommands -----------------------------
(***************************************************************************)
(* An instance of the terminal commands for TLC.  The command lines take   *)
(* in both sides of each boundary: 16 bytes and 17, the prefix 130 and     *)
(* lower case, numbers at and beyond their width, the word blank, the      *)
(* comma form, and flags that exclude each other given together.           *)
(***************************************************************************)
EXTENDS Commands

CONSTANTS t1, t2

Book     == <<49, 51, 48, 97>>                \* 130a
Sixteen  == [k \in 1 .. 16 |-> 48 + (k % 10)] \* 16 digits
Card     == <<50, 48, 48, 49, 50>>            \* 20012
BlankTag == <<66, 108, 97, 110, 107>>         \* Blank

Line(content) ==
  [sid |-> t1, comma |-> FALSE, content |-> content, blank |-> FALSE, blank3M |-> FALSE,
   afi |-> 0, type |-> 0, set |-> 1, total |-> 1, branch |-> 0, library |-> 0]

TheCommands ==
  { [Line(Book) EXCEPT !.comma = TRUE],
    [Line(Sixteen) EXCEPT !.afi = 214, !.type = 6, !.set = 15, !.total = 16,
                          !.branch = 4095, !.library = 1048575],
    [Line(Card) EXCEPT !.afi = 256, !.type = 256, !.set = -1, !.total = -1,
                       !.branch = 4096, !.library = -1],
    Line(Append(Sixteen, 49)), [Line(Card) EXCEPT !.sid = NoTag],
    Line(BlankTag), [Line(Book) EXCEPT !.blank = TRUE],
    [Line(Card) EXCEPT !.blank3M = TRUE, !.blank = TRUE],
    [Line(<<>>) EXCEPT !.afi = 218] }

TheBarcodes == {Sixteen}

TheReads ==
  {0 .. 7, {}, 0 .. 5, 0 .. 2, 1 .. 7, (0 .. 7) \ {2}}
=============================================================================
