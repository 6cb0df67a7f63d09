---------------------------- MODULE MCRfidServer ----------------------------
(***************************************************************************)
(* Instances of the server for TLC: the requests of each run.  They take   *)
(* in the cases that matter: two tags, one tag named twice with different  *)
(* values, an argument the operation refuses in the middle, and no op.     *)
(***************************************************************************)
EXTENDS RfidServer, TLC

CONSTANTS t1, t2, DA, D7, book, card

OpOn(t, v) == [tag |-> t, val |-> v]
Ask(kind, ops) == [kind |-> kind, ops |-> ops]

Scan == Ask("scan", <<>>)

Secures ==
  { Ask("secure", <<OpOn(t1, D7), OpOn(t1, DA), OpOn(t2, D7)>>),
    Ask("secure", <<OpOn(t1, DA), OpOn(t2, BadAfi), OpOn(t2, DA)>>),
    Ask("secure", <<>>) }

Programs ==
  { Ask("program", <<OpOn(t1, book), OpOn(t1, card)>>),
    Ask("program", <<OpOn(t2, TooLong), OpOn(t1, card)>>) }

Writes == Secures \cup Programs

ScansAndWrites == {Scan, Ask("program", <<OpOn(t1, card)>>)}

\* A book, "130...", is programmed DA, a patron card D7.
AfiOfContent == [d \in Datas |-> IF d = book THEN DA ELSE D7]
=============================================================================
