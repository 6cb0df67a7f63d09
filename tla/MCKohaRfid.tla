----------------------------- MODULE MCKohaRfid -----------------------------
(***************************************************************************)
(* Instances of the page script for TLC: the pages of each run.            *)
(***************************************************************************)
EXTENDS KohaRfid, TLC

PageOf(path, tab, patron) == [path |-> path, tab |-> tab, patron |-> patron]

Returns == PageOf("returns", "none", FALSE)
Renewal == PageOf("renew", "none", FALSE)
Loans   == PageOf("circ", "out", TRUE)
Main    == PageOf("other", "out", FALSE)

DeskPages == {Returns, Main}
LoanPages == {Returns, Loans}
LivePages == {Returns, Loans, Renewal}
=============================================================================
