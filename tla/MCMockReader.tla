---------------------------- MODULE MCMockReader ----------------------------
(***************************************************************************)
(* An instance of the mock reader for TLC.  A test may post two tags, with *)
(* and without content, with a good, a missing and a malformed security,   *)
(* or a list of both; failures come two at a time, up to six, so that they *)
(* end inside the rounds of one scan and of two.                           *)
(***************************************************************************)
EXTENDS MockReader

CONSTANTS s1, s2, DA, D7, bad, book, empty

Tag(s, c, a) == [sid |-> s, content |-> c, security |-> a]

ThePosts == { Tag(s1, book, D7), Tag(s2, empty, bad) }

TheLists == { <<Tag(s2, book, DA), Tag(s1, empty, empty)>> }

TheOps == { [sid |-> s1, afi |-> D7], [sid |-> s2, afi |-> DA] }
=============================================================================
