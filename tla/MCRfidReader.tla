---------------------------- MODULE MCRfidReader ----------------------------
(***************************************************************************)
(* Instances of the serial driver for TLC.  The .cfg files give the link   *)
(* its faults: damaged and lost frames, responses left unread, silence.    *)
(***************************************************************************)
EXTENDS RfidReaderRefinement
=============================================================================
