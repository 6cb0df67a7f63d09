------------------------ MODULE RfidReaderRefinement ------------------------
(***************************************************************************)
(* The serial driver implements the contract TagReader: a call of the      *)
(* contract is open while the driver is inside the call, and an inventory  *)
(* has sensed the field once its answer is on the link.                    *)
(***************************************************************************)
EXTENDS RfidReader

Seen == {rx[i].tags : i \in {j \in DOMAIN rx : rx[j].kind = "inv"}}

Job == [op |-> call.op, tag |-> call.tag, val |-> call.val,
        open |-> (call.at # "idle"), out |-> call.out,
        got |-> call.got, found |-> call.found,
        seen |-> IF call.op = "inventory" THEN Seen ELSE {}]

Contract == INSTANCE TagReader WITH job <- Job

\* Every step of the driver is a step its callers may rely on, or no step at
\* all: results are true, failures leave at most the tag of the call changed.
DriverImplementsContract == Contract!Spec
=============================================================================
