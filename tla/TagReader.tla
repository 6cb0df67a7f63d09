----------------------------- MODULE TagReader -----------------------------
(***************************************************************************)
(* What the serial driver (internal/rfid/reader.go) promises to the code   *)
(* above it, with no frames, ports, retries or resets: one call at a time, *)
(* which may fail at any moment, may leave a write half done when it       *)
(* fails, and tells the truth when it succeeds.  RfidReaderRefinement      *)
(* shows that RfidReader implements it.                                    *)
(***************************************************************************)
EXTENDS TagMemory

VARIABLES
  mem,    \* memory of the tags
  field,  \* tags the reader can see
  job     \* the call in progress, or the last one and its result

vars == <<mem, field, job>>

\* `seen' holds the field an inventory has sensed, if it has sensed one.
Opened(op, t, v) ==
  [op |-> op, tag |-> t, val |-> v, open |-> TRUE, out |-> "none",
   got |-> NoVal, found |-> {}, seen |-> {}]

Init ==
  /\ mem \in [afi : [Tags -> Afis], data : [Tags -> Datas]]
  /\ field \in SUBSET Tags
  /\ job = [Opened("inventory", NoVal, NoVal) EXCEPT !.open = FALSE]

Begin ==
  /\ ~job.open
  /\ \/ job' = Opened("inventory", NoVal, NoVal)
     \/ \E t \in Tags :
          \/ \E op \in {"readafi", "readblocks"} : job' = Opened(op, t, NoVal)
          \/ \E a \in Afis  : job' = Opened("writeafi", t, a)
          \/ \E d \in Datas : job' = Opened("writeblocks", t, d)
  /\ UNCHANGED <<mem, field>>

\* An attempt to write: it changes the tag of the call and nothing else.
Touch ==
  /\ job.open
  /\ \/ job.op = "writeafi"    /\ mem' \in AfiWrites(mem, field, job.tag, job.val)
     \/ job.op = "writeblocks" /\ mem' \in DataWrites(mem, field, job.tag, job.val)
  /\ UNCHANGED <<field, job>>

Sense ==
  /\ job.open /\ job.op = "inventory"
  /\ job' \in {[job EXCEPT !.seen = {field}], [job EXCEPT !.seen = {}]}
  /\ UNCHANGED <<mem, field>>

Succeed ==
  /\ job.open
  /\ \/ /\ job.op = "inventory"
        /\ \E s \in job.seen :
             job' = [job EXCEPT !.open = FALSE, !.out = "ok", !.found = s, !.seen = {}]
     \/ /\ job.op = "readafi"
        /\ job' = [job EXCEPT !.open = FALSE, !.out = "ok", !.got = mem.afi[job.tag]]
     \/ /\ job.op = "readblocks"
        /\ \E v \in {mem.data[job.tag], NoVal} :
             job' = [job EXCEPT !.open = FALSE, !.out = "ok", !.got = v]
     \/ /\ \/ job.op = "writeafi"    /\ mem.afi[job.tag] = job.val
           \/ job.op = "writeblocks" /\ mem.data[job.tag] = job.val
        /\ job' = [job EXCEPT !.open = FALSE, !.out = "ok"]
  /\ UNCHANGED <<mem, field>>

Fail ==
  /\ job.open
  /\ job' = [job EXCEPT !.open = FALSE, !.out = "err", !.seen = {}]
  /\ UNCHANGED <<mem, field>>

MoveTags ==
  /\ field' \in SUBSET Tags
  /\ UNCHANGED <<mem, job>>

Next == Begin \/ Touch \/ Sense \/ Succeed \/ Fail \/ MoveTags

Spec == Init /\ [][Next]_vars
=============================================================================
