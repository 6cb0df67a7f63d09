-------------------------- MODULE RfidReaderProofs --------------------------
(***************************************************************************)
(* Proofs about the serial driver, for every set of tags, every number of  *)
(* retries and every number of link faults.                                *)
(***************************************************************************)
EXTENDS RfidReaderRefinement, TagMemoryProofs, TLAPS

-----------------------------------------------------------------------------
(***************************************************************************)
(* Frames and the link.                                                    *)
(***************************************************************************)
LEMMA PlainType ==
  /\ \A k \in Kinds \cup {"damaged", "none"} : Plain(k) \in Frame
  /\ Damaged \in Frame /\ NoFrame \in Frame
  BY DEF Plain, Damaged, NoFrame, Frame

LEMMA ReplyType ==
  ASSUME NEW k \in Kinds, NEW s \in {"ok", "busy", "fail"},
         NEW v \in Afis \cup Contents \cup {NoVal}, NEW ts \in SUBSET Tags
  PROVE  Reply(k, s, v, ts) \in Frame
  BY DEF Reply, Frame

LEMMA DeliverType ==
  ASSUME TypeOK, NEW f \in Frame, Deliver(f)
  PROVE  rx' \in Seq(Frame) /\ faults' \in 0 .. MaxFaults
  BY PlainType, RfidReaderAssumption DEF TypeOK, Deliver

LEMMA ReadType ==
  ASSUME TypeOK, NEW r \in Readable, ReadResponse(r)
  PROVE  r \in Frame /\ rx' \in Seq(Frame) /\ faults' \in 0 .. MaxFaults
<1>1. r \in Frame
  BY PlainType DEF TypeOK, Readable
<1>2. rx' \in Seq(Frame) /\ faults' \in 0 .. MaxFaults
  BY RfidReaderAssumption DEF TypeOK, ReadResponse
<1> QED  BY <1>1, <1>2

-----------------------------------------------------------------------------
(***************************************************************************)
(* The record of the call.                                                 *)
(***************************************************************************)
\* The arguments of the call in progress, or of the last one.
ArgumentsOK ==
  /\ call.op # "inventory" => call.tag \in Tags
  /\ call.op = "writeafi" => call.val \in Afis
  /\ call.op = "writeblocks" => call.val \in Datas

SameCall == call'.op = call.op /\ call'.tag = call.tag /\ call'.val = call.val

LEMMA GotoType ==
  ASSUME call \in Call, NEW p \in Places, Goto(p)
  PROVE  call' \in Call /\ SameCall
  BY DEF Call, Goto, SameCall, Places

LEMMA ReturnsType ==
  ASSUME call \in Call, NEW o \in {"ok", "err"}, Returns(o)
  PROVE  call' \in Call /\ SameCall
  BY DEF Call, Returns, SameCall, Places

LEMMA ReturnsValueType ==
  ASSUME call \in Call, NEW v \in Afis \cup Contents \cup {NoVal}, ReturnsValue(v)
  PROVE  call' \in Call /\ SameCall
  BY DEF Call, ReturnsValue, SameCall, Places

LEMMA FoundType ==
  ASSUME call \in Call, NEW ts \in SUBSET Tags,
         call' = [call EXCEPT !.at = "idle", !.out = "ok", !.found = ts]
  PROVE  call' \in Call /\ SameCall
  BY DEF Call, SameCall, Places

LEMMA AgainType ==
  ASSUME call \in Call, NEW p \in Places, NEW max \in {AfiRetries, VerifyRetries},
         Again(p, max)
  PROVE  call' \in Call /\ SameCall
<1>1. CASE call.n + 1 < max
  <2>1. call.n + 1 \in 0 .. AfiRetries + VerifyRetries
    BY <1>1, RfidReaderAssumption DEF Call
  <2> QED  BY <1>1, <2>1 DEF Again, Call, SameCall
<1>2. CASE ~(call.n + 1 < max)
  BY <1>2, ReturnsType DEF Again
<1> QED  BY <1>1, <1>2

LEMMA InventoryFailsType ==
  ASSUME TypeOK, InventoryFails
  PROVE  call' \in Call /\ SameCall /\ fails' \in 0 .. FailLimit
<1> DEFINE n == IF fails = FailLimit THEN fails ELSE fails + 1
<1>1. n \in 0 .. FailLimit
  BY RfidReaderAssumption DEF TypeOK
<1>2. fails' \in 0 .. FailLimit
  BY <1>1 DEF InventoryFails, NotCounted, TypeOK
<1>3. Goto("reset") \/ Returns("err")
  BY DEF InventoryFails, NotCounted
<1> QED  BY <1>2, <1>3, GotoType, ReturnsType DEF TypeOK, Places

-----------------------------------------------------------------------------
(***************************************************************************)
(* The commands.                                                           *)
(***************************************************************************)
LEMMA AskReadType ==
  ASSUME TypeOK, NEW t \in Tags, AskAfi(t) \/ AskBlocks(t)
  PROVE  mem' = mem /\ rx' \in Seq(Frame) /\ faults' \in 0 .. MaxFaults
<1>1. /\ mem.afi[t] \in Afis \cup Contents \cup {NoVal}
      /\ mem.data[t] \in Afis \cup Contents \cup {NoVal}
      /\ NoVal \in Afis \cup Contents \cup {NoVal}
  BY DEF TypeOK, Memory
<1>2. /\ Reply("rdafi", "ok", mem.afi[t], {}) \in Frame
      /\ Reply("rdafi", "fail", NoVal, {}) \in Frame
      /\ Reply("rdblk", "ok", mem.data[t], {}) \in Frame
      /\ Reply("rdblk", "ok", NoVal, {}) \in Frame
      /\ Reply("rdblk", "fail", NoVal, {}) \in Frame
  BY <1>1, ReplyType DEF Kinds
<1>3. \E f \in Frame : Deliver(f)
  BY <1>2 DEF AskAfi, AskBlocks
<1> QED  BY <1>3, DeliverType DEF AskAfi, AskBlocks

LEMMA AskInventoryType ==
  ASSUME TypeOK, AskInventory
  PROVE  mem' = mem /\ rx' \in Seq(Frame) /\ faults' \in 0 .. MaxFaults
<1>1. Reply("inv", "ok", NoVal, field) \in Frame
  BY ReplyType DEF Kinds, TypeOK
<1> QED  BY <1>1, DeliverType DEF AskInventory

LEMMA AskWriteAfiType ==
  ASSUME TypeOK, NEW t \in Tags, NEW a \in Afis, AskWriteAfi(t, a)
  PROVE  mem' \in Memory /\ rx' \in Seq(Frame) /\ faults' \in 0 .. MaxFaults
<1>1. PICK s \in {"ok", "busy", "fail"} : Deliver(Reply("wrafi", s, NoVal, {}))
  BY DEF AskWriteAfi
<1>2. Reply("wrafi", s, NoVal, {}) \in Frame
  BY ReplyType DEF Kinds
<1>3. mem' \in Memory
  BY AfiWritesType DEF AskWriteAfi, TypeOK
<1> QED  BY <1>1, <1>2, <1>3, DeliverType

LEMMA AskWriteBlocksType ==
  ASSUME TypeOK, NEW t \in Tags, NEW d \in Datas, AskWriteBlocks(t, d)
  PROVE  mem' \in Memory /\ rx' \in Seq(Frame) /\ faults' \in 0 .. MaxFaults
<1>1. PICK s \in {"ok", "busy", "fail"} : Deliver(Reply("wrblk", s, NoVal, {}))
  BY DEF AskWriteBlocks
<1>2. Reply("wrblk", s, NoVal, {}) \in Frame
  BY ReplyType DEF Kinds
<1>3. mem' \in Memory
  BY DataWritesType DEF AskWriteBlocks, TypeOK
<1> QED  BY <1>1, <1>2, <1>3, DeliverType

-----------------------------------------------------------------------------
(***************************************************************************)
(* Type correctness.                                                       *)
(***************************************************************************)
TypeInv == TypeOK /\ ArgumentsOK

LEMMA TypeInit == Init => TypeInv
<1> SUFFICES ASSUME Init PROVE TypeInv
  OBVIOUS
<1>1. mem \in Memory
  BY DEF Init, Memory, Contents
<1>2. call \in Call /\ call.op = "inventory"
  <2>1. 0 \in 0 .. AfiRetries + VerifyRetries
    BY RfidReaderAssumption
  <2> QED  BY <2>1 DEF Init, Started, Call, Ops, Places
<1>3. fails \in 0 .. FailLimit /\ faults \in 0 .. MaxFaults
  BY RfidReaderAssumption DEF Init
<1> QED  BY <1>1, <1>2, <1>3 DEF Init, TypeInv, TypeOK, ArgumentsOK

LEMMA BeginType ==
  ASSUME TypeInv, BeginInventory \/ BeginOnTag
  PROVE  TypeInv'
<1>0. 0 \in 0 .. AfiRetries + VerifyRetries
  BY RfidReaderAssumption
<1>1. /\ \/ call' = Started("inventory", NoVal, NoVal)
         \/ \E t \in Tags :
              \/ \E op \in {"readafi", "readblocks"} : call' = Started(op, t, NoVal)
              \/ \E a \in Afis : call' = Started("writeafi", t, a)
              \/ \E d \in Datas : call' = Started("writeblocks", t, d)
      /\ UNCHANGED <<port, plugged, rx, mem, field, fails, faults>>
  BY DEF BeginInventory, BeginOnTag, Begin
<1>2. call' \in Call /\ ArgumentsOK'
  BY <1>0, <1>1 DEF Started, Call, Ops, Places, ArgumentsOK
<1> QED  BY <1>1, <1>2 DEF TypeInv, TypeOK

LEMMA TypeStep == TypeInv /\ [Next]_vars => TypeInv'
<1> SUFFICES ASSUME TypeInv, [Next]_vars PROVE TypeInv'
  OBVIOUS
<1> USE DEF TypeInv
<1>a. ASSUME call' \in Call, SameCall PROVE ArgumentsOK'
  BY <1>a DEF ArgumentsOK, SameCall
<1>1. CASE BeginInventory \/ BeginOnTag
  BY <1>1, BeginType
<1>2. CASE MoveTags \/ Unplug \/ Plug \/ UNCHANGED vars
  <2>1. call' = call
    BY <1>2 DEF MoveTags, Unplug, Plug, vars
  <2>2. ArgumentsOK'
    BY <2>1 DEF ArgumentsOK
  <2>3. CASE MoveTags
    BY <2>3, <2>1, <2>2 DEF MoveTags, TypeOK
  <2>4. CASE Unplug
    <3>1. rx' \in Seq(Frame)
      BY <2>4 DEF Unplug
    <3>2. plugged' \in BOOLEAN
      BY <2>4 DEF Unplug
    <3> QED  BY <2>4, <2>1, <2>2, <3>1, <3>2 DEF Unplug, TypeOK
  <2>5. CASE Plug
    BY <2>5, <2>1, <2>2 DEF Plug, TypeOK
  <2>6. CASE UNCHANGED vars
    BY <2>6, <2>1, <2>2 DEF vars, TypeOK
  <2> QED  BY <1>2, <2>3, <2>4, <2>5, <2>6
<1>3. CASE SendInventory
  <2>1. call' \in Call /\ SameCall
    BY <1>3, GotoType DEF SendInventory, TypeOK, Places
  <2> QED  BY <1>3, <1>a, <2>1, AskInventoryType DEF SendInventory, TypeOK
<1>4. CASE SendInventoryFails
  BY <1>4, <1>a, InventoryFailsType DEF SendInventoryFails, TypeOK
<1>5. CASE RecvInventory
  <2>1. PICK r \in Readable :
          /\ ReadResponse(r)
          /\ IF Accepted(r, "inv")
             THEN /\ call' = [call EXCEPT !.at = "idle", !.out = "ok", !.found = r.tags]
                  /\ fails' = 0
             ELSE InventoryFails
    BY <1>5 DEF RecvInventory
  <2>2. r \in Frame /\ rx' \in Seq(Frame) /\ faults' \in 0 .. MaxFaults
    BY <2>1, ReadType
  <2>3. call' \in Call /\ SameCall /\ fails' \in 0 .. FailLimit
    <3>1. CASE Accepted(r, "inv")
      <4>1. r.tags \in SUBSET Tags
        BY <2>2 DEF Frame
      <4>2. fails' \in 0 .. FailLimit
        BY <2>1, <3>1, RfidReaderAssumption
      <4> QED  BY <2>1, <3>1, <4>1, <4>2, FoundType DEF TypeOK
    <3>2. CASE ~Accepted(r, "inv")
      BY <2>1, <3>2, InventoryFailsType
    <3> QED  BY <3>1, <3>2
  <2> QED  BY <1>5, <1>a, <2>2, <2>3 DEF RecvInventory, TypeOK
<1>6. CASE ResetPort
  <2>1. call' \in Call /\ SameCall
    BY <1>6, GotoType, ReturnsType DEF ResetPort, TypeOK, Places
  <2>2. rx' \in Seq(Frame)
    <3>1. <<>> \in Seq(Frame) /\ (rx # <<>> => Tail(rx) \in Seq(Frame))
      BY DEF TypeOK
    <3> QED  BY <1>6, <3>1 DEF ResetPort, Drained, TypeOK
  <2> QED  BY <1>6, <1>a, <2>1, <2>2, RfidReaderAssumption DEF ResetPort, TypeOK
<1>7. CASE SendRead
  <2>1. call.tag \in Tags
    BY <1>7 DEF SendRead, ArgumentsOK
  <2>2. call' \in Call /\ SameCall
    BY <1>7, GotoType, ReturnsType DEF SendRead, TypeOK, Places
  <2>3. mem' = mem /\ rx' \in Seq(Frame) /\ faults' \in 0 .. MaxFaults
    BY <1>7, <2>1, AskReadType DEF SendRead, TypeOK
  <2> QED  BY <1>7, <1>a, <2>2, <2>3 DEF SendRead, TypeOK
<1>8. CASE RecvRead
  <2>1. PICK r \in Readable : ReadResponse(r) /\ (ReturnsValue(r.val) \/ Returns("err"))
    BY <1>8 DEF RecvRead
  <2>2. r \in Frame /\ rx' \in Seq(Frame) /\ faults' \in 0 .. MaxFaults
    BY <2>1, ReadType
  <2>3. r.val \in Afis \cup Contents \cup {NoVal}
    BY <2>2 DEF Frame
  <2>4. call' \in Call /\ SameCall
    BY <2>1, <2>3, ReturnsType, ReturnsValueType DEF TypeOK
  <2> QED  BY <1>8, <1>a, <2>2, <2>4 DEF RecvRead, TypeOK
<1>9. CASE SendWriteBlocks
  <2>1. call.tag \in Tags /\ call.val \in Datas
    BY <1>9 DEF SendWriteBlocks, ArgumentsOK
  <2>2. call' \in Call /\ SameCall
    BY <1>9, GotoType, ReturnsType DEF SendWriteBlocks, TypeOK, Places
  <2>3. mem' \in Memory /\ rx' \in Seq(Frame) /\ faults' \in 0 .. MaxFaults
    BY <1>9, <2>1, AskWriteBlocksType DEF SendWriteBlocks, TypeOK
  <2> QED  BY <1>9, <1>a, <2>2, <2>3 DEF SendWriteBlocks, TypeOK
<1>10. CASE RecvWriteBlocks \/ RecvVerifyBlocks \/ RecvWriteAfi \/ RecvVerifyAfi
  <2>1. PICK r \in Readable :
          /\ ReadResponse(r)
          /\ \/ Goto("vsend") \/ Returns("ok") \/ Returns("err")
             \/ Again("vsend", VerifyRetries) \/ Again("send", AfiRetries)
    BY <1>10 DEF RecvWriteBlocks, RecvVerifyBlocks, RecvWriteAfi, RecvVerifyAfi
  <2>2. r \in Frame /\ rx' \in Seq(Frame) /\ faults' \in 0 .. MaxFaults
    BY <2>1, ReadType
  <2>3. call' \in Call /\ SameCall
    BY <2>1, GotoType, ReturnsType, AgainType DEF TypeOK, Places
  <2> QED  BY <1>10, <1>a, <2>2, <2>3
           DEF RecvWriteBlocks, RecvVerifyBlocks, RecvWriteAfi, RecvVerifyAfi, TypeOK
<1>11. CASE SendVerifyBlocks \/ SendVerifyAfi
  <2>1. call.tag \in Tags
    BY <1>11 DEF SendVerifyBlocks, SendVerifyAfi, ArgumentsOK
  <2>2. call' \in Call /\ SameCall
    BY <1>11, GotoType, AgainType DEF SendVerifyBlocks, SendVerifyAfi, TypeOK, Places
  <2>3. mem' = mem /\ rx' \in Seq(Frame) /\ faults' \in 0 .. MaxFaults
    BY <1>11, <2>1, AskReadType DEF SendVerifyBlocks, SendVerifyAfi, TypeOK
  <2> QED  BY <1>11, <1>a, <2>2, <2>3 DEF SendVerifyBlocks, SendVerifyAfi, TypeOK
<1>12. CASE SendWriteAfi
  <2>1. call.tag \in Tags /\ call.val \in Afis
    BY <1>12 DEF SendWriteAfi, ArgumentsOK
  <2>2. call' \in Call /\ SameCall
    BY <1>12, GotoType, AgainType DEF SendWriteAfi, TypeOK, Places
  <2>3. mem' \in Memory /\ rx' \in Seq(Frame) /\ faults' \in 0 .. MaxFaults
    BY <1>12, <2>1, AskWriteAfiType DEF SendWriteAfi, TypeOK
  <2> QED  BY <1>12, <1>a, <2>2, <2>3 DEF SendWriteAfi, TypeOK
<1> QED
  BY <1>1, <1>2, <1>3, <1>4, <1>5, <1>6, <1>7, <1>8, <1>9, <1>10, <1>11, <1>12
  DEF Next, Driver, Environment

\* The variables keep their types: retry counters and the failure count stay
\* within their limits through every retry, failure and reset.
THEOREM TypeCorrect == Spec => []TypeOK
<1>1. Spec => []TypeInv
  BY TypeInit, TypeStep, PTL DEF Spec
<1>2. TypeInv => TypeOK
  BY DEF TypeInv
<1> QED  BY <1>1, <1>2, PTL

-----------------------------------------------------------------------------
(***************************************************************************)
(* Commands and responses stay paired on a link that leaves no response    *)
(* unread.  Two observations carry the proof: a command is only sent on an *)
(* empty link, so that the link then holds its answer or nothing; and a    *)
(* read empties the link.                                                  *)
(***************************************************************************)
PairedInv == TypeInv /\ InSync

LEMMA EmptyIsInSync ==
  ASSUME rx' = <<>>
  PROVE  InSync'
  BY DEF InSync

LEMMA NothingAwaited ==
  ASSUME call.at \notin {"recv", "vrecv", "rerecv"}
  PROVE  Awaited = "none"
  BY DEF Awaited

LEMMA SendSync ==
  ASSUME PairedInv, NEW f \in Frame, Deliver(f),
         call.at \notin {"recv", "vrecv", "rerecv"},
         port' = "up", f.kind = Awaited', Truthful(f)', Awaited' # "none"
  PROVE  InSync'
<1>1. rx = <<>>
  BY NothingAwaited DEF PairedInv, InSync
<1>2. rx' \in {<<>>, <<f>>, <<Damaged>>}
  BY <1>1, PlainType DEF Deliver
<1>3. CASE rx' = <<f>>
  BY <1>3 DEF InSync
<1>4. CASE rx' = <<Damaged>>
  BY <1>4 DEF InSync
<1> QED  BY <1>2, <1>3, <1>4, EmptyIsInSync

LEMMA RecvSync ==
  ASSUME PairedInv, "left" \notin LinkFaults, NEW r, ReadResponse(r)
  PROVE  /\ rx' = <<>>
         /\ r.status = "ok" => r.kind = Awaited /\ Truthful(r)
<1>1. CASE port = "down"
  BY <1>1 DEF PairedInv, InSync, ReadResponse, NoFrame, Plain
<1>2. CASE port = "up"
  <2>1. rx # <<>> /\ rx' = Tail(rx) /\ r = IF Head(rx) = Damaged THEN NoFrame ELSE Head(rx)
    BY <1>2 DEF ReadResponse
  <2>2. rx \in Seq(Frame) /\ Len(rx) = 1 /\ 1 \in DOMAIN rx /\ Head(rx) = rx[1]
    <3>1. rx \in Seq(Frame) /\ Len(rx) <= 1
      BY DEF PairedInv, TypeInv, TypeOK, InSync
    <3>2. Len(rx) \in Nat /\ Len(rx) # 0
      BY <2>1, <3>1
    <3>3. ASSUME NEW n \in Nat, n # 0, n <= 1 PROVE n = 1
      BY <3>3
    <3>4. Len(rx) = 1
      BY <3>1, <3>2, <3>3
    <3> QED  BY <3>1, <3>4
  <2>3. rx' = <<>>
    BY <2>1, <2>2
  <2>4. CASE Head(rx) = Damaged
    BY <2>1, <2>3, <2>4 DEF NoFrame, Plain
  <2>5. CASE Head(rx) # Damaged /\ r.status = "ok"
    <3>1. r = rx[1] /\ r \in Frame
      BY <2>1, <2>2, <2>5
    <3>2. r.kind = Awaited /\ Truthful(r)
      BY <2>2, <2>5, <3>1 DEF PairedInv, InSync
    <3> QED  BY <2>3, <3>1, <3>2
  <2> QED  BY <2>3, <2>4, <2>5, <2>1
<1> QED  BY <1>1, <1>2 DEF PairedInv, TypeInv, TypeOK

LEMMA PairedStep == "left" \notin LinkFaults /\ PairedInv /\ [Next]_vars => InSync'
<1> SUFFICES ASSUME "left" \notin LinkFaults, PairedInv, [Next]_vars PROVE InSync'
  OBVIOUS
<1> USE DEF PairedInv
<1>t. TypeInv /\ TypeInv'
  BY TypeStep
<1>e. ASSUME call.at \notin {"recv", "vrecv", "rerecv"} PROVE rx = <<>>
  BY <1>e, NothingAwaited DEF InSync
<1>1. CASE BeginInventory \/ BeginOnTag
  <2>1. call.at = "idle" /\ rx' = rx
    BY <1>1 DEF BeginInventory, BeginOnTag, Begin
  <2> QED  BY <2>1, <1>e, EmptyIsInSync
<1>2. CASE MoveTags \/ Plug \/ UNCHANGED vars
  <2>1. call' = call /\ rx' = rx /\ mem' = mem /\ port' = port
    BY <1>2 DEF MoveTags, Plug, vars
  <2>2. Awaited' = Awaited
    BY <2>1 DEF Awaited
  <2>3. ASSUME NEW i \in DOMAIN rx PROVE Truthful(rx[i])' <=> Truthful(rx[i])
    BY <2>1 DEF Truthful
  <2> QED  BY <2>1, <2>2, <2>3 DEF InSync
<1>3. CASE Unplug
  BY <1>3, EmptyIsInSync DEF Unplug
<1>4. CASE SendInventoryFails
  <2>1. call.at \in {"send", "resend"} /\ rx' = rx
    BY <1>4 DEF SendInventoryFails
  <2> QED  BY <2>1, <1>e, EmptyIsInSync
<1>5. CASE ResetPort
  <2>1. rx = <<>>
    BY <1>5, <1>e DEF ResetPort
  <2> QED  BY <1>5, <2>1, EmptyIsInSync DEF ResetPort, Drained
<1>6. CASE RecvInventory \/ RecvRead \/ RecvWriteBlocks \/ RecvVerifyBlocks
           \/ RecvWriteAfi \/ RecvVerifyAfi
  <2>1. \E r : ReadResponse(r)
    BY <1>6 DEF RecvInventory, RecvRead, RecvWriteBlocks, RecvVerifyBlocks,
                RecvWriteAfi, RecvVerifyAfi
  <2> QED  BY <2>1, RecvSync, EmptyIsInSync
<1>7. CASE SendInventory
  <2>1. PICK f \in Frame : f = Reply("inv", "ok", NoVal, field)
    BY <1>t, ReplyType DEF Kinds, TypeInv, TypeOK
  <2>2. call.at \in {"send", "resend"} /\ Deliver(f) /\ port' = "up"
    BY <1>7, <2>1 DEF SendInventory, AskInventory
  <2>3. Awaited' = "inv"
    BY <1>7, <1>t DEF SendInventory, Goto, Awaited, TypeInv, TypeOK, Call
  <2>4. f.kind = "inv" /\ Truthful(f)'
    BY <2>1 DEF Reply, Truthful
  <2> QED  BY <2>1, <2>2, <2>3, <2>4, SendSync
<1>8. CASE SendRead \/ SendVerifyBlocks \/ SendVerifyAfi
  <2>1. /\ call.at \in {"send", "vsend"} /\ call.tag \in Tags
        /\ call'.tag = call.tag /\ mem' = mem /\ port' = port
    <3>1. call.op # "inventory" /\ call.at \in {"send", "vsend"} /\ port' = port
      BY <1>8 DEF SendRead, SendVerifyBlocks, SendVerifyAfi
    <3>2. mem' = mem
      BY <1>8 DEF SendRead, SendVerifyBlocks, SendVerifyAfi, AskAfi, AskBlocks
    <3>3. call'.tag = call.tag
      BY <1>8, <1>t DEF SendRead, SendVerifyBlocks, SendVerifyAfi, Goto, Returns, Again,
                        TypeInv, TypeOK, Call
    <3> QED  BY <3>1, <3>2, <3>3, <1>t DEF TypeInv, ArgumentsOK
  <2>2. CASE rx' = rx
    BY <2>1, <2>2, <1>e, EmptyIsInSync
  <2>3. CASE rx' # rx
    <3>1. /\ Sendable
          /\ \/ AskAfi(call.tag) /\ Awaited' = "rdafi"
             \/ AskBlocks(call.tag) /\ Awaited' = "rdblk"
      BY <1>8, <1>t, <2>3 DEF SendRead, SendVerifyBlocks, SendVerifyAfi, Goto, Awaited,
                              TypeInv, TypeOK, Call
    <3>2. CASE AskAfi(call.tag) /\ Awaited' = "rdafi"
      <4>1. PICK s \in {"ok", "fail"}, v \in {mem.afi[call.tag], NoVal} :
              /\ Deliver(Reply("rdafi", s, v, {}))
              /\ s = "ok" => v = mem.afi[call.tag]
        BY <3>2 DEF AskAfi
      <4>2. Reply("rdafi", s, v, {}) \in Frame
        <5>1. v \in Afis \cup Contents \cup {NoVal}
          BY <1>t, <2>1 DEF TypeInv, TypeOK, Memory
        <5> QED  BY <5>1, ReplyType DEF Kinds
      <4>3. Truthful(Reply("rdafi", s, v, {}))'
        BY <2>1, <4>1 DEF Truthful, Reply
      <4>4. Reply("rdafi", s, v, {}).kind = "rdafi"
        BY DEF Reply
      <4> QED  BY <2>1, <3>1, <3>2, <4>1, <4>2, <4>3, <4>4, SendSync DEF Sendable
    <3>3. CASE AskBlocks(call.tag) /\ Awaited' = "rdblk"
      <4>1. PICK s \in {"ok", "fail"}, v \in {mem.data[call.tag], NoVal} :
              Deliver(Reply("rdblk", s, v, {}))
        BY <3>3 DEF AskBlocks
      <4>2. Reply("rdblk", s, v, {}) \in Frame
        <5>1. v \in Afis \cup Contents \cup {NoVal}
          BY <1>t, <2>1 DEF TypeInv, TypeOK, Memory
        <5> QED  BY <5>1, ReplyType DEF Kinds
      <4>3. Truthful(Reply("rdblk", s, v, {}))'
        BY <2>1, <4>1 DEF Truthful, Reply
      <4>4. Reply("rdblk", s, v, {}).kind = "rdblk"
        BY DEF Reply
      <4> QED  BY <2>1, <3>1, <3>3, <4>1, <4>2, <4>3, <4>4, SendSync DEF Sendable
    <3> QED  BY <3>1, <3>2, <3>3
  <2> QED  BY <2>2, <2>3
<1>9. CASE SendWriteBlocks \/ SendWriteAfi
  <2>1. call.at = "send" /\ port' = port
    BY <1>9 DEF SendWriteBlocks, SendWriteAfi
  <2>2. CASE rx' = rx
    BY <2>1, <2>2, <1>e, EmptyIsInSync
  <2>3. CASE rx' # rx
    <3>1. /\ Sendable
          /\ \/ AskWriteAfi(call.tag, call.val) /\ Awaited' = "wrafi"
             \/ AskWriteBlocks(call.tag, call.val) /\ Awaited' = "wrblk"
      BY <1>9, <1>t, <2>3 DEF SendWriteBlocks, SendWriteAfi, Goto, Awaited,
                              TypeInv, TypeOK, Call
    <3>2. PICK k \in {"wrafi", "wrblk"}, s \in {"ok", "busy", "fail"} :
            Deliver(Reply(k, s, NoVal, {})) /\ Awaited' = k
      BY <3>1 DEF AskWriteAfi, AskWriteBlocks
    <3>3. Reply(k, s, NoVal, {}) \in Frame
      BY ReplyType DEF Kinds
    <3>4. Reply(k, s, NoVal, {}).kind = k /\ Truthful(Reply(k, s, NoVal, {}))'
      BY DEF Reply, Truthful
    <3> QED  BY <2>1, <3>1, <3>2, <3>3, <3>4, SendSync DEF Sendable
  <2> QED  BY <2>2, <2>3
<1> QED
  BY <1>1, <1>2, <1>3, <1>4, <1>5, <1>6, <1>7, <1>8, <1>9 DEF Next, Driver, Environment

\* The driver reads the answer to the command it sent, and nothing else, as
\* long as no error of readResponse leaves a response unread.
THEOREM LinkStaysPaired == "left" \notin LinkFaults => (Spec => []InSync)
<1> SUFFICES ASSUME "left" \notin LinkFaults PROVE Spec => []InSync
  OBVIOUS
<1>1. Init => PairedInv
  BY TypeInit, EmptyIsInSync DEF Init, PairedInv, InSync
<1>2. PairedInv /\ [Next]_vars => PairedInv'
  BY TypeStep, PairedStep DEF PairedInv
<1>3. PairedInv => InSync
  BY DEF PairedInv
<1> QED  BY <1>1, <1>2, <1>3, PTL DEF Spec

-----------------------------------------------------------------------------
(***************************************************************************)
(* Results are true.  A call that is still running, or that failed,        *)
(* promises nothing; a call that succeeds has just read a true response;   *)
(* and no tag changes while no call runs.                                  *)
(***************************************************************************)
TrueResults == WriteAfiVerified /\ WriteBlocksVerified /\ ReadsAreFresh

LEMMA RunningOrFailed ==
  ASSUME call'.at # "idle" \/ call'.out = "err"
  PROVE  TrueResults'
  BY DEF TrueResults, WriteAfiVerified, WriteBlocksVerified, ReadsAreFresh

LEMMA RunningOps ==
  ASSUME TypeInv,
         \/ \E p \in Places \ {"idle"} : Goto(p)
         \/ Returns("err")
         \/ \E p \in Places \ {"idle"}, max \in {AfiRetries, VerifyRetries} : Again(p, max)
  PROVE  TrueResults'
<1>1. call' \in Call /\ (call'.at # "idle" \/ call'.out = "err")
  <2>1. CASE \E p \in Places \ {"idle"} : Goto(p)
    BY <2>1 DEF Goto, TypeInv, TypeOK, Call
  <2>2. CASE Returns("err")
    BY <2>2 DEF Returns, TypeInv, TypeOK, Call, Places
  <2>3. CASE \E p \in Places \ {"idle"}, max \in {AfiRetries, VerifyRetries} : Again(p, max)
    <3>1. PICK p \in Places \ {"idle"}, max \in {AfiRetries, VerifyRetries} : Again(p, max)
      BY <2>3
    <3>2. call' \in Call
      BY <3>1, AgainType DEF TypeInv, TypeOK
    <3>3. \/ call' = [call EXCEPT !.at = p, !.n = @ + 1]
          \/ call' = [call EXCEPT !.at = "idle", !.out = "err"]
      BY <3>1 DEF Again, Returns
    <3> QED  BY <3>2, <3>3 DEF TypeInv, TypeOK, Call
  <2> QED  BY <2>1, <2>2, <2>3
<1> QED  BY <1>1, RunningOrFailed

LEMMA TrueResultsStep ==
  "left" \notin LinkFaults /\ PairedInv /\ TrueResults /\ [Next]_vars => TrueResults'
<1> SUFFICES ASSUME "left" \notin LinkFaults, PairedInv, TrueResults, [Next]_vars
             PROVE  TrueResults'
  OBVIOUS
<1>t. TypeInv /\ call \in Call
  BY DEF PairedInv, TypeInv, TypeOK
<1>p. {"send", "recv", "vsend", "vrecv", "reset", "resend", "rerecv"}
        = Places \ {"idle"}
  BY DEF Places
<1>1. CASE BeginInventory \/ BeginOnTag
  BY <1>1, RunningOrFailed DEF BeginInventory, BeginOnTag, Begin, Started
<1>2. CASE MoveTags \/ Plug \/ Unplug \/ UNCHANGED vars
  <2>1. call' = call /\ mem' = mem
    BY <1>2 DEF MoveTags, Plug, Unplug, vars
  <2> QED  BY <2>1 DEF TrueResults, WriteAfiVerified, WriteBlocksVerified, ReadsAreFresh
<1>3. CASE SendInventory \/ SendInventoryFails \/ ResetPort \/ SendRead \/ SendWriteBlocks
           \/ SendVerifyBlocks \/ SendWriteAfi \/ SendVerifyAfi
  <2>1. \/ \E p \in Places \ {"idle"} : Goto(p)
        \/ Returns("err")
        \/ \E p \in Places \ {"idle"}, max \in {AfiRetries, VerifyRetries} : Again(p, max)
    BY <1>3, <1>p DEF SendInventory, SendInventoryFails, InventoryFails, NotCounted, ResetPort, SendRead,
                SendWriteBlocks, SendVerifyBlocks, SendWriteAfi, SendVerifyAfi
  <2> QED  BY <1>t, <2>1, RunningOps
<1>4. CASE RecvInventory
  <2>1. \/ \E ts : call' = [call EXCEPT !.at = "idle", !.out = "ok", !.found = ts]
        \/ InventoryFails
    BY <1>4 DEF RecvInventory
  <2>2. CASE InventoryFails
    BY <1>t, <1>p, <2>2, RunningOps DEF InventoryFails, NotCounted
  <2>3. CASE \E ts : call' = [call EXCEPT !.at = "idle", !.out = "ok", !.found = ts]
    <3>1. call'.op = "inventory"
      BY <1>4, <1>t, <2>3 DEF RecvInventory, Call
    <3> QED  BY <3>1 DEF TrueResults, WriteAfiVerified, WriteBlocksVerified, ReadsAreFresh
  <2> QED  BY <2>1, <2>2, <2>3
<1>5. CASE RecvRead
  <2>1. PICK r \in Readable :
          /\ ReadResponse(r)
          /\ IF Accepted(r, IF call.op = "readafi" THEN "rdafi" ELSE "rdblk")
             THEN ReturnsValue(r.val) ELSE Returns("err")
    BY <1>5 DEF RecvRead
  <2>2. CASE Returns("err")
    BY <1>t, <2>2, RunningOps
  <2>3. CASE r.status = "ok" /\ ReturnsValue(r.val)
    <3>1. r.kind = Awaited /\ Truthful(r)
      BY <2>1, <2>3, RecvSync
    <3>2. /\ call.op \in {"readafi", "readblocks"} /\ mem' = mem
          /\ call.op = "readafi" => r.val = mem.afi[call.tag]
          /\ call.op = "readblocks" => r.val \in {mem.data[call.tag], NoVal}
      BY <1>5, <2>3, <3>1 DEF RecvRead, Awaited, Truthful
    <3>3. call'.op = call.op /\ call'.tag = call.tag /\ call'.got = r.val
      BY <1>t, <2>3 DEF ReturnsValue, Call
    <3> QED  BY <3>2, <3>3 DEF TrueResults, WriteAfiVerified, WriteBlocksVerified, ReadsAreFresh
  <2> QED  BY <2>1, <2>2, <2>3 DEF Verified, Accepted, Answers
<1>6. CASE RecvWriteBlocks \/ RecvWriteAfi
  <2>1. \/ \E p \in Places \ {"idle"} : Goto(p)
        \/ Returns("err")
        \/ \E p \in Places \ {"idle"}, max \in {AfiRetries, VerifyRetries} : Again(p, max)
    BY <1>6, <1>p DEF RecvWriteBlocks, RecvWriteAfi
  <2> QED  BY <1>t, <2>1, RunningOps
<1>7. CASE RecvVerifyBlocks
  <2>1. PICK r \in Readable :
          /\ ReadResponse(r)
          /\ IF Verified(r, "rdblk")
             THEN Returns("ok") ELSE Again("vsend", VerifyRetries)
    BY <1>7 DEF RecvVerifyBlocks
  <2>2. CASE Again("vsend", VerifyRetries)
    BY <1>t, <1>p, <2>2, RunningOps
  <2>3. CASE r.status = "ok" /\ r.val = call.val /\ Returns("ok")
    <3>1. r.kind = Awaited /\ Truthful(r)
      BY <2>1, <2>3, RecvSync
    <3>2. call.op = "writeblocks" /\ mem' = mem /\ call.val \in {mem.data[call.tag], NoVal}
      BY <1>7, <2>3, <3>1 DEF RecvVerifyBlocks, Awaited, Truthful
    <3>3. call.val = mem.data[call.tag]
      BY <1>t, <3>2, TagMemoryAssumption DEF TypeInv, ArgumentsOK
    <3>4. call'.op = call.op /\ call'.tag = call.tag /\ call'.val = call.val
      BY <1>t, <2>3 DEF Returns, Call
    <3> QED  BY <3>2, <3>3, <3>4 DEF TrueResults, WriteAfiVerified, WriteBlocksVerified, ReadsAreFresh
  <2> QED  BY <2>1, <2>2, <2>3 DEF Verified, Accepted, Answers
<1>8. CASE RecvVerifyAfi
  <2>1. PICK r \in Readable :
          /\ ReadResponse(r)
          /\ IF Verified(r, "rdafi")
             THEN Returns("ok") ELSE Again("send", AfiRetries)
    BY <1>8 DEF RecvVerifyAfi
  <2>2. CASE Again("send", AfiRetries)
    BY <1>t, <1>p, <2>2, RunningOps
  <2>3. CASE r.status = "ok" /\ r.val = call.val /\ Returns("ok")
    <3>1. r.kind = Awaited /\ Truthful(r)
      BY <2>1, <2>3, RecvSync
    <3>2. call.op = "writeafi" /\ mem' = mem /\ call.val = mem.afi[call.tag]
      BY <1>8, <2>3, <3>1 DEF RecvVerifyAfi, Awaited, Truthful
    <3>3. call'.op = call.op /\ call'.tag = call.tag /\ call'.val = call.val
      BY <1>t, <2>3 DEF Returns, Call
    <3> QED  BY <3>2, <3>3 DEF TrueResults, WriteAfiVerified, WriteBlocksVerified, ReadsAreFresh
  <2> QED  BY <2>1, <2>2, <2>3 DEF Verified, Accepted, Answers
<1> QED
  BY <1>1, <1>2, <1>3, <1>4, <1>5, <1>6, <1>7, <1>8 DEF Next, Driver, Environment

LEMMA TrueResultsAlways == "left" \notin LinkFaults => (Spec => []TrueResults)
<1> SUFFICES ASSUME "left" \notin LinkFaults PROVE Spec => []TrueResults
  OBVIOUS
<1> DEFINE IInv == PairedInv /\ TrueResults
<1>1. Init => IInv
  <2> SUFFICES ASSUME Init PROVE IInv
    OBVIOUS
  <2>1. PairedInv
    BY TypeInit, EmptyIsInSync DEF Init, PairedInv, InSync
  <2>2. call.out = "none"
    BY DEF Init, Started
  <2> QED  BY <2>1, <2>2 DEF TrueResults, WriteAfiVerified, WriteBlocksVerified, ReadsAreFresh
<1>2. IInv /\ [Next]_vars => IInv'
  BY TypeStep, PairedStep, TrueResultsStep DEF PairedInv
<1>3. IInv => TrueResults
  OBVIOUS
<1> QED  BY <1>1, <1>2, <1>3, PTL DEF Spec

\* WriteAfi returns nil only for a tag that carries the AFI byte: the
\* retried write is verified on the tag, whatever the reader acknowledges.
THEOREM AfiWritesAreVerified ==
  "left" \notin LinkFaults => (Spec => []WriteAfiVerified)
<1>1. TrueResults => WriteAfiVerified
  BY DEF TrueResults
<1> QED  BY <1>1, TrueResultsAlways, PTL

\* WriteBlocks returns nil only for a tag that holds the blocks, whole.
THEOREM BlockWritesAreVerified ==
  "left" \notin LinkFaults => (Spec => []WriteBlocksVerified)
<1>1. TrueResults => WriteBlocksVerified
  BY DEF TrueResults
<1> QED  BY <1>1, TrueResultsAlways, PTL

\* ReadAfi and ReadBlocks answer with what the tag they were asked about holds.
THEOREM ReadsTellTheTruth ==
  "left" \notin LinkFaults => (Spec => []ReadsAreFresh)
<1>1. TrueResults => ReadsAreFresh
  BY DEF TrueResults
<1> QED  BY <1>1, TrueResultsAlways, PTL

-----------------------------------------------------------------------------
(***************************************************************************)
(* The driver implements its contract TagReader, through the mapping of    *)
(* RfidReaderRefinement.  While commands and responses stay paired, every  *)
(* step of the driver is one step of the contract or none: a write sent is *)
(* a Touch, an inventory answered or lost is a Sense, and the end of a     *)
(* call is a Succeed or a Fail.  Jobs have so many fields that they are    *)
(* compared field by field: JobIs says what the mapping makes of a call.   *)
(***************************************************************************)
Jobs == [op : Ops, tag : Tags \cup {NoVal}, val : Afis \cup Datas \cup {NoVal},
         open : BOOLEAN, out : {"none", "ok", "err"},
         got : Afis \cup Contents \cup {NoVal},
         found : SUBSET Tags, seen : SUBSET SUBSET Tags]

\* j is the job of the call c, open or not, having seen s.
JobIs(j, c, o, s) ==
  /\ j \in Jobs
  /\ j.op = c.op /\ j.tag = c.tag /\ j.val = c.val /\ j.open = o
  /\ j.out = c.out /\ j.got = c.got /\ j.found = c.found /\ j.seen = s

Senses == IF call.op = "inventory" THEN Seen ELSE {}

LEMMA SameJob ==
  ASSUME NEW x \in Jobs, NEW y \in Jobs,
         x.op = y.op, x.tag = y.tag, x.val = y.val, x.open = y.open,
         x.out = y.out, x.got = y.got, x.found = y.found, x.seen = y.seen
  PROVE  x = y
  BY DEF Jobs

LEMMA JobNow ==
  ASSUME call \in Call, Senses \in SUBSET SUBSET Tags,
         NEW o \in BOOLEAN, o <=> call.at # "idle"
  PROVE  JobIs(Job, call, o, Senses)
<1>1. (call.at # "idle") = o
  OBVIOUS
<1>2. Job = [op |-> call.op, tag |-> call.tag, val |-> call.val,
             open |-> o, out |-> call.out, got |-> call.got,
             found |-> call.found, seen |-> Senses]
  BY <1>1, Zenon DEF Job, Senses
<1>3. ASSUME NEW s \in SUBSET SUBSET Tags, NEW j,
             j = [op |-> call.op, tag |-> call.tag, val |-> call.val,
             open |-> o, out |-> call.out, got |-> call.got,
             found |-> call.found, seen |-> s]
      PROVE  JobIs(j, call, o, s)
  BY <1>3 DEF JobIs, Jobs, Call
<1> QED  BY <1>2, <1>3

LEMMA JobNext ==
  ASSUME call' \in Call, Senses' \in SUBSET SUBSET Tags,
         NEW o \in BOOLEAN, o <=> call'.at # "idle"
  PROVE  JobIs(Job', call', o, Senses')
<1>1. (call'.at # "idle") = o
  OBVIOUS
<1>2. Job' = [op |-> call'.op, tag |-> call'.tag, val |-> call'.val,
             open |-> o, out |-> call'.out, got |-> call'.got,
             found |-> call'.found, seen |-> Senses']
  BY <1>1, Zenon DEF Job, Senses
<1>3. ASSUME NEW s \in SUBSET SUBSET Tags, NEW j,
             j = [op |-> call'.op, tag |-> call'.tag, val |-> call'.val,
             open |-> o, out |-> call'.out, got |-> call'.got,
             found |-> call'.found, seen |-> s]
      PROVE  JobIs(j, call', o, s)
  BY <1>3 DEF JobIs, Jobs, Call
<1> QED  BY <1>2, <1>3

LEMMA SensesType == TypeOK => Senses \in SUBSET SUBSET Tags
<1>1. ASSUME TypeOK, NEW i \in DOMAIN rx PROVE rx[i].tags \in SUBSET Tags
  <2>1. rx[i] \in Frame
    BY <1>1 DEF TypeOK
  <2> QED  BY <2>1 DEF Frame
<1> QED  BY <1>1 DEF Senses, Seen

LEMMA SensesTypeNext == TypeOK' => Senses' \in SUBSET SUBSET Tags
<1>1. ASSUME TypeOK', NEW i \in DOMAIN rx' PROVE rx'[i].tags \in SUBSET Tags
  <2>1. rx'[i] \in Frame
    BY <1>1 DEF TypeOK
  <2> QED  BY <2>1 DEF Frame
<1> QED  BY <1>1 DEF Senses, Seen

LEMMA SensesNothing ==
  ASSUME rx = <<>> \/ call.op # "inventory"
  PROVE  Senses = {}
  BY DEF Senses, Seen

LEMMA SensesNothingNext ==
  ASSUME rx' = <<>> \/ call'.op # "inventory"
  PROVE  Senses' = {}
  BY DEF Senses, Seen

LEMMA OneJob ==
  ASSUME NEW x, NEW y, NEW c, NEW o, NEW s, JobIs(x, c, o, s), JobIs(y, c, o, s)
  PROVE  x = y
<1>1. x.open = y.open
  BY Zenon DEF JobIs
<1>2. /\ x.op = y.op /\ x.tag = y.tag /\ x.val = y.val
      /\ x.out = y.out /\ x.got = y.got /\ x.found = y.found /\ x.seen = y.seen
      /\ x \in Jobs /\ y \in Jobs
  BY DEF JobIs
<1> QED  BY <1>1, <1>2, SameJob

LEMMA JobBefore ==
  ASSUME TypeOK, NEW o \in BOOLEAN, o <=> call.at # "idle"
  PROVE  JobIs(Job, call, o, Senses)
  BY JobNow, SensesType DEF TypeOK

LEMMA JobAfter ==
  ASSUME TypeOK', NEW o \in BOOLEAN, o <=> call'.at # "idle"
  PROVE  JobIs(Job', call', o, Senses')
<1>1. Senses' \in SUBSET SUBSET Tags
  BY SensesTypeNext
<1> QED  BY <1>1, JobNext DEF TypeOK

-----------------------------------------------------------------------------
(* Steps of the contract's job, each from a step of the driver's call. *)
LEMMA JobStays ==
  ASSUME TypeOK, TypeOK', SameCall, (call.at = "idle") <=> (call'.at = "idle"),
         call'.out = call.out, call'.got = call.got, call'.found = call.found,
         Senses' = Senses
  PROVE  Job' = Job
<1>1. PICK o \in BOOLEAN : o <=> call.at # "idle"
  OBVIOUS
<1>2. JobIs(Job, call, o, Senses) /\ JobIs(Job', call', o, Senses')
  BY <1>1, JobBefore, JobAfter
<1>3. JobIs(Job, call', o, Senses')
  BY <1>2 DEF JobIs, SameCall
<1> QED  BY <1>2, <1>3, OneJob

LEMMA JobSenses ==
  ASSUME TypeOK, TypeOK', SameCall, call.at # "idle", call'.at # "idle",
         call'.out = call.out, call'.got = call.got, call'.found = call.found
  PROVE  Job.open /\ Job' = [Job EXCEPT !.seen = Senses']
<1>1. JobIs(Job, call, TRUE, Senses) /\ JobIs(Job', call', TRUE, Senses')
  BY JobBefore, JobAfter
<1>2. PICK j : j = [Job EXCEPT !.seen = Senses']
  OBVIOUS
<1>3. Senses' \in SUBSET SUBSET Tags
  BY SensesTypeNext
<1>4. JobIs(j, call', TRUE, Senses')
  BY <1>1, <1>2, <1>3 DEF JobIs, Jobs, SameCall
<1>5. Job' = j
  BY <1>1, <1>4, OneJob
<1> QED  BY <1>1, <1>2, <1>5 DEF JobIs

LEMMA JobFails ==
  ASSUME TypeOK, TypeOK', call.at # "idle", Returns("err"), Senses' = {}
  PROVE  Job.open /\ Job' = [Job EXCEPT !.open = FALSE, !.out = "err", !.seen = {}]
<1>1. /\ SameCall /\ call'.at = "idle" /\ call'.out = "err" /\ call'.got = call.got
      /\ call'.found = call.found
  BY DEF Returns, Call, TypeOK, SameCall
<1>2. JobIs(Job, call, TRUE, Senses) /\ JobIs(Job', call', FALSE, {})
  BY <1>1, JobBefore, JobAfter
<1>3. PICK j : j = [Job EXCEPT !.open = FALSE, !.out = "err", !.seen = {}]
  OBVIOUS
<1>4. JobIs(j, call', FALSE, {})
  BY <1>1, <1>2, <1>3 DEF JobIs, Jobs, SameCall
<1>5. Job' = j
  BY <1>2, <1>4, OneJob
<1> QED  BY <1>2, <1>3, <1>5 DEF JobIs

LEMMA JobWrites ==
  ASSUME TypeOK, TypeOK', call.at # "idle", Returns("ok"), call.op # "inventory"
  PROVE  Job.open /\ Job' = [Job EXCEPT !.open = FALSE, !.out = "ok"]
<1>1. /\ SameCall /\ call'.at = "idle" /\ call'.out = "ok" /\ call'.got = call.got
      /\ call'.found = call.found
  BY DEF Returns, Call, TypeOK, SameCall
<1>2. Senses = {} /\ Senses' = {}
  BY <1>1, SensesNothing, SensesNothingNext DEF SameCall
<1>3. JobIs(Job, call, TRUE, {}) /\ JobIs(Job', call', FALSE, {})
  BY <1>1, <1>2, JobBefore, JobAfter
<1>4. PICK j : j = [Job EXCEPT !.open = FALSE, !.out = "ok"]
  OBVIOUS
<1>5. JobIs(j, call', FALSE, {})
  BY <1>1, <1>3, <1>4 DEF JobIs, Jobs, SameCall
<1>6. Job' = j
  BY <1>3, <1>5, OneJob
<1> QED  BY <1>3, <1>4, <1>6 DEF JobIs

LEMMA JobReads ==
  ASSUME TypeOK, TypeOK', call.at # "idle", call.op # "inventory",
         NEW v \in Afis \cup Contents \cup {NoVal}, ReturnsValue(v)
  PROVE  Job.open /\ Job' = [Job EXCEPT !.open = FALSE, !.out = "ok", !.got = v]
<1>1. /\ SameCall /\ call'.at = "idle" /\ call'.out = "ok" /\ call'.got = v
      /\ call'.found = call.found
  BY DEF ReturnsValue, Call, TypeOK, SameCall
<1>2. Senses = {} /\ Senses' = {}
  BY <1>1, SensesNothing, SensesNothingNext DEF SameCall
<1>3. JobIs(Job, call, TRUE, {}) /\ JobIs(Job', call', FALSE, {})
  BY <1>1, <1>2, JobBefore, JobAfter
<1>4. PICK j : j = [Job EXCEPT !.open = FALSE, !.out = "ok", !.got = v]
  OBVIOUS
<1>5. JobIs(j, call', FALSE, {})
  BY <1>1, <1>3, <1>4 DEF JobIs, Jobs, SameCall
<1>6. Job' = j
  BY <1>3, <1>5, OneJob
<1> QED  BY <1>3, <1>4, <1>6 DEF JobIs

LEMMA JobFinds ==
  ASSUME TypeOK, TypeOK', call.at # "idle", NEW ts \in SUBSET Tags, Senses' = {},
         call' = [call EXCEPT !.at = "idle", !.out = "ok", !.found = ts]
  PROVE  Job.open /\ Job' = [Job EXCEPT !.open = FALSE, !.out = "ok", !.found = ts, !.seen = {}]
<1>1. /\ SameCall /\ call'.at = "idle" /\ call'.out = "ok" /\ call'.got = call.got
      /\ call'.found = ts
  BY DEF Call, TypeOK, SameCall
<1>2. JobIs(Job, call, TRUE, Senses) /\ JobIs(Job', call', FALSE, {})
  BY <1>1, JobBefore, JobAfter
<1>3. PICK j : j = [Job EXCEPT !.open = FALSE, !.out = "ok", !.found = ts, !.seen = {}]
  OBVIOUS
<1>4. JobIs(j, call', FALSE, {})
  BY <1>1, <1>2, <1>3, ZenonT(30) DEF JobIs, Jobs, SameCall
<1>5. Job' = j
  BY <1>2, <1>4, OneJob
<1> QED  BY <1>2, <1>3, <1>5 DEF JobIs

LEMMA JobBegins ==
  ASSUME TypeOK, TypeOK', NEW op \in Ops, NEW t \in Tags \cup {NoVal},
         NEW v \in Afis \cup Datas \cup {NoVal}, Begin(op, t, v), rx = <<>>
  PROVE  ~Job.open /\ Job' = Contract!Opened(op, t, v)
<1>1. /\ call.at = "idle" /\ rx' = <<>>
      /\ call'.op = op /\ call'.tag = t /\ call'.val = v /\ call'.at = "send"
      /\ call'.out = "none" /\ call'.got = NoVal /\ call'.found = {}
  BY DEF Begin, Started
<1>2. Senses = {} /\ Senses' = {}
  BY <1>1, SensesNothing, SensesNothingNext
<1>3. JobIs(Job, call, FALSE, {}) /\ JobIs(Job', call', TRUE, {})
  BY <1>1, <1>2, JobBefore, JobAfter
<1>4. PICK j : j = Contract!Opened(op, t, v)
  OBVIOUS
<1>5. JobIs(j, call', TRUE, {})
  BY <1>1, <1>4 DEF JobIs, Jobs, Contract!Opened
<1>6. Job' = j
  BY <1>3, <1>5, OneJob
<1> QED  BY <1>3, <1>4, <1>6 DEF JobIs
-----------------------------------------------------------------------------
(* Steps inside a call on one tag.                                         *)
LEMMA JobGoesOn ==
  ASSUME TypeOK, TypeOK', call.op # "inventory", call.at # "idle",
         NEW p \in Places \ {"idle"},
         call' = [call EXCEPT !.at = p] \/ call' = [call EXCEPT !.at = p, !.n = @ + 1]
  PROVE  Job.open /\ Job' = Job
<1>1. /\ SameCall /\ call'.at # "idle" /\ call'.out = call.out
      /\ call'.got = call.got /\ call'.found = call.found
  BY DEF Call, TypeOK, SameCall
<1>2. Senses = {} /\ Senses' = {}
  BY <1>1, SensesNothing, SensesNothingNext DEF SameCall
<1>3. JobIs(Job, call, TRUE, Senses)
  BY JobBefore
<1> QED  BY <1>1, <1>2, <1>3, JobStays DEF JobIs

LEMMA JobFailsOnTag ==
  ASSUME TypeOK, TypeOK', call.op # "inventory", call.at # "idle", Returns("err"),
         UNCHANGED <<mem, field>>
  PROVE  Contract!Next
<1>1. call'.op = call.op
  BY DEF Returns, Call, TypeOK
<1>2. Contract!Fail
  BY <1>1, SensesNothingNext, JobFails DEF Contract!Fail
<1> QED  BY <1>2 DEF Contract!Next

LEMMA JobTriesAgain ==
  ASSUME TypeOK, TypeOK', call.op # "inventory", call.at # "idle",
         NEW p \in Places \ {"idle"}, NEW max, Again(p, max), UNCHANGED <<mem, field>>
  PROVE  [Contract!Next]_(Contract!vars)
<1>1. CASE Returns("err")
  BY <1>1, JobFailsOnTag
<1>2. CASE call' = [call EXCEPT !.at = p, !.n = @ + 1]
  BY <1>2, JobGoesOn DEF Contract!vars
<1> QED  BY <1>1, <1>2 DEF Again

LEMMA JobWaits ==
  ASSUME TypeOK, TypeOK', call.op # "inventory", call.at # "idle",
         NEW p \in Places \ {"idle"}, Goto(p), UNCHANGED <<mem, field>>
  PROVE  [Contract!Next]_(Contract!vars)
  BY JobGoesOn DEF Contract!vars, Goto
-----------------------------------------------------------------------------
(* The steps of the driver, action by action.                              *)
LEMMA BeginsAsPromised ==
  ASSUME PairedInv, TypeOK', BeginInventory \/ BeginOnTag
  PROVE  Contract!Next
<1>1. TypeOK /\ call.at = "idle" /\ UNCHANGED <<mem, field>>
  BY DEF PairedInv, TypeInv, BeginInventory, BeginOnTag, Begin
<1>2. rx = <<>>
  BY <1>1, NothingAwaited DEF PairedInv, InSync
<1>3. \E op \in Ops, t \in Tags \cup {NoVal}, v \in Afis \cup Datas \cup {NoVal} :
        /\ Begin(op, t, v)
        /\ \/ op = "inventory" /\ t = NoVal /\ v = NoVal
           \/ t \in Tags /\ op \in {"readafi", "readblocks"} /\ v = NoVal
           \/ t \in Tags /\ op = "writeafi" /\ v \in Afis
           \/ t \in Tags /\ op = "writeblocks" /\ v \in Datas
  BY DEF BeginInventory, BeginOnTag, Ops
<1>4. PICK op \in Ops, t \in Tags \cup {NoVal}, v \in Afis \cup Datas \cup {NoVal} :
        /\ Begin(op, t, v)
        /\ \/ op = "inventory" /\ t = NoVal /\ v = NoVal
           \/ t \in Tags /\ op \in {"readafi", "readblocks"} /\ v = NoVal
           \/ t \in Tags /\ op = "writeafi" /\ v \in Afis
           \/ t \in Tags /\ op = "writeblocks" /\ v \in Datas
  BY <1>3
<1>5. ~Job.open /\ Job' = Contract!Opened(op, t, v)
  BY <1>1, <1>2, <1>4, JobBegins
<1>6. Contract!Begin
  BY <1>1, <1>4, <1>5 DEF Contract!Begin
<1> QED  BY <1>6 DEF Contract!Next

LEMMA EnvironmentAsPromised ==
  ASSUME PairedInv, TypeOK', MoveTags \/ Plug
  PROVE  [Contract!Next]_(Contract!vars)
<1>1. Job' = Job
  BY DEF MoveTags, Plug, Job, Seen
<1>2. CASE MoveTags
  BY <1>1, <1>2 DEF MoveTags, Contract!MoveTags, Contract!Next
<1>3. CASE Plug
  BY <1>1, <1>3 DEF Plug, Contract!vars
<1> QED  BY <1>2, <1>3

LEMMA InventoryFailsAsPromised ==
  ASSUME PairedInv, TypeOK', call.op = "inventory", call.at # "idle",
         InventoryFails, rx' = <<>>, UNCHANGED <<mem, field>>
  PROVE  Contract!Next
<1>1. TypeOK /\ Senses' = {}
  BY SensesNothingNext DEF PairedInv, TypeInv
<1>2. CASE Returns("err")
  BY <1>1, <1>2, JobFails DEF Contract!Fail, Contract!Next
<1>3. CASE Goto("reset")
  <2>1. /\ SameCall /\ call'.at # "idle" /\ call'.out = call.out
        /\ call'.got = call.got /\ call'.found = call.found
    BY <1>1, <1>3 DEF Goto, Call, TypeOK, SameCall
  <2>2. Job.open /\ Job' = [Job EXCEPT !.seen = {}]
    BY <1>1, <2>1, JobSenses
  <2>3. Job.op = "inventory"
    BY <1>1, JobBefore DEF JobIs
  <2> QED  BY <2>2, <2>3 DEF Contract!Sense, Contract!Next
<1> QED  BY <1>2, <1>3 DEF InventoryFails, NotCounted

LEMMA UnplugAsPromised ==
  ASSUME PairedInv, TypeOK', Unplug
  PROVE  [Contract!Next]_(Contract!vars)
<1>1. TypeOK /\ SameCall /\ call' = call /\ rx' = <<>> /\ UNCHANGED <<mem, field>>
  BY DEF PairedInv, TypeInv, Unplug, SameCall
<1>2. CASE call.at # "idle" /\ call.op = "inventory"
  <2>1. Job.open /\ Job' = [Job EXCEPT !.seen = {}]
    BY <1>1, <1>2, JobSenses, SensesNothingNext
  <2>2. Job.op = "inventory"
    BY <1>1, <1>2, JobBefore DEF JobIs
  <2> QED  BY <1>1, <2>1, <2>2 DEF Contract!Sense, Contract!Next
<1>3. CASE call.at = "idle" \/ call.op # "inventory"
  <2>1. Senses = {} /\ Senses' = {}
    BY <1>1, <1>3, SensesNothing, SensesNothingNext, NothingAwaited DEF PairedInv, InSync
  <2>2. Job' = Job
    BY <1>1, <2>1, JobStays
  <2> QED  BY <1>1, <2>2 DEF Contract!vars
<1> QED  BY <1>2, <1>3

LEMMA SendInventoryAsPromised ==
  ASSUME PairedInv, TypeOK', SendInventory
  PROVE  Contract!Next
<1>1. /\ TypeOK /\ call.op = "inventory" /\ UNCHANGED <<mem, field>>
      /\ call.at \in {"send", "resend"}
      /\ Goto("recv") \/ Goto("rerecv")
      /\ Deliver(Reply("inv", "ok", NoVal, field))
  BY DEF PairedInv, TypeInv, SendInventory, AskInventory
<1>2. PICK f : f = Reply("inv", "ok", NoVal, field)
  OBVIOUS
<1>3. rx = <<>>
  BY <1>1, NothingAwaited DEF PairedInv, InSync
<1>4. rx' = <<f>> \/ rx' = <<>> \/ rx' = <<Damaged>>
  BY <1>1, <1>2, <1>3 DEF Deliver
<1>5. /\ SameCall /\ call'.op = "inventory" /\ call'.at # "idle" /\ call'.out = call.out
      /\ call'.got = call.got /\ call'.found = call.found
  BY <1>1 DEF Goto, Call, TypeOK, SameCall
<1>6. Senses' = Seen'
  BY <1>5 DEF Senses
<1>7. Seen' = {field} \/ Seen' = {}
  <2>1. CASE rx' = <<f>>
    BY <1>2, <2>1 DEF Reply, Seen
  <2>2. CASE rx' = <<>>
    BY <2>2 DEF Seen
  <2>3. CASE rx' = <<Damaged>>
    BY <2>3 DEF Seen, Damaged, Plain
  <2> QED  BY <1>4, <2>1, <2>2, <2>3
<1>8. Job.open /\ Job' = [Job EXCEPT !.seen = Senses']
  BY <1>1, <1>5, JobSenses
<1>9. Job.op = "inventory"
  BY <1>1, JobBefore DEF JobIs
<1> QED  BY <1>1, <1>6, <1>7, <1>8, <1>9 DEF Contract!Sense, Contract!Next

LEMMA RecvInventoryAsPromised ==
  ASSUME "left" \notin LinkFaults, PairedInv, TypeOK', RecvInventory
  PROVE  Contract!Next
<1>1. /\ TypeOK /\ call.op = "inventory" /\ UNCHANGED <<mem, field>>
      /\ call.at # "idle"
  BY DEF PairedInv, TypeInv, RecvInventory
<1>2. PICK r \in Readable :
        /\ ReadResponse(r)
        /\ \/ /\ Accepted(r, "inv")
              /\ call' = [call EXCEPT !.at = "idle", !.out = "ok", !.found = r.tags]
           \/ InventoryFails
  BY DEF RecvInventory
<1>3. rx' = <<>> /\ Senses' = {}
  BY <1>2, RecvSync, SensesNothingNext
<1>4. CASE InventoryFails
  BY <1>1, <1>3, <1>4, InventoryFailsAsPromised
<1>5. CASE /\ Accepted(r, "inv")
           /\ call' = [call EXCEPT !.at = "idle", !.out = "ok", !.found = r.tags]
  <2>1. r.kind = "inv" /\ r \in Frame
    BY <1>1, <1>2, <1>5, ReadType DEF Accepted, Answers
  <2>2. rx # <<>> /\ r = Head(rx)
    BY <1>2, <2>1 DEF ReadResponse, NoFrame, Plain
  <2>3. r.tags \in Seen
    <3>1. rx \in Seq(Frame)
      BY <1>1 DEF TypeOK
    <3>2. 1 \in DOMAIN rx /\ rx[1] = r
      BY <2>2, <3>1
    <3> QED  BY <2>1, <3>2 DEF Seen
  <2>4. r.tags \in SUBSET Tags
    BY <2>1 DEF Frame
  <2>5. Job.open /\ Job' = [Job EXCEPT !.open = FALSE, !.out = "ok", !.found = r.tags, !.seen = {}]
    BY <1>1, <1>3, <1>5, <2>4, JobFinds
  <2>6. Job.op = "inventory" /\ Job.seen = Seen
    BY <1>1, JobBefore DEF JobIs, Senses
  <2> QED  BY <1>1, <2>3, <2>5, <2>6 DEF Contract!Succeed, Contract!Next
<1> QED  BY <1>2, <1>4, <1>5

LEMMA ResetPortAsPromised ==
  ASSUME PairedInv, TypeOK', ResetPort
  PROVE  [Contract!Next]_(Contract!vars)
<1>1. /\ TypeOK /\ call.at = "reset" /\ UNCHANGED <<mem, field>>
      /\ Goto("resend") \/ Returns("err")
  BY DEF PairedInv, TypeInv, ResetPort
<1>2. rx = <<>>
  BY <1>1, NothingAwaited DEF PairedInv, InSync
<1>3. rx' = <<>>
  BY <1>2 DEF ResetPort, Drained
<1>4. Senses = {} /\ Senses' = {}
  BY <1>2, <1>3, SensesNothing, SensesNothingNext
<1>5. CASE Returns("err")
  BY <1>1, <1>4, <1>5, JobFails DEF Contract!Fail, Contract!Next
<1>6. CASE Goto("resend")
  <2>1. /\ SameCall /\ call'.at # "idle" /\ call'.out = call.out
        /\ call'.got = call.got /\ call'.found = call.found
    BY <1>1, <1>6 DEF Goto, Call, TypeOK, SameCall
  <2>2. Job' = Job
    BY <1>1, <1>4, <2>1, JobStays
  <2> QED  BY <1>1, <2>2 DEF Contract!vars
<1> QED  BY <1>1, <1>5, <1>6

LEMMA ReadsAsPromised ==
  ASSUME "left" \notin LinkFaults, PairedInv, TypeOK', SendRead \/ RecvRead
  PROVE  [Contract!Next]_(Contract!vars)
<1>1. /\ TypeOK /\ call.op # "inventory" /\ call.at # "idle" /\ UNCHANGED <<mem, field>>
  BY DEF PairedInv, TypeInv, SendRead, RecvRead, AskAfi, AskBlocks
<1>2. "recv" \in Places \ {"idle"}
  BY DEF Places
<1>3. CASE Goto("recv")
  BY <1>1, <1>2, <1>3, JobWaits
<1>4. CASE Returns("err")
  BY <1>1, <1>4, JobFailsOnTag
<1>5. CASE RecvRead /\ ~Returns("err")
  <2>1. PICK r \in Readable :
          /\ ReadResponse(r) /\ r.status = "ok" /\ ReturnsValue(r.val)
    BY <1>5 DEF RecvRead, Accepted
  <2>2. r.kind = Awaited /\ Truthful(r)
    BY <2>1, RecvSync
  <2>3. /\ call.op \in {"readafi", "readblocks"}
        /\ call.op = "readafi" => r.val = mem.afi[call.tag]
        /\ call.op = "readblocks" => r.val \in {mem.data[call.tag], NoVal}
    BY <1>5, <2>1, <2>2 DEF RecvRead, Awaited, Truthful
  <2>4. r.val \in Afis \cup Contents \cup {NoVal}
    BY <1>1, <2>1, ReadType DEF Frame
  <2>5. Job.open /\ Job' = [Job EXCEPT !.open = FALSE, !.out = "ok", !.got = r.val]
    BY <1>1, <2>1, <2>4, JobReads
  <2>6. Job.op = call.op /\ Job.tag = call.tag
    BY <1>1, JobBefore DEF JobIs
  <2> QED  BY <1>1, <2>3, <2>5, <2>6 DEF Contract!Succeed, Contract!Next
<1> QED  BY <1>3, <1>4, <1>5 DEF SendRead

LEMMA WritesAsPromised ==
  ASSUME PairedInv, TypeOK', SendWriteBlocks \/ SendWriteAfi
  PROVE  [Contract!Next]_(Contract!vars)
<1>1. /\ TypeOK /\ call.op # "inventory" /\ call.at # "idle" /\ field' = field
      /\ "recv" \in Places \ {"idle"} /\ "send" \in Places \ {"idle"}
  BY DEF PairedInv, TypeInv, SendWriteBlocks, SendWriteAfi, Places
<1>2. CASE Goto("recv")
  <2>1. Job.open /\ Job' = Job
    BY <1>1, <1>2, JobGoesOn DEF Goto
  <2>2. Job.op = call.op /\ Job.tag = call.tag /\ Job.val = call.val
    BY <1>1, JobBefore DEF JobIs
  <2>3. mem' = mem \/ \/ call.op = "writeafi" /\ mem' \in AfiWrites(mem, field, call.tag, call.val)
                      \/ call.op = "writeblocks" /\ mem' \in DataWrites(mem, field, call.tag, call.val)
    BY DEF SendWriteBlocks, SendWriteAfi, AskWriteBlocks, AskWriteAfi
  <2>4. /\ AfiWrites(mem, field, call.tag, call.val)
             = Contract!AfiWrites(mem, field, call.tag, call.val)
        /\ DataWrites(mem, field, call.tag, call.val)
             = Contract!DataWrites(mem, field, call.tag, call.val)
    BY DEF AfiWrites, SetAfi, DataWrites, SetData,
           Contract!AfiWrites, Contract!SetAfi, Contract!DataWrites, Contract!SetData
  <2> QED  BY <1>1, <2>1, <2>2, <2>3, <2>4 DEF Contract!Touch, Contract!Next, Contract!vars
<1>3. CASE Returns("err") /\ mem' = mem
  BY <1>1, <1>3, JobFailsOnTag
<1>4. CASE Again("send", AfiRetries) /\ mem' = mem
  BY <1>1, <1>4, JobTriesAgain
<1> QED  BY <1>2, <1>3, <1>4 DEF SendWriteBlocks, SendWriteAfi

LEMMA AcknowledgedAsPromised ==
  ASSUME PairedInv, TypeOK', RecvWriteBlocks \/ RecvWriteAfi
  PROVE  [Contract!Next]_(Contract!vars)
<1>1. /\ TypeOK /\ call.op # "inventory" /\ call.at # "idle" /\ UNCHANGED <<mem, field>>
      /\ "vsend" \in Places \ {"idle"} /\ "send" \in Places \ {"idle"}
  BY DEF PairedInv, TypeInv, RecvWriteBlocks, RecvWriteAfi, Places
<1>2. CASE Goto("vsend")
  BY <1>1, <1>2, JobWaits
<1>3. CASE Returns("err")
  BY <1>1, <1>3, JobFailsOnTag
<1>4. CASE Again("send", AfiRetries)
  BY <1>1, <1>4, JobTriesAgain
<1> QED  BY <1>2, <1>3, <1>4 DEF RecvWriteBlocks, RecvWriteAfi

LEMMA VerifySendAsPromised ==
  ASSUME PairedInv, TypeOK', SendVerifyBlocks \/ SendVerifyAfi
  PROVE  [Contract!Next]_(Contract!vars)
<1>1. /\ TypeOK /\ call.op # "inventory" /\ call.at # "idle" /\ UNCHANGED <<mem, field>>
      /\ {"vrecv", "vsend", "send"} \subseteq Places \ {"idle"}
  BY DEF PairedInv, TypeInv, SendVerifyBlocks, SendVerifyAfi, AskAfi, AskBlocks, Places
<1>2. CASE Goto("vrecv")
  BY <1>1, <1>2, JobWaits
<1>3. CASE Again("vsend", VerifyRetries)
  BY <1>1, <1>3, JobTriesAgain
<1>4. CASE Again("send", AfiRetries)
  BY <1>1, <1>4, JobTriesAgain
<1> QED  BY <1>2, <1>3, <1>4 DEF SendVerifyBlocks, SendVerifyAfi

LEMMA VerifyBlocksAsPromised ==
  ASSUME "left" \notin LinkFaults, PairedInv, TypeOK', RecvVerifyBlocks
  PROVE  [Contract!Next]_(Contract!vars)
<1>1. /\ TypeOK /\ call.op = "writeblocks" /\ call.at = "vrecv" /\ UNCHANGED <<mem, field>>
      /\ "vsend" \in Places \ {"idle"}
  BY DEF PairedInv, TypeInv, RecvVerifyBlocks, Places
<1>2. PICK r \in Readable :
        /\ ReadResponse(r)
        /\ \/ Again("vsend", VerifyRetries)
           \/ r.status = "ok" /\ r.val = call.val /\ Returns("ok")
  BY DEF RecvVerifyBlocks, Verified, Accepted
<1>3. CASE Again("vsend", VerifyRetries)
  BY <1>1, <1>3, JobTriesAgain
<1>4. CASE r.status = "ok" /\ r.val = call.val /\ Returns("ok")
  <2>1. r.kind = Awaited /\ Truthful(r)
    BY <1>2, <1>4, RecvSync
  <2>2. call.val \in {mem.data[call.tag], NoVal}
    BY <1>1, <1>4, <2>1 DEF Awaited, Truthful
  <2>3. mem.data[call.tag] = call.val
    BY <1>1, <2>2, TagMemoryAssumption DEF PairedInv, TypeInv, ArgumentsOK
  <2>4. Job.open /\ Job' = [Job EXCEPT !.open = FALSE, !.out = "ok"]
    BY <1>1, <1>4, JobWrites
  <2>5. Job.op = call.op /\ Job.tag = call.tag /\ Job.val = call.val
    BY <1>1, JobBefore DEF JobIs
  <2> QED  BY <1>1, <2>3, <2>4, <2>5 DEF Contract!Succeed, Contract!Next
<1> QED  BY <1>2, <1>3, <1>4

LEMMA VerifyAfiAsPromised ==
  ASSUME "left" \notin LinkFaults, PairedInv, TypeOK', RecvVerifyAfi
  PROVE  [Contract!Next]_(Contract!vars)
<1>1. /\ TypeOK /\ call.op = "writeafi" /\ call.at = "vrecv" /\ UNCHANGED <<mem, field>>
      /\ "send" \in Places \ {"idle"}
  BY DEF PairedInv, TypeInv, RecvVerifyAfi, Places
<1>2. PICK r \in Readable :
        /\ ReadResponse(r)
        /\ \/ Again("send", AfiRetries)
           \/ r.status = "ok" /\ r.val = call.val /\ Returns("ok")
  BY DEF RecvVerifyAfi, Verified, Accepted
<1>3. CASE Again("send", AfiRetries)
  BY <1>1, <1>3, JobTriesAgain
<1>4. CASE r.status = "ok" /\ r.val = call.val /\ Returns("ok")
  <2>1. r.kind = Awaited /\ Truthful(r)
    BY <1>2, <1>4, RecvSync
  <2>2. mem.afi[call.tag] = call.val
    BY <1>1, <1>4, <2>1 DEF Awaited, Truthful
  <2>3. Job.open /\ Job' = [Job EXCEPT !.open = FALSE, !.out = "ok"]
    BY <1>1, <1>4, JobWrites
  <2>4. Job.op = call.op /\ Job.tag = call.tag /\ Job.val = call.val
    BY <1>1, JobBefore DEF JobIs
  <2> QED  BY <1>1, <2>2, <2>3, <2>4 DEF Contract!Succeed, Contract!Next
<1> QED  BY <1>2, <1>3, <1>4

LEMMA StepAsPromised ==
  "left" \notin LinkFaults /\ PairedInv /\ TypeOK' /\ [Next]_vars
    => [Contract!Next]_(Contract!vars)
<1> SUFFICES ASSUME "left" \notin LinkFaults, PairedInv, TypeOK', [Next]_vars
             PROVE  [Contract!Next]_(Contract!vars)
  OBVIOUS
<1>1. CASE UNCHANGED vars
  <2>1. Job' = Job
    BY <1>1 DEF vars, Job, Seen
  <2> QED  BY <1>1, <2>1 DEF vars, Contract!vars
<1>2. CASE BeginInventory \/ BeginOnTag
  BY <1>2, BeginsAsPromised
<1>3. CASE MoveTags \/ Plug
  BY <1>3, EnvironmentAsPromised
<1>4. CASE Unplug
  BY <1>4, UnplugAsPromised
<1>5. CASE SendInventoryFails
  <2>1. /\ call.op = "inventory" /\ call.at \in {"send", "resend"}
        /\ InventoryFails /\ rx' = rx /\ UNCHANGED <<mem, field>>
    BY <1>5 DEF SendInventoryFails
  <2>2. rx = <<>>
    BY <2>1, NothingAwaited DEF PairedInv, InSync
  <2> QED  BY <2>1, <2>2, InventoryFailsAsPromised
<1>6. CASE SendInventory
  BY <1>6, SendInventoryAsPromised
<1>7. CASE RecvInventory
  BY <1>7, RecvInventoryAsPromised
<1>8. CASE ResetPort
  BY <1>8, ResetPortAsPromised
<1>9. CASE SendRead \/ RecvRead
  BY <1>9, ReadsAsPromised
<1>10. CASE SendWriteBlocks \/ SendWriteAfi
  BY <1>10, WritesAsPromised
<1>11. CASE RecvWriteBlocks \/ RecvWriteAfi
  BY <1>11, AcknowledgedAsPromised
<1>12. CASE SendVerifyBlocks \/ SendVerifyAfi
  BY <1>12, VerifySendAsPromised
<1>13. CASE RecvVerifyBlocks
  BY <1>13, VerifyBlocksAsPromised
<1>14. CASE RecvVerifyAfi
  BY <1>14, VerifyAfiAsPromised
<1> QED  BY <1>1, <1>2, <1>3, <1>4, <1>5, <1>6, <1>7, <1>8, <1>9, <1>10, <1>11, <1>12,
            <1>13, <1>14 DEF Next, Driver, Environment

LEMMA InitAsPromised == Init => Contract!Init
<1> SUFFICES ASSUME Init PROVE Contract!Init
  OBVIOUS
<1>1. TypeOK
  BY TypeInit DEF TypeInv
<1>2. /\ call.op = "inventory" /\ call.tag = NoVal /\ call.val = NoVal /\ call.at = "idle"
      /\ call.out = "none" /\ call.got = NoVal /\ call.found = {} /\ rx = <<>>
  BY DEF Init, Started
<1>3. JobIs(Job, call, FALSE, {})
  BY <1>1, <1>2, JobBefore, SensesNothing
<1>4. PICK j : j = [Contract!Opened("inventory", NoVal, NoVal) EXCEPT !.open = FALSE]
  OBVIOUS
<1>5. JobIs(j, call, FALSE, {})
  <2>1. PICK k : k = Contract!Opened("inventory", NoVal, NoVal)
    OBVIOUS
  <2>2. JobIs(k, call, TRUE, {})
    BY <1>2, <2>1 DEF JobIs, Jobs, Ops, Contract!Opened
  <2> QED  BY <1>4, <2>1, <2>2 DEF JobIs, Jobs
<1>6. Job = j
  BY <1>3, <1>5, OneJob
<1>7. mem \in [afi : [Tags -> Afis], data : [Tags -> Datas]] /\ field \in SUBSET Tags
  BY DEF Init
<1> QED  BY <1>4, <1>6, <1>7 DEF Contract!Init

\* Every behaviour of the driver is one of its contract: what it returns is
\* true, and what it changes is the tag of the call, with any number of tags,
\* retries and damaged or lost responses, through resets and unplugged cables.
THEOREM DriverKeepsItsPromises ==
  "left" \notin LinkFaults => (Spec => DriverImplementsContract)
<1> SUFFICES ASSUME "left" \notin LinkFaults PROVE Spec => DriverImplementsContract
  OBVIOUS
<1>1. Init => PairedInv
  BY TypeInit, EmptyIsInSync DEF Init, PairedInv, InSync
<1>2. PairedInv /\ [Next]_vars => PairedInv'
  BY TypeStep, PairedStep DEF PairedInv
<1>3. PairedInv /\ PairedInv' /\ [Next]_vars => [Contract!Next]_(Contract!vars)
  BY StepAsPromised DEF PairedInv, TypeInv
<1> QED
  BY <1>1, <1>2, <1>3, InitAsPromised, PTL DEF Spec, DriverImplementsContract, Contract!Spec
=============================================================================
