-------------------------- MODULE RfidServerProofs --------------------------
(***************************************************************************)
(* Proofs about the server, for every number of handlers, every set of     *)
(* requests and tags, and every number of tries, faults and kills.         *)
(***************************************************************************)
EXTENDS RfidServer, TagMemoryProofs, TLAPS

(***************************************************************************)
(* The inductive invariant: types, exclusion, and of each request that its *)
(* ops are of its kind and that a driver call has been made for what the   *)
(* guards before it let through.                                           *)
(***************************************************************************)
CallOK(r) ==
  r.at = "calling" =>
    IF r.kind = "scan" THEN r.part # "inv" => r.cur # NoVal
    ELSE HasOp(r) /\ ~Refused(r)

RequestOK(r) == r \in Request /\ WellFormed(r) /\ CallOK(r)

RequestsOK == /\ req \in [Handlers -> Request]
              /\ \A h \in Handlers : RequestOK(req[h])

IInv == TypeOK /\ RequestsOK /\ PortExclusive

-----------------------------------------------------------------------------
(***************************************************************************)
(* The record of a request.                                                *)
(***************************************************************************)
LEMMA SmallerSeq ==
  ASSUME NEW S, NEW T, S \subseteq T, NEW s \in Seq(S)
  PROVE  s \in Seq(T)
<1>1. Len(s) \in Nat /\ s \in [1 .. Len(s) -> S]
  OBVIOUS
<1>2. s \in [1 .. Len(s) -> T]
  BY <1>1
<1> QED  BY <1>1, <1>2

LEMMA ElementOf ==
  ASSUME NEW S, NEW s \in Seq(S), NEW i \in 1 .. Len(s)
  PROVE  s[i] \in S
  OBVIOUS

\* What an op of a well-formed request is, whichever kind it is of.
LEMMA OpType ==
  ASSUME NEW r \in Request, WellFormed(r), HasOp(r), ~Refused(r)
  PROVE  /\ Current(r).tag \in Tags
         /\ r.kind = "secure" => Current(r).val \in Afis
         /\ r.kind = "program" => Current(r).val \in Datas
<1>1. r.i \in 1 .. Len(r.ops)
  BY DEF Request, HasOp
<1>2. CASE r.kind = "secure"
  <2>1. r.ops \in Seq([tag : Tags, val : Afis \cup {BadAfi}])
    BY <1>2 DEF WellFormed
  <2>2. r.ops[r.i] \in [tag : Tags, val : Afis \cup {BadAfi}]
    BY <1>1, <2>1, ElementOf
  <2> QED  BY <1>2, <2>2 DEF Current, Refused
<1>3. CASE r.kind = "program"
  <2>1. r.ops \in Seq([tag : Tags, val : Datas \cup {TooLong}])
    BY <1>3 DEF WellFormed
  <2>2. r.ops[r.i] \in [tag : Tags, val : Datas \cup {TooLong}]
    BY <1>1, <2>1, ElementOf
  <2> QED  BY <1>3, <2>2 DEF Current, Refused
<1> QED  BY <1>2, <1>3 DEF HasOp, Request

LEMMA NamedType ==
  ASSUME NEW r \in Request
  PROVE  Named(r) \subseteq Tags
<1>1. r.ops \in Seq(Op)
  BY DEF Request
<1>2. ASSUME NEW k \in DOMAIN r.ops PROVE r.ops[k].tag \in Tags
  <2>1. k \in 1 .. Len(r.ops)
    BY <1>1
  <2>2. r.ops[k] \in Op
    BY <1>1, <2>1, ElementOf
  <2> QED  BY <2>2 DEF Op
<1> QED  BY <1>2 DEF Named

LEMMA NewRequestType ==
  ASSUME NEW q, q.kind \in {"scan", "secure", "program"}, q.ops \in Seq(Op),
         plugged \in BOOLEAN
  PROVE  NewRequest(q) \in Request
<1>1. FirstPart(q.kind) \in {"inv", "afi", "blocks"}
  BY Zenon DEF FirstPart
<1>2. 1 \in 1 .. ScanTries /\ 1 \in Nat \ {0}
  BY RfidServerAssumption
<1> QED  BY <1>1, <1>2 DEF NewRequest, Request

LEMMA NewRequestOK ==
  ASSUME NEW q \in Requests, plugged \in BOOLEAN
  PROVE  RequestOK(NewRequest(q)) /\ NewRequest(q).at = "want"
<1>1. WellFormed(q)
  BY RfidServerAssumption
<1>2. q.kind \in {"scan", "secure", "program"} /\ q.ops \in Seq(Op)
  <2>1. CASE q.kind = "scan" /\ q.ops = <<>>
    BY <2>1
  <2>2. CASE q.kind = "secure" /\ q.ops \in Seq([tag : Tags, val : Afis \cup {BadAfi}])
    <3>1. [tag : Tags, val : Afis \cup {BadAfi}] \subseteq Op
      BY DEF Op, Arguments
    <3> QED  BY <2>2, <3>1, SmallerSeq
  <2>3. CASE q.kind = "program" /\ q.ops \in Seq([tag : Tags, val : Datas \cup {TooLong}])
    <3>1. [tag : Tags, val : Datas \cup {TooLong}] \subseteq Op
      BY DEF Op, Arguments
    <3> QED  BY <2>3, <3>1, SmallerSeq
  <2> QED  BY <1>1, <2>1, <2>2, <2>3 DEF WellFormed
<1>3. NewRequest(q) \in Request
  BY <1>2, NewRequestType
<1>4. NewRequest(q).kind = q.kind /\ NewRequest(q).ops = q.ops /\ NewRequest(q).at = "want"
  BY DEF NewRequest
<1>5. WellFormed(NewRequest(q))
  BY <1>1, <1>4 DEF WellFormed
<1> QED  BY <1>3, <1>4, <1>5 DEF RequestOK, CallOK

LEMMA IdleOK ==
  ASSUME plugged \in BOOLEAN
  PROVE  RequestOK(Idle) /\ Idle.at = "idle" /\ Idle.kind = "scan" /\ Idle.ops = <<>>
<1>1. PICK q : q = [kind |-> "scan", ops |-> <<>>]
  OBVIOUS
<1>2. NewRequest(q).kind = "scan" /\ NewRequest(q).ops = <<>>
  BY <1>1 DEF NewRequest
<1>3. PICK n \in Request : n = NewRequest(q)
  <2>1. q.kind \in {"scan", "secure", "program"} /\ q.ops \in Seq(Op)
    BY <1>1
  <2>2. NewRequest(q) \in Request
    BY <2>1, NewRequestType
  <2> QED  BY <2>2
<1>4. Idle = [n EXCEPT !.at = "idle"]
  BY <1>1, <1>3, Zenon DEF Idle
<1>5. Idle \in Request /\ Idle.at = "idle" /\ Idle.kind = "scan" /\ Idle.ops = <<>>
  BY <1>2, <1>3, <1>4 DEF Request
<1> QED  BY <1>5 DEF RequestOK, CallOK, WellFormed

LEMMA AnsweredOK ==
  ASSUME NEW r \in Request, plugged \in BOOLEAN
  PROVE  RequestOK(Answered(r)) /\ Answered(r).at = "idle"
<1>1. PICK n \in Request : n = Idle /\ n.at = "idle" /\ n.ops = <<>>
  BY IdleOK DEF RequestOK
<1>2. /\ Answered(r) \in Request /\ Answered(r).at = "idle"
      /\ Answered(r).ops = <<>> /\ Answered(r).kind = r.kind
  <2>1. PICK a : a = [n EXCEPT !.kind = r.kind, !.out = r.out, !.calm = r.calm]
    OBVIOUS
  <2>2. /\ r.kind \in {"scan", "secure", "program"} /\ r.out \in {"none", "ok", "err"}
        /\ r.calm \in BOOLEAN
    BY DEF Request
  <2>3. n \in Request /\ n.at = "idle" /\ n.ops = <<>>
    BY <1>1
  <2>4. a \in Request
    BY <2>1, <2>2, ZenonT(30) DEF Request
  <2>5. a.at = "idle" /\ a.ops = <<>> /\ a.kind = r.kind
    BY <2>1, <2>3 DEF Request
  <2>6. Answered(r) = [Idle EXCEPT !.kind = r.kind, !.out = r.out, !.calm = r.calm]
    BY Zenon DEF Answered
  <2>7. Answered(r) = a
    BY <1>1, <2>1, <2>6, Zenon
  <2> QED  BY <2>4, <2>5, <2>7
<1>3. r.kind \in {"scan", "secure", "program"}
  BY DEF Request
<1> QED  BY <1>2, <1>3 DEF RequestOK, CallOK, WellFormed

-----------------------------------------------------------------------------
(***************************************************************************)
(* A step of one handler.                                                  *)
(***************************************************************************)
LEMMA SetOK ==
  ASSUME RequestsOK, NEW h \in Handlers, NEW r, RequestOK(r), Set(h, r)
  PROVE  RequestsOK'
<1>1. req' = [req EXCEPT ![h] = r] /\ r \in Request
  BY DEF Set, RequestOK
<1>2. req' \in [Handlers -> Request]
  BY <1>1 DEF RequestsOK
<1>3. ASSUME NEW g \in Handlers PROVE req'[g] = r \/ req'[g] = req[g]
  BY <1>1 DEF RequestsOK
<1> QED  BY <1>2, <1>3 DEF RequestsOK

LEMMA SetExclusive ==
  ASSUME RequestsOK, PortExclusive, NEW h \in Handlers, NEW r, Set(h, r), holder' = holder,
         req[h].at \in Inside <=> r.at \in Inside
  PROVE  PortExclusive'
<1>1. \A g \in Handlers : req'[g] = IF g = h THEN r ELSE req[g]
  BY DEF Set, RequestsOK
<1> QED  BY <1>1 DEF PortExclusive, Inside

\* A step inside an operation, or outside: the handler does not pass between.
LEMMA HandlerStep ==
  ASSUME IInv, NEW h \in Handlers, NEW r, RequestOK(r), Set(h, r),
         req[h].at \in Inside <=> r.at \in Inside,
         UNCHANGED <<alive, holder, field, plugged, suspect, crashes>>,
         mem' \in Memory, port' \in {"up", "down"}, fails' \in 0 .. FailLimit,
         faults' \in 0 .. MaxFaults
  PROVE  IInv'
<1>1. RequestsOK'
  BY SetOK DEF IInv
<1>2. PortExclusive'
  BY SetExclusive DEF IInv
<1>3. TypeOK'
  BY <1>1 DEF IInv, TypeOK, RequestsOK
<1> QED  BY <1>1, <1>2, <1>3 DEF IInv

LEMMA Current_Request ==
  ASSUME IInv, NEW h \in Handlers
  PROVE  \E r \in Request : r = req[h] /\ WellFormed(r) /\ CallOK(r)
  BY DEF IInv, RequestsOK, RequestOK

LEMMA CountFailureEffect ==
  ASSUME IInv, NEW h \in Handlers, NEW own \in BOOLEAN, own => faults < MaxFaults,
         CountFailure(h, own)
  PROVE  /\ port' \in {"up", "down"} /\ fails' \in 0 .. FailLimit
         /\ faults' \in 0 .. MaxFaults
         /\ \/ Found(h)
            \/ \E c \in BOOLEAN :
                 Set(h, [req[h] EXCEPT !.at = "unlock", !.out = "err", !.calm = c])
<1> DEFINE n    == IF fails = FailLimit THEN fails ELSE fails + 1
           used == IF own THEN faults + 1 ELSE faults
           failed == [req[h] EXCEPT !.at = "unlock", !.out = "err", !.calm = @ /\ ~own]
<1>1. n \in 0 .. FailLimit
  BY RfidServerAssumption DEF IInv, TypeOK
<1>2. used \in 0 .. MaxFaults
  BY RfidServerAssumption DEF IInv, TypeOK
<1>3. PICK r \in Request : r = req[h]
  BY Current_Request
<1>4. \E c \in BOOLEAN :
        failed = [req[h] EXCEPT !.at = "unlock", !.out = "err", !.calm = c]
  <2>1. (r.calm /\ ~own) \in BOOLEAN
    OBVIOUS
  <2> QED  BY <1>3, <2>1
<1>5. \E c \in BOOLEAN :
        [failed EXCEPT !.calm = FALSE]
          = [req[h] EXCEPT !.at = "unlock", !.out = "err", !.calm = c]
  <2>1. [[r EXCEPT !.at = "unlock", !.out = "err", !.calm = @ /\ ~own] EXCEPT !.calm = FALSE]
          = [r EXCEPT !.at = "unlock", !.out = "err", !.calm = FALSE]
    BY DEF Request
  <2> QED  BY <1>3, <2>1
<1> HIDE DEF n, used, failed
<1>6. \/ /\ fails' = n /\ faults' = used /\ Set(h, failed)
         /\ port' = port \/ port' = "down"
      \/ /\ fails' = 0 /\ port' = "up"
         /\ \/ Found(h) /\ faults' = used
            \/ /\ used < MaxFaults /\ faults' = used + 1
               /\ Set(h, [failed EXCEPT !.calm = FALSE])
  BY DEF CountFailure, n, used, failed
<1>7. /\ fails' \in 0 .. FailLimit /\ faults' \in 0 .. MaxFaults
      /\ port' \in {"up", "down"}
  BY <1>1, <1>2, <1>6, RfidServerAssumption DEF IInv, TypeOK
<1> QED  BY <1>4, <1>5, <1>6, <1>7

LEMMA InventoryStep ==
  ASSUME IInv, NEW h \in Handlers, InventoryWithReset(h)
  PROVE  IInv'
<1>1. PICK r \in Request : r = req[h] /\ WellFormed(r) /\ CallOK(r)
  BY Current_Request
<1>2. r.at = "calling" /\ r.part = "inv"
  BY <1>1 DEF InventoryWithReset
<1>3. ASSUME Found(h)
      PROVE  \E n : /\ RequestOK(n) /\ Set(h, n)
                    /\ req[h].at \in Inside <=> n.at \in Inside
  <2>1. PICK n : n = [r EXCEPT !.at = "between", !.part = "afi", !.todo = field]
    OBVIOUS
  <2>2. n \in Request /\ n.at = "between" /\ n.kind = r.kind /\ n.ops = r.ops
    BY <2>1 DEF Request, IInv, TypeOK
  <2>3. RequestOK(n)
    BY <1>1, <2>2 DEF RequestOK, WellFormed, CallOK
  <2> QED  BY <1>1, <1>2, <1>3, <2>1, <2>2, <2>3 DEF Found, Inside
<1>4. ASSUME NEW c \in BOOLEAN,
             Set(h, [req[h] EXCEPT !.at = "unlock", !.out = "err", !.calm = c])
      PROVE  \E n : /\ RequestOK(n) /\ Set(h, n)
                    /\ req[h].at \in Inside <=> n.at \in Inside
  <2>1. PICK n : n = [r EXCEPT !.at = "unlock", !.out = "err", !.calm = c]
    OBVIOUS
  <2>2. n \in Request /\ n.at = "unlock" /\ n.kind = r.kind /\ n.ops = r.ops
    BY <2>1 DEF Request
  <2>3. RequestOK(n)
    BY <1>1, <2>2 DEF RequestOK, WellFormed, CallOK
  <2> QED  BY <1>1, <1>2, <1>4, <2>1, <2>2, <2>3 DEF Inside
<1>5. /\ UNCHANGED <<alive, holder, field, plugged, suspect, crashes>>
      /\ mem' \in Memory
  BY DEF InventoryWithReset, IInv, TypeOK
<1>6. /\ \E n : RequestOK(n) /\ Set(h, n) /\ (req[h].at \in Inside <=> n.at \in Inside)
      /\ port' \in {"up", "down"} /\ fails' \in 0 .. FailLimit /\ faults' \in 0 .. MaxFaults
  <2>1. CASE port = "up" /\ Found(h) /\ fails' = 0 /\ UNCHANGED <<port, faults>>
    BY <2>1, <1>3, RfidServerAssumption DEF IInv, TypeOK
  <2>2. CASE \E own \in BOOLEAN : (own => faults < MaxFaults) /\ CountFailure(h, own)
    BY <2>2, <1>3, <1>4, CountFailureEffect
  <2> QED  BY <2>1, <2>2 DEF InventoryWithReset
<1> QED  BY <1>5, <1>6, HandlerStep

\* A step that makes no driver call only has to keep the kind and the ops.
LEMMA QuietOK ==
  ASSUME NEW r \in Request, WellFormed(r), NEW n \in Request,
         n.kind = r.kind, n.ops = r.ops, n.at # "calling"
  PROVE  RequestOK(n)
  BY DEF RequestOK, WellFormed, CallOK

LEMMA CallStep ==
  ASSUME IInv, NEW h \in Handlers, Call(h)
  PROVE  IInv'
<1>1. PICK r \in Request : r = req[h] /\ WellFormed(r) /\ CallOK(r)
  BY Current_Request
<1>2. PICK n : n = [r EXCEPT !.at = "calling"]
  OBVIOUS
<1>3. /\ n \in Request /\ n.at = "calling" /\ n.kind = r.kind /\ n.ops = r.ops
      /\ n.part = r.part /\ n.cur = r.cur /\ n.i = r.i
  BY <1>2 DEF Request
<1>4. /\ r.at = "between" /\ Set(h, n)
      /\ \/ r.kind = "scan" /\ (r.part = "inv" \/ r.cur # NoVal)
         \/ HasOp(r) /\ ~Refused(r)
  BY <1>1, <1>2 DEF Call
<1>5. HasOp(n) = HasOp(r) /\ Refused(n) = Refused(r)
  BY <1>3 DEF HasOp, Refused, Current
<1>6. RequestOK(n)
  BY <1>1, <1>3, <1>4, <1>5 DEF RequestOK, WellFormed, CallOK, HasOp
<1>7. /\ UNCHANGED <<alive, holder, field, plugged, suspect, crashes>>
      /\ UNCHANGED <<mem, port, fails, faults>>
  BY DEF Call, link
<1> QED  BY <1>1, <1>3, <1>4, <1>6, <1>7, HandlerStep DEF Inside, IInv, TypeOK

LEMMA ScanStep ==
  ASSUME IInv, NEW h \in Handlers, NextTag(h) \/ ScanAfi(h) \/ ScanBlocks(h)
  PROVE  IInv'
<1>1. PICK r \in Request : r = req[h] /\ WellFormed(r) /\ CallOK(r)
  BY Current_Request
<1>2. \E n \in Request : /\ Set(h, n) /\ n.at = "between"
                          /\ n.kind = r.kind /\ n.ops = r.ops
  <2>1. CASE NextTag(h)
    <3>1. PICK t \in r.todo : Set(h, [r EXCEPT !.cur = t, !.todo = @ \ {t}])
      BY <1>1, <2>1 DEF NextTag
    <3>2. r.at = "between" /\ t \in Tags
      BY <1>1, <2>1 DEF NextTag, Request
    <3>3. PICK n : n = [r EXCEPT !.cur = t, !.todo = @ \ {t}]
      OBVIOUS
    <3>4. n \in Request /\ n.at = "between" /\ n.kind = r.kind /\ n.ops = r.ops
      BY <3>2, <3>3 DEF Request
    <3> QED  BY <3>1, <3>3, <3>4
  <2>2. CASE ScanAfi(h)
    <3>1. PICK v \in {NoVal} \cup (IF Readable(r.cur) THEN {mem.afi[r.cur]} ELSE {}) :
            Set(h, [r EXCEPT !.at = "between", !.part = "blocks", !.sec = v])
      BY <1>1, <2>2 DEF ScanAfi
    <3>2. v \in Afis \cup {NoVal}
      BY <3>1 DEF Readable, IInv, TypeOK, Memory
    <3>3. PICK n : n = [r EXCEPT !.at = "between", !.part = "blocks", !.sec = v]
      OBVIOUS
    <3>4. n \in Request /\ n.at = "between" /\ n.kind = r.kind /\ n.ops = r.ops
      BY <3>2, <3>3 DEF Request
    <3> QED  BY <3>1, <3>3, <3>4
  <2>3. CASE ScanBlocks(h)
    <3>1. PICK c \in {NoVal} \cup
                    (IF Readable(r.cur) THEN {mem.data[r.cur], Garbled} ELSE {}) :
            Set(h, [r EXCEPT !.at = "between", !.part = "afi", !.cur = NoVal, !.sec = NoVal,
                      !.items = @ \cup {[sid |-> r.cur, security |-> r.sec, content |-> c]}])
      BY <1>1, <2>3 DEF ScanBlocks
    <3>2. c \in Contents \cup {NoVal, Garbled}
      BY <3>1 DEF Readable, IInv, TypeOK, Memory
    <3>3. r.cur \in Tags /\ r.sec \in Afis \cup {NoVal}
      BY <1>1, <2>3 DEF ScanBlocks, CallOK, Request
    <3>4. PICK x : x = [sid |-> r.cur, security |-> r.sec, content |-> c]
      OBVIOUS
    <3>5. x \in Item
      BY <3>2, <3>3, <3>4 DEF Item
    <3>6. PICK n : n = [r EXCEPT !.at = "between", !.part = "afi", !.cur = NoVal,
                                 !.sec = NoVal, !.items = @ \cup {x}]
      OBVIOUS
    <3>7. n \in Request /\ n.at = "between" /\ n.kind = r.kind /\ n.ops = r.ops
      BY <3>5, <3>6 DEF Request
    <3> QED  BY <3>1, <3>4, <3>6, <3>7
  <2> QED  BY <2>1, <2>2, <2>3
<1>3. /\ UNCHANGED <<alive, holder, field, plugged, suspect, crashes>>
      /\ UNCHANGED <<mem, port, fails, faults>>
      /\ r.at \in Inside
  BY <1>1 DEF NextTag, ScanAfi, ScanBlocks, link, Inside
<1> QED  BY <1>1, <1>2, <1>3, QuietOK, HandlerStep DEF Inside, IInv, TypeOK

LEMMA AfiOutcomesType ==
  ASSUME IInv, NEW t \in Tags, NEW a \in Afis, NEW o \in AfiOutcomes(t, a)
  PROVE  o[2] \in Memory
<1>1. mem \in Memory /\ field \in SUBSET Tags
  BY DEF IInv, TypeOK
<1>2. SetAfi(mem, t, a) \in Memory /\ AfiWrites(mem, field, t, a) \subseteq Memory
  BY <1>1, SetAfiType, AfiWritesType
<1>3. \E ok \in BOOLEAN, m \in Memory : o = <<ok, m>>
  BY <1>1, <1>2 DEF AfiOutcomes
<1> QED  BY <1>3

LEMMA DataOutcomesType ==
  ASSUME IInv, NEW t \in Tags, NEW d \in Datas, NEW o \in DataOutcomes(t, d)
  PROVE  o[2] \in Memory
<1>1. mem \in Memory /\ field \in SUBSET Tags /\ d \in Contents
  BY DEF IInv, TypeOK, Contents
<1>2. SetData(mem, t, d) \in Memory /\ DataWrites(mem, field, t, d) \subseteq Memory
  BY <1>1, SetDataType, DataWritesType
<1>3. \E ok \in BOOLEAN, m \in Memory : o = <<ok, m>>
  BY <1>1, <1>2 DEF DataOutcomes
<1> QED  BY <1>3

\* The ways a request goes on after a write, or without one.
Continues(r, n) == /\ n \in Request /\ n.at \in {"between", "unlock"}
                   /\ n.kind = r.kind /\ n.ops = r.ops

LEMMA Advances ==
  ASSUME NEW r \in Request, NEW e \in SUBSET (Nat \ {0}), NEW p \in {"afi", "blocks"}
  PROVE  /\ Continues(r, [r EXCEPT !.at = "between", !.part = p])
         /\ Continues(r, [r EXCEPT !.at = "between", !.i = @ + 1])
         /\ Continues(r, [r EXCEPT !.at = "between", !.part = p, !.i = @ + 1, !.errs = e])
<1>1. r.i + 1 \in Nat \ {0}
  BY DEF Request
<1>2. Continues(r, [r EXCEPT !.at = "between", !.part = p])
  BY DEF Continues, Request
<1>3. Continues(r, [r EXCEPT !.at = "between", !.i = @ + 1])
  BY <1>1 DEF Continues, Request
<1>4. Continues(r, [r EXCEPT !.at = "between", !.part = p, !.i = @ + 1, !.errs = e])
  BY <1>1 DEF Continues, Request
<1> QED  BY <1>2, <1>3, <1>4

LEMMA Ends ==
  ASSUME NEW r \in Request, NEW o \in {"ok", "err"}
  PROVE  Continues(r, [r EXCEPT !.at = "unlock", !.out = o])
  BY DEF Continues, Request

LEMMA FailingOK ==
  ASSUME NEW r \in Request
  PROVE  /\ Failing(r) \in Request /\ Failing(r).kind = r.kind /\ Failing(r).ops = r.ops
         /\ Failing(r).at = r.at /\ Failing(r).errs \in SUBSET (Nat \ {0})
<1>1. PICK e \in SUBSET (Nat \ {0}) : e = r.errs \cup {r.i}
  BY DEF Request
<1>2. PICK f : f = [r EXCEPT !.errs = e]
  OBVIOUS
<1>3. f \in Request /\ f.kind = r.kind /\ f.ops = r.ops /\ f.at = r.at /\ f.errs = e
  BY <1>2 DEF Request
<1>4. Failing(r) = f
  BY <1>1, <1>2 DEF Failing
<1> QED  BY <1>1, <1>3, <1>4

LEMMA FailsAndContinues ==
  ASSUME NEW r \in Request
  PROVE  /\ Continues(r, [Failing(r) EXCEPT !.at = "between", !.i = @ + 1])
         /\ r.at = "between" => Continues(r, [Failing(r) EXCEPT !.i = @ + 1])
         /\ Continues(r, [Failing(r) EXCEPT !.at = "unlock", !.out = "err"])
<1>1. PICK f \in Request : /\ f = Failing(r) /\ f.kind = r.kind /\ f.ops = r.ops
                           /\ f.at = r.at
  BY FailingOK
<1>2. /\ Continues(f, [f EXCEPT !.at = "between", !.i = @ + 1])
      /\ Continues(f, [f EXCEPT !.at = "unlock", !.out = "err"])
  BY Advances, Ends
<1>3. f.at = "between" => Continues(f, [f EXCEPT !.i = @ + 1])
  <2>1. f.i + 1 \in Nat \ {0}
    BY DEF Request
  <2> QED  BY <2>1 DEF Continues, Request
<1> QED  BY <1>1, <1>2, <1>3 DEF Continues

LEMMA WriteContinues ==
  ASSUME IInv, NEW h \in Handlers,
         SecureTag(h) \/ ProgramBlocks(h) \/ ProgramAfi(h)
  PROVE  mem' \in Memory /\ \E n : Set(h, n) /\ Continues(req[h], n)
<1>1. PICK r \in Request : r = req[h] /\ WellFormed(r) /\ CallOK(r)
  BY Current_Request
<1>2. r.at = "calling" /\ r.kind \in {"secure", "program"}
  BY <1>1 DEF SecureTag, ProgramBlocks, ProgramAfi
<1>3. /\ Current(r).tag \in Tags
      /\ r.kind = "secure" => Current(r).val \in Afis
      /\ r.kind = "program" => Current(r).val \in Datas
  BY <1>1, <1>2, OpType DEF CallOK
<1>4. mem' \in Memory /\ \E n : Set(h, n) /\ Continues(r, n)
  <2>1. CASE SecureTag(h)
    <3>1. PICK o \in AfiOutcomes(Current(r).tag, Current(r).val) :
            /\ mem' = o[2]
            /\ \/ Set(h, [r EXCEPT !.at = "between", !.i = @ + 1])
               \/ Set(h, [Failing(r) EXCEPT !.at = "unlock", !.out = "err"])
      BY <1>1, <2>1 DEF SecureTag
    <3>2. mem' \in Memory
      BY <1>1, <1>3, <2>1, <3>1, AfiOutcomesType DEF SecureTag
    <3> QED  BY <3>1, <3>2, Advances, FailsAndContinues
  <2>2. CASE ProgramBlocks(h)
    <3>1. PICK o \in DataOutcomes(Current(r).tag, Current(r).val) :
            /\ mem' = o[2]
            /\ \/ Set(h, [r EXCEPT !.at = "between", !.part = "afi"])
               \/ Set(h, [Failing(r) EXCEPT !.at = "between", !.i = @ + 1])
      BY <1>1, <2>2 DEF ProgramBlocks
    <3>2. mem' \in Memory
      BY <1>1, <1>3, <2>2, <3>1, DataOutcomesType DEF ProgramBlocks
    <3> QED  BY <3>1, <3>2, Advances, FailsAndContinues
  <2>3. CASE ProgramAfi(h)
    <3> DEFINE next == [r EXCEPT !.at = "between", !.part = "blocks", !.i = @ + 1]
    <3>1. PICK o \in AfiOutcomes(Current(r).tag, AfiOf[Current(r).val]) :
            /\ mem' = o[2]
            /\ Set(h, IF o[1] THEN next ELSE [next EXCEPT !.errs = Failing(r).errs])
      BY <1>1, <2>3 DEF ProgramAfi
    <3>2. AfiOf[Current(r).val] \in Afis
      BY <1>1, <1>3, <2>3, RfidServerAssumption DEF ProgramAfi
    <3>3. mem' \in Memory
      BY <1>3, <3>1, <3>2, AfiOutcomesType
    <3>4. PICK e \in SUBSET (Nat \ {0}) : e = Failing(r).errs
      BY FailingOK
    <3>5. next = [r EXCEPT !.at = "between", !.part = "blocks", !.i = @ + 1, !.errs = r.errs]
      BY DEF Request
    <3>6. [next EXCEPT !.errs = e]
            = [r EXCEPT !.at = "between", !.part = "blocks", !.i = @ + 1, !.errs = e]
      BY DEF Request
    <3>7. r.errs \in SUBSET (Nat \ {0})
      BY DEF Request
    <3> HIDE DEF next
    <3>8. \E g \in SUBSET (Nat \ {0}) :
            Set(h, [r EXCEPT !.at = "between", !.part = "blocks", !.i = @ + 1, !.errs = g])
      BY <3>1, <3>4, <3>5, <3>6, <3>7
    <3> QED  BY <3>3, <3>8, Advances
  <2> QED  BY <2>1, <2>2, <2>3
<1> QED  BY <1>1, <1>4

LEMMA WriteStep ==
  ASSUME IInv, NEW h \in Handlers,
         SecureTag(h) \/ ProgramBlocks(h) \/ ProgramAfi(h)
  PROVE  IInv'
<1>1. PICK r \in Request : r = req[h] /\ WellFormed(r) /\ CallOK(r)
  BY Current_Request
<1>2. r.at = "calling"
  BY <1>1 DEF SecureTag, ProgramBlocks, ProgramAfi
<1>3. mem' \in Memory /\ \E n : Set(h, n) /\ Continues(r, n)
  BY <1>1, WriteContinues
<1>4. /\ UNCHANGED <<alive, holder, field, plugged, suspect, crashes>>
      /\ UNCHANGED <<port, fails, faults>>
  BY DEF SecureTag, ProgramBlocks, ProgramAfi, link
<1> QED  BY <1>1, <1>2, <1>3, <1>4, QuietOK, HandlerStep DEF Continues, Inside, IInv, TypeOK

LEMMA EndContinues ==
  ASSUME IInv, NEW h \in Handlers,
         SecureRefuses(h) \/ ProgramRefuses(h) \/ Finish(h)
  PROVE  \E n : Set(h, n) /\ Continues(req[h], n)
<1>1. PICK r \in Request : r = req[h] /\ WellFormed(r) /\ CallOK(r)
  BY Current_Request
<1>2. r.at = "between"
  BY <1>1 DEF SecureRefuses, ProgramRefuses, Finish
<1>3. \/ Set(h, [Failing(r) EXCEPT !.at = "unlock", !.out = "err"])
      \/ Set(h, [Failing(r) EXCEPT !.i = @ + 1])
      \/ \E o \in {"ok", "err"} : Set(h, [r EXCEPT !.at = "unlock", !.out = o])
  <2>1. CASE SecureRefuses(h) \/ ProgramRefuses(h)
    BY <1>1, <2>1 DEF SecureRefuses, ProgramRefuses
  <2>2. CASE Finish(h)
    <3>1. PICK o \in {"ok", "err"} : o = IF r.errs = {} THEN "ok" ELSE "err"
      OBVIOUS
    <3>2. Set(h, [r EXCEPT !.at = "unlock", !.out = o])
      BY <1>1, <2>2, <3>1 DEF Finish
    <3> QED  BY <3>2
  <2> QED  BY <2>1, <2>2
<1>4. \E n : Set(h, n) /\ Continues(r, n)
  BY <1>2, <1>3, FailsAndContinues, Ends
<1> QED  BY <1>1, <1>4

LEMMA RefusalOrEnd ==
  ASSUME IInv, NEW h \in Handlers,
         SecureRefuses(h) \/ ProgramRefuses(h) \/ Finish(h)
  PROVE  IInv'
<1>1. PICK r \in Request : r = req[h] /\ WellFormed(r) /\ CallOK(r)
  BY Current_Request
<1>2. r.at = "between"
  BY <1>1 DEF SecureRefuses, ProgramRefuses, Finish
<1>3. \E n : Set(h, n) /\ Continues(r, n)
  BY <1>1, EndContinues
<1>4. /\ UNCHANGED <<alive, holder, field, plugged, suspect, crashes>>
      /\ UNCHANGED <<mem, port, fails, faults>>
  BY DEF SecureRefuses, ProgramRefuses, Finish, link
<1> QED  BY <1>1, <1>2, <1>3, <1>4, QuietOK, HandlerStep DEF Continues, Inside, IInv, TypeOK

LEMMA OutsideStep ==
  ASSUME IInv, NEW h \in Handlers, Arrive(h) \/ Resume(h)
  PROVE  IInv'
<1>1. PICK r \in Request : r = req[h] /\ WellFormed(r) /\ CallOK(r)
  BY Current_Request
<1>2. plugged \in BOOLEAN
  BY DEF IInv, TypeOK
<1>3. r.at \notin Inside
  BY <1>1 DEF Arrive, Resume, Inside
<1>4. \E n : RequestOK(n) /\ Set(h, n) /\ n.at \notin Inside
  <2>1. CASE Arrive(h)
    <3>1. PICK q \in Requests : Set(h, NewRequest(q))
      BY <2>1 DEF Arrive
    <3> QED  BY <1>2, <3>1, NewRequestOK DEF Inside
  <2>2. CASE Resume(h) /\ MayRetry(r)
    <3>1. PICK n : n = [r EXCEPT !.at = "want", !.try = @ + 1, !.out = "none"]
      OBVIOUS
    <3>2. r.try + 1 \in 1 .. ScanTries
      BY <2>2, RfidServerAssumption DEF MayRetry, Request
    <3>3. n \in Request /\ n.at = "want" /\ n.kind = r.kind /\ n.ops = r.ops
      BY <3>1, <3>2 DEF Request
    <3>4. Set(h, n)
      BY <1>1, <2>2, <3>1 DEF Resume
    <3> QED  BY <1>1, <3>3, <3>4, QuietOK DEF Inside
  <2>3. CASE Resume(h) /\ ~MayRetry(r)
    <3>1. Set(h, Answered(r))
      BY <1>1, <2>3 DEF Resume
    <3> QED  BY <1>2, <3>1, AnsweredOK DEF Inside
  <2> QED  BY <2>1, <2>2, <2>3
<1>5. /\ UNCHANGED <<alive, holder, field, plugged, suspect, crashes>>
      /\ UNCHANGED <<mem, port, fails, faults>>
  BY DEF Arrive, Resume, link
<1> QED  BY <1>1, <1>3, <1>4, <1>5, HandlerStep DEF IInv, TypeOK

LEMMA LockStep ==
  ASSUME IInv, NEW h \in Handlers, Lock(h)
  PROVE  IInv'
<1>1. PICK r \in Request : r = req[h] /\ WellFormed(r) /\ CallOK(r)
  BY Current_Request
<1>2. PICK n : n = [r EXCEPT !.at = "between", !.start = mem]
  OBVIOUS
<1>3. n \in Request /\ n.at = "between" /\ n.kind = r.kind /\ n.ops = r.ops
  BY <1>2 DEF Request, IInv, TypeOK
<1>4. Set(h, n) /\ holder = Nobody /\ holder' = h
  BY <1>1, <1>2 DEF Lock, MutexFree
<1>5. RequestsOK'
  BY <1>1, <1>3, <1>4, QuietOK, SetOK DEF IInv
<1>6. \A g \in Handlers : req'[g] = IF g = h THEN n ELSE req[g]
  BY <1>4 DEF Set, IInv, RequestsOK
<1>7. \A g \in Handlers : req[g].at \notin Inside
  BY <1>4, RfidServerAssumption DEF IInv, PortExclusive
<1>8. PortExclusive'
  BY <1>3, <1>4, <1>6, <1>7 DEF PortExclusive, Inside
<1>9. TypeOK'
  BY <1>4, <1>5 DEF Lock, link, IInv, TypeOK, RequestsOK
<1> QED  BY <1>5, <1>8, <1>9 DEF IInv

LEMMA UnlockStep ==
  ASSUME IInv, NEW h \in Handlers, Unlock(h)
  PROVE  IInv'
<1>1. PICK r \in Request : r = req[h] /\ WellFormed(r) /\ CallOK(r)
  BY Current_Request
<1>2. r.at = "unlock" /\ holder = h /\ holder' = Nobody
  BY <1>1 DEF Unlock, ReleaseMutex, IInv, PortExclusive, Inside
<1>3. PICK n : RequestOK(n) /\ Set(h, n) /\ n.at \notin Inside
  <2>1. CASE r.kind = "scan" /\ r.out = "err"
    <3>1. PICK n : n = [r EXCEPT !.at = "pause", !.start = NoVal]
      OBVIOUS
    <3>2. n \in Request /\ n.at = "pause" /\ n.kind = r.kind /\ n.ops = r.ops
      BY <3>1 DEF Request
    <3>3. Set(h, n)
      BY <1>1, <2>1, <3>1 DEF Unlock
    <3> QED  BY <1>1, <3>2, <3>3, QuietOK DEF Inside
  <2>2. CASE ~(r.kind = "scan" /\ r.out = "err")
    <3>1. Set(h, Answered(r))
      BY <1>1, <2>2 DEF Unlock
    <3>2. plugged \in BOOLEAN
      BY DEF IInv, TypeOK
    <3> QED  BY <3>1, <3>2, AnsweredOK DEF Inside
  <2> QED  BY <2>1, <2>2
<1>4. RequestsOK'
  BY <1>3, SetOK DEF IInv
<1>5. \A g \in Handlers : req'[g] = IF g = h THEN n ELSE req[g]
  BY <1>3 DEF Set, IInv, RequestsOK
<1>6. PortExclusive'
  BY <1>2, <1>3, <1>5, RfidServerAssumption DEF IInv, PortExclusive
<1>7. suspect' \in SUBSET Tags
  BY <1>1, NamedType DEF Unlock, IInv, TypeOK
<1>8. TypeOK'
  BY <1>2, <1>4, <1>7 DEF Unlock, link, IInv, TypeOK, RequestsOK
<1> QED  BY <1>4, <1>6, <1>8 DEF IInv

-----------------------------------------------------------------------------
(***************************************************************************)
(* The environment, and the process.                                       *)
(***************************************************************************)
LEMMA UnplugStep == IInv /\ Unplug => IInv'
<1> SUFFICES ASSUME IInv, Unplug PROVE IInv'
  OBVIOUS
<1>1. ASSUME NEW h \in Handlers
      PROVE  RequestOK(req'[h]) /\ req'[h].at = req[h].at
  <2>1. PICK r \in Request : r = req[h] /\ WellFormed(r) /\ CallOK(r)
    BY Current_Request
  <2>2. PICK n : n = [r EXCEPT !.calm = FALSE]
    OBVIOUS
  <2>3. /\ n \in Request /\ n.at = r.at /\ n.kind = r.kind /\ n.ops = r.ops
        /\ n.part = r.part /\ n.cur = r.cur /\ n.i = r.i
    BY <2>2 DEF Request
  <2>4. HasOp(n) = HasOp(r) /\ Refused(n) = Refused(r)
    BY <2>3 DEF HasOp, Refused, Current
  <2>5. RequestOK(n) /\ RequestOK(r)
    BY <2>1, <2>3, <2>4 DEF RequestOK, WellFormed, CallOK
  <2>6. req'[h] = r \/ req'[h] = n
    BY <2>1, <2>2 DEF Unplug
  <2> QED  BY <2>1, <2>3, <2>5, <2>6
<1>2. req' \in [Handlers -> Request]
  <2>1. req' = [h \in Handlers |-> req'[h]]
    BY DEF Unplug
  <2> QED  BY <1>1, <2>1 DEF RequestOK
<1>3. RequestsOK'
  BY <1>1, <1>2 DEF RequestsOK
<1>4. PortExclusive'
  BY <1>1 DEF Unplug, IInv, PortExclusive, Inside
<1>5. TypeOK'
  BY <1>2 DEF Unplug, IInv, TypeOK
<1> QED  BY <1>3, <1>4, <1>5 DEF IInv

LEMMA CrashStep == IInv /\ Crash => IInv'
<1> SUFFICES ASSUME IInv, Crash PROVE IInv'
  OBVIOUS
<1>1. plugged \in BOOLEAN
  BY DEF IInv, TypeOK
<1>2. RequestOK(Idle) /\ Idle.at = "idle"
  BY <1>1, IdleOK
<1>3. req' = [h \in Handlers |-> Idle] /\ holder' = Nobody
  BY DEF Crash
<1>4. RequestsOK'
  BY <1>2, <1>3 DEF RequestsOK, RequestOK
<1>5. PortExclusive'
  BY <1>2, <1>3, RfidServerAssumption DEF PortExclusive, Inside
<1>6. \A h \in Handlers : Named(req[h]) \subseteq Tags
  BY NamedType DEF IInv, RequestsOK
<1>7. suspect' \in SUBSET Tags
  BY <1>6 DEF Crash, IInv, TypeOK
<1>8. crashes' \in 0 .. MaxCrashes
  BY RfidServerAssumption DEF Crash, IInv, TypeOK
<1>9. TypeOK'
  BY <1>3, <1>4, <1>7, <1>8 DEF Crash, link, IInv, TypeOK, RequestsOK
<1> QED  BY <1>4, <1>5, <1>9 DEF IInv

LEMMA Inductive == IInv /\ [Next]_vars => IInv'
<1> SUFFICES ASSUME IInv, [Next]_vars PROVE IInv'
  OBVIOUS
<1>1. ASSUME NEW h \in Handlers, Arrive(h) \/ Lock(h) \/ Step(h) PROVE IInv'
  BY <1>1, OutsideStep, LockStep, UnlockStep, CallStep, InventoryStep, ScanStep, WriteStep,
     RefusalOrEnd DEF Step
<1>2. CASE MoveTags \/ Plug \/ Start \/ UNCHANGED vars
  <2>1. holder' = holder /\ req' = req
    BY <1>2 DEF MoveTags, Plug, Start, vars
  <2>2. RequestsOK' /\ PortExclusive'
    BY <2>1 DEF IInv, RequestsOK, PortExclusive
  <2>3. req' \in [Handlers -> Request] /\ fails' \in 0 .. FailLimit
    BY <1>2, <2>2, RfidServerAssumption DEF MoveTags, Plug, Start, vars, link, IInv, TypeOK,
                                            RequestsOK
  <2>4. TypeOK'
    <3>1. CASE MoveTags
      BY <2>1, <2>3, <3>1 DEF MoveTags, link, IInv, TypeOK
    <3>2. CASE Plug
      BY <2>1, <2>3, <3>2 DEF Plug, IInv, TypeOK
    <3>3. CASE Start
      BY <2>1, <2>3, <3>3 DEF Start, IInv, TypeOK
    <3>4. CASE UNCHANGED vars
      BY <2>1, <2>3, <3>4 DEF vars, link, IInv, TypeOK
    <3> QED  BY <1>2, <3>1, <3>2, <3>3, <3>4
  <2> QED  BY <2>2, <2>4 DEF IInv
<1>3. CASE Unplug
  BY <1>3, UnplugStep
<1>4. CASE Crash
  BY <1>4, CrashStep
<1> QED  BY <1>1, <1>2, <1>3, <1>4 DEF Next

LEMMA Initial == Init => IInv
<1> SUFFICES ASSUME Init PROVE IInv
  OBVIOUS
<1>1. RequestOK(Idle) /\ Idle.at = "idle"
  BY IdleOK DEF Init
<1>2. RequestsOK
  BY <1>1 DEF Init, RequestsOK, RequestOK
<1>3. PortExclusive
  BY <1>1, RfidServerAssumption DEF Init, PortExclusive, Inside
<1>4. mem \in Memory
  <2>1. PICK m \in [afi : [Tags -> Afis], data : [Tags -> Datas]] : m = mem
    BY DEF Init
  <2>2. m.data \in [Tags -> Contents]
    BY DEF Contents
  <2>3. m = [afi |-> m.afi, data |-> m.data] /\ m.afi \in [Tags -> Afis]
    OBVIOUS
  <2> QED  BY <2>1, <2>2, <2>3 DEF Memory
<1>5. TypeOK
  <2>1. req \in [Handlers -> Request]
    BY <1>2 DEF RequestsOK
  <2>2. fails \in 0 .. FailLimit /\ faults \in 0 .. MaxFaults /\ crashes \in 0 .. MaxCrashes
    BY RfidServerAssumption DEF Init
  <2> QED  BY <1>4, <2>1, <2>2 DEF Init, TypeOK
<1> QED  BY <1>2, <1>3, <1>5 DEF IInv

-----------------------------------------------------------------------------
\* The variables of the server keep their types: in particular a scan never
\* has more rounds than handleScan gives it, and the tags hold nothing but
\* contents that some request wrote, whole or torn.
THEOREM ServerTypeCorrect == Spec => []TypeOK
<1>1. IInv => TypeOK
  BY DEF IInv
<1> QED  BY <1>1, Initial, Inductive, PTL DEF Spec

\* One handler at a time is inside Scan, Secure or Program, and it holds the
\* mutex; a mutex that is held has a handler inside that will release it.
THEOREM OneOwner == Spec => []PortExclusive
<1>1. IInv => PortExclusive
  BY DEF IInv
<1> QED  BY <1>1, Initial, Inductive, PTL DEF Spec

-----------------------------------------------------------------------------
(***************************************************************************)
(* Scans are snapshots.  What a scan has read stays true because tags are  *)
(* written by whoever holds the mutex, and a scan that is not inside its   *)
(* operation has read nothing: a round that failed failed in its inventory.*)
(***************************************************************************)
ScanOK(r, m) ==
  r.kind = "scan" =>
    /\ r.errs = {}
    /\ r.part = "inv" => r.items = {}
    /\ r.at \notin Inside \/ (r.at = "unlock" /\ r.out = "err") => r.part = "inv"
    /\ r.part = "blocks" => r.sec \in {NoVal, m.afi[r.cur]}
    /\ \A x \in r.items : /\ x.security \in {NoVal, m.afi[x.sid]}
                         /\ x.content \in {NoVal, Garbled, m.data[x.sid]}

ScansOK == \A h \in Handlers : ScanOK(req[h], mem)

\* A step of one handler disturbs no scan of another.
LEMMA OthersKeep ==
  ASSUME IInv, ScansOK, NEW h \in Handlers, NEW n, Set(h, n), ScanOK(n, mem'),
         mem' = mem \/ holder = h
  PROVE  ScansOK'
<1>1. \A g \in Handlers : req'[g] = IF g = h THEN n ELSE req[g]
  BY DEF Set, IInv, RequestsOK
<1>2. ASSUME NEW g \in Handlers, g # h PROVE ScanOK(req[g], mem')
  <2>1. CASE mem' = mem
    BY <2>1 DEF ScansOK
  <2>2. CASE holder = h
    <3>1. req[g].at \notin Inside
      BY <1>2, <2>2 DEF IInv, PortExclusive
    <3> QED  BY <3>1 DEF ScansOK, ScanOK
  <2> QED  BY <2>1, <2>2
<1> QED  BY <1>1, <1>2 DEF ScansOK

\* The requests that are no scan, and those that have read nothing.
LEMMA NothingRead ==
  ASSUME NEW r, NEW m, r.kind # "scan" \/ (r.part = "inv" /\ r.items = {} /\ r.errs = {})
  PROVE  ScanOK(r, m)
  BY DEF ScanOK

LEMMA IdleRead == Idle.part = "inv" /\ Idle.items = {} /\ Idle.errs = {}
<1>1. PICK q : q = [kind |-> "scan", ops |-> <<>>]
  OBVIOUS
<1>2. PICK n : n = [kind |-> q.kind, ops |-> q.ops, at |-> "want", i |-> 1,
                    part |-> FirstPart(q.kind), todo |-> {}, cur |-> NoVal, sec |-> NoVal,
                    items |-> {}, errs |-> {}, out |-> "none", try |-> 1,
                    start |-> NoVal, calm |-> plugged]
  OBVIOUS
<1>3. Idle = [n EXCEPT !.at = "idle"]
  BY <1>1, <1>2, Zenon DEF Idle, NewRequest
<1>4. FirstPart("scan") = "inv"
  BY Zenon DEF FirstPart
<1> QED  BY <1>1, <1>2, <1>3, <1>4

LEMMA IdleOut == Idle.out = "none"
<1>1. PICK q : q = [kind |-> "scan", ops |-> <<>>]
  OBVIOUS
<1>2. PICK n : n = [kind |-> q.kind, ops |-> q.ops, at |-> "want", i |-> 1,
                    part |-> FirstPart(q.kind), todo |-> {}, cur |-> NoVal, sec |-> NoVal,
                    items |-> {}, errs |-> {}, out |-> "none", try |-> 1,
                    start |-> NoVal, calm |-> plugged]
  OBVIOUS
<1>3. Idle = [n EXCEPT !.at = "idle"]
  BY <1>1, <1>2, Zenon DEF Idle, NewRequest
<1> QED  BY <1>2, <1>3

LEMMA QuietScans ==
  ASSUME IInv, ScansOK, NEW h \in Handlers,
         Arrive(h) \/ Lock(h) \/ Unlock(h) \/ Resume(h) \/ Call(h)
  PROVE  ScansOK'
<1>1. PICK r \in Request : r = req[h] /\ ScanOK(r, mem)
  BY Current_Request DEF ScansOK
<1>2. mem' = mem
  BY DEF Arrive, Lock, Unlock, Resume, Call
<1>3. CASE Arrive(h)
  <2>1. PICK q \in Requests : Set(h, NewRequest(q))
    BY <1>3 DEF Arrive
  <2>2. PICK n : n = NewRequest(q)
    OBVIOUS
  <2>3. n.kind = q.kind /\ n.part = FirstPart(q.kind) /\ n.items = {} /\ n.errs = {}
    BY <2>2 DEF NewRequest
  <2>4. FirstPart("scan") = "inv"
    BY Zenon DEF FirstPart
  <2>5. ScanOK(n, mem')
    BY <2>3, <2>4, NothingRead
  <2> QED  BY <1>2, <2>1, <2>2, <2>5, OthersKeep
<1>4. ASSUME Set(h, Answered(r)) PROVE ScansOK'
  <2>1. PICK i \in Request : i = Idle
    BY IdleOK DEF RequestOK, IInv, TypeOK
  <2>2. PICK n : n = [i EXCEPT !.kind = r.kind, !.out = r.out, !.calm = r.calm]
    OBVIOUS
  <2>3. n.part = "inv" /\ n.items = {} /\ n.errs = {}
    BY <2>1, <2>2, IdleRead DEF Request
  <2>4. ScanOK(n, mem') /\ Set(h, n)
    BY <1>4, <2>1, <2>2, <2>3, NothingRead DEF Answered
  <2> QED  BY <1>2, <2>4, OthersKeep
<1>5. ASSUME NEW n, Set(h, n), n.kind = r.kind, n.errs = r.errs, n.part = r.part,
             n.items = r.items, n.sec = r.sec, n.cur = r.cur,
             n.at \notin Inside \/ (n.at = "unlock" /\ n.out = "err") =>
               r.at \notin Inside \/ (r.at = "unlock" /\ r.out = "err")
      PROVE  ScansOK'
  <2>1. ScanOK(n, mem')
    BY <1>1, <1>2, <1>5 DEF ScanOK
  <2> QED  BY <1>2, <1>5, <2>1, OthersKeep
<1>6. CASE Lock(h)
  <2>1. PICK n : n = [r EXCEPT !.at = "between", !.start = mem]
    OBVIOUS
  <2>2. Set(h, n)
    BY <1>1, <1>6, <2>1 DEF Lock
  <2>3. /\ n.kind = r.kind /\ n.errs = r.errs /\ n.part = r.part
        /\ n.items = r.items /\ n.sec = r.sec /\ n.cur = r.cur /\ n.at = "between"
    BY <2>1 DEF Request
  <2> QED  BY <1>5, <2>2, <2>3 DEF Inside
<1>7. CASE Call(h)
  <2>1. PICK n : n = [r EXCEPT !.at = "calling"]
    OBVIOUS
  <2>2. Set(h, n)
    BY <1>1, <1>7, <2>1 DEF Call
  <2>3. /\ n.kind = r.kind /\ n.errs = r.errs /\ n.part = r.part
        /\ n.items = r.items /\ n.sec = r.sec /\ n.cur = r.cur /\ n.at = "calling"
    BY <2>1 DEF Request
  <2> QED  BY <1>5, <2>2, <2>3 DEF Inside
<1>8. CASE Unlock(h)
  <2>1. CASE r.kind = "scan" /\ r.out = "err"
    <3>1. PICK n : n = [r EXCEPT !.at = "pause", !.start = NoVal]
      OBVIOUS
    <3>2. Set(h, n) /\ r.at = "unlock"
      BY <1>1, <1>8, <2>1, <3>1 DEF Unlock
    <3>3. /\ n.kind = r.kind /\ n.errs = r.errs /\ n.part = r.part
          /\ n.items = r.items /\ n.sec = r.sec /\ n.cur = r.cur
      BY <3>1 DEF Request
    <3> QED  BY <1>5, <2>1, <3>2, <3>3
  <2>2. CASE ~(r.kind = "scan" /\ r.out = "err")
    <3>1. Set(h, Answered(r))
      BY <1>1, <1>8, <2>2 DEF Unlock
    <3> QED  BY <1>4, <3>1
  <2> QED  BY <2>1, <2>2
<1>9. CASE Resume(h)
  <2>1. CASE MayRetry(r)
    <3>1. PICK n : n = [r EXCEPT !.at = "want", !.try = @ + 1, !.out = "none"]
      OBVIOUS
    <3>2. Set(h, n) /\ r.at = "pause"
      BY <1>1, <1>9, <2>1, <3>1 DEF Resume
    <3>3. /\ n.kind = r.kind /\ n.errs = r.errs /\ n.part = r.part
          /\ n.items = r.items /\ n.sec = r.sec /\ n.cur = r.cur
      BY <3>1 DEF Request
    <3> QED  BY <1>5, <3>2, <3>3 DEF Inside
  <2>2. CASE ~MayRetry(r)
    <3>1. Set(h, Answered(r))
      BY <1>1, <1>9, <2>2 DEF Resume
    <3> QED  BY <1>4, <3>1
  <2> QED  BY <2>1, <2>2
<1> QED  BY <1>3, <1>6, <1>7, <1>8, <1>9

LEMMA InventoryScans ==
  ASSUME IInv, ScansOK, NEW h \in Handlers, InventoryWithReset(h)
  PROVE  ScansOK'
<1>1. PICK r \in Request : r = req[h] /\ ScanOK(r, mem)
  BY Current_Request DEF ScansOK
<1>2. mem' = mem /\ r.part = "inv"
  BY <1>1 DEF InventoryWithReset
<1>3. ASSUME Found(h) PROVE ScansOK'
  <2>1. PICK n : n = [r EXCEPT !.at = "between", !.part = "afi", !.todo = field]
    OBVIOUS
  <2>2. /\ n.kind = r.kind /\ n.errs = r.errs /\ n.items = r.items
        /\ n.part = "afi" /\ n.at = "between"
    BY <2>1 DEF Request
  <2>3. ScanOK(n, mem') /\ Set(h, n)
    BY <1>1, <1>2, <1>3, <2>1, <2>2 DEF ScanOK, Found, Inside
  <2> QED  BY <1>2, <2>3, OthersKeep
<1>4. ASSUME NEW c \in BOOLEAN,
             Set(h, [req[h] EXCEPT !.at = "unlock", !.out = "err", !.calm = c])
      PROVE  ScansOK'
  <2>1. PICK n : n = [r EXCEPT !.at = "unlock", !.out = "err", !.calm = c]
    OBVIOUS
  <2>2. n.kind = r.kind /\ n.errs = r.errs /\ n.items = r.items /\ n.part = r.part
    BY <2>1 DEF Request
  <2>3. ScanOK(n, mem') /\ Set(h, n)
    BY <1>1, <1>2, <1>4, <2>1, <2>2 DEF ScanOK
  <2> QED  BY <1>2, <2>3, OthersKeep
<1>5. Found(h) \/ \E c \in BOOLEAN :
                    Set(h, [req[h] EXCEPT !.at = "unlock", !.out = "err", !.calm = c])
  BY CountFailureEffect DEF InventoryWithReset
<1> QED  BY <1>3, <1>4, <1>5

LEMMA ReadingScans ==
  ASSUME IInv, ScansOK, NEW h \in Handlers, NextTag(h) \/ ScanAfi(h) \/ ScanBlocks(h)
  PROVE  ScansOK'
<1>1. PICK r \in Request : r = req[h] /\ ScanOK(r, mem)
  BY Current_Request DEF ScansOK
<1>2. mem' = mem /\ r.kind = "scan" /\ r.errs = {}
  BY <1>1 DEF NextTag, ScanAfi, ScanBlocks, ScanOK
<1>3. CASE NextTag(h)
  <2>1. PICK t \in r.todo : Set(h, [r EXCEPT !.cur = t, !.todo = @ \ {t}])
    BY <1>1, <1>3 DEF NextTag
  <2>2. r.at = "between" /\ r.part = "afi"
    BY <1>1, <1>3 DEF NextTag
  <2>3. PICK n : n = [r EXCEPT !.cur = t, !.todo = @ \ {t}]
    OBVIOUS
  <2>4. /\ n.kind = r.kind /\ n.errs = r.errs /\ n.items = r.items
        /\ n.part = "afi" /\ n.at = "between"
    BY <2>2, <2>3 DEF Request
  <2>5. ScanOK(n, mem')
    BY <1>1, <1>2, <2>4 DEF ScanOK, Inside
  <2> QED  BY <1>2, <2>1, <2>3, <2>5, OthersKeep
<1>4. CASE ScanAfi(h)
  <2>1. PICK v \in {NoVal} \cup (IF Readable(r.cur) THEN {mem.afi[r.cur]} ELSE {}) :
          Set(h, [r EXCEPT !.at = "between", !.part = "blocks", !.sec = v])
    BY <1>1, <1>4 DEF ScanAfi
  <2>2. r.at = "calling" /\ r.part = "afi" /\ v \in {NoVal, mem.afi[r.cur]}
    BY <1>1, <1>4, <2>1 DEF ScanAfi
  <2>3. PICK n : n = [r EXCEPT !.at = "between", !.part = "blocks", !.sec = v]
    OBVIOUS
  <2>4. /\ n.kind = r.kind /\ n.errs = r.errs /\ n.items = r.items /\ n.cur = r.cur
        /\ n.part = "blocks" /\ n.at = "between" /\ n.sec = v
    BY <2>3 DEF Request
  <2>5. ScanOK(n, mem')
    BY <1>1, <1>2, <2>2, <2>4 DEF ScanOK, Inside
  <2> QED  BY <1>2, <2>1, <2>3, <2>5, OthersKeep
<1>5. CASE ScanBlocks(h)
  <2>1. PICK c \in {NoVal} \cup
                  (IF Readable(r.cur) THEN {mem.data[r.cur], Garbled} ELSE {}) :
          Set(h, [r EXCEPT !.at = "between", !.part = "afi", !.cur = NoVal, !.sec = NoVal,
                    !.items = @ \cup {[sid |-> r.cur, security |-> r.sec, content |-> c]}])
    BY <1>1, <1>5 DEF ScanBlocks
  <2>2. r.sec \in {NoVal, mem.afi[r.cur]} /\ c \in {NoVal, Garbled, mem.data[r.cur]}
    BY <1>1, <1>2, <1>5, <2>1 DEF ScanBlocks, ScanOK
  <2>3. PICK x : x = [sid |-> r.cur, security |-> r.sec, content |-> c]
    OBVIOUS
  <2>4. PICK n : n = [r EXCEPT !.at = "between", !.part = "afi", !.cur = NoVal,
                               !.sec = NoVal, !.items = @ \cup {x}]
    OBVIOUS
  <2>5. /\ n.kind = r.kind /\ n.errs = r.errs /\ n.items = r.items \cup {x}
        /\ n.part = "afi" /\ n.at = "between"
    BY <2>4 DEF Request
  <2>6. /\ x.security \in {NoVal, mem.afi[x.sid]}
        /\ x.content \in {NoVal, Garbled, mem.data[x.sid]}
    BY <2>2, <2>3
  <2>7. ScanOK(n, mem')
    BY <1>1, <1>2, <2>5, <2>6 DEF ScanOK, Inside
  <2> QED  BY <1>2, <2>1, <2>3, <2>4, <2>7, OthersKeep
<1> QED  BY <1>3, <1>4, <1>5

LEMMA WritesAndEnds ==
  ASSUME IInv, ScansOK, NEW h \in Handlers,
         SecureTag(h) \/ ProgramBlocks(h) \/ ProgramAfi(h)
           \/ SecureRefuses(h) \/ ProgramRefuses(h) \/ Finish(h)
  PROVE  ScansOK'
<1>1. PICK r \in Request : r = req[h] /\ ScanOK(r, mem)
  BY Current_Request DEF ScansOK
<1>2. holder = h
  BY DEF SecureTag, ProgramBlocks, ProgramAfi, SecureRefuses, ProgramRefuses, Finish,
         Inside, IInv, PortExclusive
<1>3. CASE Finish(h) /\ r.kind = "scan"
  <2>1. PICK n : n = [r EXCEPT !.at = "unlock", !.out = "ok"]
    OBVIOUS
  <2>2. mem' = mem /\ r.errs = {} /\ r.part = "afi" /\ Set(h, n)
    BY <1>1, <1>3, <2>1 DEF Finish, ScanOK
  <2>3. /\ n.kind = r.kind /\ n.errs = r.errs /\ n.items = r.items /\ n.part = r.part
        /\ n.at = "unlock" /\ n.out = "ok"
    BY <2>1 DEF Request
  <2>4. ScanOK(n, mem')
    BY <1>1, <2>2, <2>3 DEF ScanOK, Inside
  <2> QED  BY <2>2, <2>4, OthersKeep
<1>4. CASE ~(Finish(h) /\ r.kind = "scan")
  <2>1. r.kind # "scan"
    BY <1>1, <1>4 DEF SecureTag, ProgramBlocks, ProgramAfi, SecureRefuses, ProgramRefuses
  <2>2. \E n : Set(h, n) /\ n.kind = r.kind
    BY <1>1, WriteContinues, EndContinues DEF Continues
  <2> QED  BY <1>2, <2>1, <2>2, NothingRead, OthersKeep
<1> QED  BY <1>3, <1>4

LEMMA ScansStep == IInv /\ ScansOK /\ [Next]_vars => ScansOK'
<1> SUFFICES ASSUME IInv, ScansOK, [Next]_vars PROVE ScansOK'
  OBVIOUS
<1>1. ASSUME NEW h \in Handlers, Arrive(h) \/ Lock(h) \/ Step(h) PROVE ScansOK'
  BY <1>1, QuietScans, InventoryScans, ReadingScans, WritesAndEnds DEF Step
<1>2. CASE MoveTags \/ Plug \/ Start \/ UNCHANGED vars
  <2>1. req' = req /\ mem' = mem
    BY <1>2 DEF MoveTags, Plug, Start, vars
  <2> QED  BY <2>1 DEF ScansOK
<1>3. CASE Unplug
  <2>1. ASSUME NEW h \in Handlers PROVE ScanOK(req'[h], mem')
    <3>1. PICK r \in Request : r = req[h] /\ ScanOK(r, mem)
      BY Current_Request DEF ScansOK
    <3>2. PICK n : n = [r EXCEPT !.calm = FALSE]
      OBVIOUS
    <3>3. /\ n.kind = r.kind /\ n.errs = r.errs /\ n.part = r.part /\ n.items = r.items
          /\ n.sec = r.sec /\ n.cur = r.cur /\ n.at = r.at /\ n.out = r.out
      BY <3>2 DEF Request
    <3>4. mem' = mem /\ (req'[h] = r \/ req'[h] = n)
      BY <1>3, <3>1, <3>2 DEF Unplug
    <3>5. ScanOK(n, mem)
      BY <3>1, <3>3 DEF ScanOK
    <3> QED  BY <3>1, <3>4, <3>5
  <2> QED  BY <2>1 DEF ScansOK
<1>4. CASE Crash
  <2>1. \A h \in Handlers : req'[h] = Idle
    BY <1>4 DEF Crash
  <2> QED  BY <2>1, IdleRead, NothingRead DEF ScansOK
<1> QED  BY <1>1, <1>2, <1>3, <1>4 DEF Next

\* A scan answers with what its tags held at one moment: whatever the other
\* requests do, no write falls between the two reads of a tag, nor between the
\* tags, and the answer of a scan tried several times is that of its last round.
THEOREM ScansAreSnapshots == Spec => []ScanIsSnapshot
<1> DEFINE SInv == IInv /\ ScansOK
<1>1. Init => SInv
  <2>1. Init => ScansOK
    BY IdleRead, NothingRead DEF Init, ScansOK
  <2> QED  BY <2>1, Initial
<1>2. SInv /\ [Next]_vars => SInv'
  BY Inductive, ScansStep
<1>3. SInv => ScanIsSnapshot
  BY DEF ScansOK, ScanOK, ScanIsSnapshot, Reporting
<1> QED  BY <1>1, <1>2, <1>3, PTL DEF Spec

-----------------------------------------------------------------------------
(***************************************************************************)
(* Scans heal.  A scan that has seen no trouble of its own found the port  *)
(* dead at each of its failures, and each of them counted: while the port  *)
(* stays dead the shared count is at least the number of its failed rounds,*)
(* whatever other requests add to it, and only a reopened port resets it.  *)
(* So the round in which the count reaches FailLimit comes before the      *)
(* rounds are used up, provided there are as many: handleScan's 3 rounds   *)
(* and the driver's limit of 3 are in step.                                *)
(***************************************************************************)
Healing(r, c, p, f) ==
  r.kind = "scan" /\ r.calm =>
    /\ r.at = "idle" => r.out # "err"
    /\ r.at # "idle" => c
    /\ r.at \in {"want", "between", "calling"} /\ r.part = "inv" /\ p = "down" =>
         r.try - 1 <= f
    /\ r.at = "pause" \/ (r.at = "unlock" /\ r.out = "err") =>
         r.try < FailLimit /\ (p = "down" => r.try <= f)

HealsOK == \A h \in Handlers : Healing(req[h], plugged, port, fails)

\* What a step may do to the link while the reader stays plugged.
LinkKept ==
  /\ plugged' = plugged
  /\ \/ port' = "up" \/ ~plugged
     \/ port' = port /\ (port = "down" => fails' >= fails)

LEMMA HealersKeep ==
  ASSUME IInv, HealsOK, LinkKept, fails' \in 0 .. FailLimit, NEW h \in Handlers, NEW n,
         Set(h, n), Healing(n, plugged', port', fails')
  PROVE  HealsOK'
<1>1. \A g \in Handlers : req'[g] = IF g = h THEN n ELSE req[g]
  BY DEF Set, IInv, RequestsOK
<1>2. ASSUME NEW g \in Handlers, g # h PROVE Healing(req[g], plugged', port', fails')
  <2>1. PICK r \in Request : r = req[g] /\ Healing(r, plugged, port, fails)
    BY Current_Request DEF HealsOK
  <2>2. r.try \in Int /\ fails \in Int /\ fails' \in Int
    BY RfidServerAssumption DEF Request, IInv, TypeOK
  <2> QED  BY <2>1, <2>2 DEF Healing, LinkKept
<1> QED  BY <1>1, <1>2 DEF HealsOK

LEMMA CountFailureHeals ==
  ASSUME IInv, HealsOK, NEW h \in Handlers, NEW own \in BOOLEAN, own => faults < MaxFaults,
         own => port = "up", ~own => port = "down",
         req[h].at = "calling", req[h].part = "inv", plugged' = plugged, CountFailure(h, own)
  PROVE  LinkKept /\ \E n : Set(h, n) /\ Healing(n, plugged', port', fails')
<1> DEFINE c    == IF fails = FailLimit THEN fails ELSE fails + 1
           used == IF own THEN faults + 1 ELSE faults
           failed == [req[h] EXCEPT !.at = "unlock", !.out = "err", !.calm = @ /\ ~own]
<1>1. PICK r \in Request : r = req[h] /\ Healing(r, plugged, port, fails)
  BY Current_Request DEF HealsOK
<1>2. /\ FailLimit \in Nat /\ fails \in 0 .. FailLimit /\ r.try \in Nat
      /\ c \in 0 .. FailLimit /\ c >= fails /\ (c < FailLimit => c = fails + 1)
  BY RfidServerAssumption DEF IInv, TypeOK, Request
<1>3. /\ failed.kind = r.kind /\ failed.try = r.try /\ failed.at = "unlock"
      /\ failed.out = "err" /\ failed.part = "inv" /\ failed.calm = (r.calm /\ ~own)
  BY <1>1 DEF Request
<1>4. [failed EXCEPT !.calm = FALSE].calm = FALSE
  BY <1>1 DEF Request
<1>5. r.kind = "scan" /\ r.calm /\ port = "down" => plugged /\ r.try - 1 <= fails
  BY <1>1 DEF Healing
<1>6. \/ /\ c < FailLimit /\ fails' = c /\ Set(h, failed) /\ port' = port
      \/ /\ ~plugged /\ fails' = c /\ Set(h, failed)
      \/ /\ port' = "up"
         /\ Found(h) \/ Set(h, [failed EXCEPT !.calm = FALSE])
  <2> HIDE DEF used, failed, c
  <2>1. \/ /\ c < FailLimit /\ fails' = c /\ faults' = used /\ Set(h, failed)
           /\ UNCHANGED port
        \/ /\ ~plugged /\ fails' = c /\ faults' = used /\ Set(h, failed)
        \/ /\ fails' = 0 /\ port' = "up"
           /\ \/ Found(h) /\ faults' = used
              \/ /\ used < MaxFaults /\ faults' = used + 1
                 /\ Set(h, [failed EXCEPT !.calm = FALSE])
    BY DEF CountFailure, c, used, failed
  <2> QED  BY <2>1
<1> HIDE DEF c, used, failed
<1>7. CASE c < FailLimit /\ fails' = c /\ Set(h, failed) /\ port' = port
  <2>1. Healing(failed, plugged', port', fails')
    <3>1. CASE own
      BY <1>3, <3>1 DEF Healing
    <3>2. CASE ~own
      <4>1. failed.calm = r.calm
        BY <1>1, <1>3, <3>2 DEF Request
      <4>2. r.kind = "scan" /\ r.calm => plugged /\ r.try < FailLimit /\ r.try <= fails'
        BY <1>2, <1>5, <1>7, <3>2
      <4> QED  BY <1>3, <4>1, <4>2 DEF Healing
    <3> QED  BY <3>1, <3>2
  <2>2. LinkKept
    BY <1>2, <1>7 DEF LinkKept
  <2> QED  BY <1>7, <2>1, <2>2
<1>8. CASE ~plugged /\ fails' = c /\ Set(h, failed)
  <2>1. ~(failed.kind = "scan" /\ failed.calm)
    BY <1>1, <1>3, <1>8 DEF Healing
  <2> QED  BY <1>8, <2>1 DEF Healing, LinkKept
<1>9. CASE port' = "up" /\ Set(h, [failed EXCEPT !.calm = FALSE])
  BY <1>4, <1>9 DEF Healing, LinkKept
<1>10. CASE port' = "up" /\ Found(h)
  <2>1. PICK n : n = [r EXCEPT !.at = "between", !.part = "afi", !.todo = field]
    OBVIOUS
  <2>2. n.kind = r.kind /\ n.calm = r.calm /\ n.at = "between" /\ n.part = "afi"
    BY <2>1 DEF Request
  <2>3. Healing(n, plugged', port', fails') /\ Set(h, n)
    BY <1>1, <1>10, <2>1, <2>2 DEF Healing, Found
  <2> QED  BY <1>10, <2>3 DEF LinkKept
<1> QED  BY <1>6, <1>7, <1>8, <1>9, <1>10

LEMMA InventoryHeals ==
  ASSUME IInv, HealsOK, NEW h \in Handlers, InventoryWithReset(h)
  PROVE  HealsOK'
<1>1. PICK r \in Request : r = req[h] /\ Healing(r, plugged, port, fails)
  BY Current_Request DEF HealsOK
<1>2. r.at = "calling" /\ r.part = "inv" /\ plugged' = plugged
  BY <1>1 DEF InventoryWithReset
<1>3. fails' \in 0 .. FailLimit
  BY InventoryStep DEF IInv, TypeOK
<1>4. LinkKept /\ \E n : Set(h, n) /\ Healing(n, plugged', port', fails')
  <2>1. CASE port = "up" /\ Found(h) /\ fails' = 0 /\ UNCHANGED <<port, faults>>
    <3>1. PICK n : n = [r EXCEPT !.at = "between", !.part = "afi", !.todo = field]
      OBVIOUS
    <3>2. n.kind = r.kind /\ n.calm = r.calm /\ n.at = "between" /\ n.part = "afi"
      BY <3>1 DEF Request
    <3>3. Healing(n, plugged', port', fails') /\ Set(h, n)
      BY <1>1, <1>2, <2>1, <3>1, <3>2 DEF Healing, Found
    <3> QED  BY <1>2, <2>1, <3>3 DEF LinkKept
  <2>2. CASE port = "up" /\ faults < MaxFaults /\ CountFailure(h, TRUE)
    BY <1>1, <1>2, <2>2, CountFailureHeals
  <2>3. CASE port = "down" /\ CountFailure(h, FALSE)
    BY <1>1, <1>2, <2>3, CountFailureHeals
  <2> QED  BY <2>1, <2>2, <2>3 DEF InventoryWithReset
<1> QED  BY <1>3, <1>4, HealersKeep

\* The other steps of a handler leave the link as it is.
LEMMA QuietHeals ==
  ASSUME IInv, ScansOK, HealsOK, NEW h \in Handlers, UNCHANGED link, NEW n, Set(h, n),
         Healing(n, plugged, port, fails)
  PROVE  HealsOK'
<1>1. plugged' = plugged /\ port' = port /\ fails' = fails
  BY DEF link
<1>2. LinkKept /\ fails' \in 0 .. FailLimit
  BY <1>1, RfidServerAssumption DEF LinkKept, IInv, TypeOK
<1> QED  BY <1>1, <1>2, HealersKeep

LEMMA HealsStep ==
  ASSUME FailLimit <= ScanTries, IInv, ScansOK, HealsOK, NEW h \in Handlers,
         Arrive(h) \/ Lock(h) \/ Step(h)
  PROVE  HealsOK'
<1>1. PICK r \in Request : /\ r = req[h] /\ Healing(r, plugged, port, fails)
                           /\ ScanOK(r, mem)
  BY Current_Request DEF HealsOK, ScansOK
<1>2. /\ fails \in Nat /\ r.try \in 1 .. ScanTries
      /\ FailLimit \in Nat /\ ScanTries \in Nat
  BY RfidServerAssumption DEF Request, IInv, TypeOK
<1>3. ASSUME Set(h, Answered(r)), UNCHANGED link, ~(r.kind = "scan" /\ r.calm /\ r.out = "err")
      PROVE  HealsOK'
  <2>1. PICK i \in Request : i = Idle /\ i.at = "idle"
    BY IdleOK DEF RequestOK, IInv, TypeOK
  <2>2. PICK n : n = [i EXCEPT !.kind = r.kind, !.out = r.out, !.calm = r.calm]
    OBVIOUS
  <2>3. n.kind = r.kind /\ n.out = r.out /\ n.calm = r.calm /\ n.at = "idle"
    BY <2>1, <2>2 DEF Request
  <2>4. Healing(n, plugged, port, fails) /\ Set(h, n)
    BY <1>3, <2>1, <2>2, <2>3 DEF Healing, Answered
  <2> QED  BY <1>3, <2>4, QuietHeals
<1>4. CASE Arrive(h)
  <2>1. PICK q \in Requests : Set(h, NewRequest(q))
    BY <1>4 DEF Arrive
  <2>2. PICK n : n = NewRequest(q)
    OBVIOUS
  <2>3. n.calm = plugged /\ n.at = "want" /\ n.try = 1
    BY <2>2 DEF NewRequest
  <2>4. Healing(n, plugged, port, fails)
    BY <1>2, <2>3 DEF Healing
  <2> QED  BY <1>4, <2>1, <2>2, <2>4, QuietHeals DEF Arrive
<1>5. CASE Lock(h)
  <2>1. PICK n : n = [r EXCEPT !.at = "between", !.start = mem]
    OBVIOUS
  <2>2. /\ n.kind = r.kind /\ n.calm = r.calm /\ n.at = "between" /\ n.part = r.part
        /\ n.try = r.try /\ r.at = "want" /\ Set(h, n)
    BY <1>1, <1>5, <2>1 DEF Request, Lock
  <2>3. Healing(n, plugged, port, fails)
    BY <1>1, <2>2 DEF Healing
  <2> QED  BY <1>5, <2>2, <2>3, QuietHeals DEF Lock
<1>6. CASE Unlock(h)
  <2>1. CASE r.kind = "scan" /\ r.out = "err"
    <3>1. PICK n : n = [r EXCEPT !.at = "pause", !.start = NoVal]
      OBVIOUS
    <3>2. /\ n.kind = r.kind /\ n.calm = r.calm /\ n.at = "pause" /\ n.try = r.try
          /\ r.at = "unlock" /\ Set(h, n)
      BY <1>1, <1>6, <2>1, <3>1 DEF Request, Unlock
    <3>3. Healing(n, plugged, port, fails)
      BY <1>1, <2>1, <3>2 DEF Healing
    <3> QED  BY <1>6, <3>2, <3>3, QuietHeals DEF Unlock
  <2>2. CASE ~(r.kind = "scan" /\ r.out = "err")
    BY <1>1, <1>3, <1>6, <2>2 DEF Unlock
  <2> QED  BY <2>1, <2>2
<1>7. CASE Resume(h)
  <2>1. CASE MayRetry(r)
    <3>1. PICK n : n = [r EXCEPT !.at = "want", !.try = @ + 1, !.out = "none"]
      OBVIOUS
    <3>2. /\ n.kind = r.kind /\ n.calm = r.calm /\ n.at = "want" /\ n.try = r.try + 1
          /\ r.at = "pause" /\ Set(h, n)
      BY <1>1, <1>7, <2>1, <3>1 DEF Request, Resume
    <3>3. Healing(n, plugged, port, fails)
      BY <1>1, <1>2, <3>2 DEF Healing
    <3> QED  BY <1>7, <3>2, <3>3, QuietHeals DEF Resume
  <2>2. CASE ~MayRetry(r)
    <3>1. r.at = "pause" /\ Set(h, Answered(r)) /\ UNCHANGED link
      BY <1>1, <1>7, <2>2 DEF Resume
    <3>2. ~(r.kind = "scan" /\ r.calm)
      BY <1>1, <1>2, <2>2, <3>1 DEF Healing, MayRetry
    <3> QED  BY <1>3, <3>1, <3>2
  <2> QED  BY <2>1, <2>2
<1>8. CASE Call(h)
  <2>1. PICK n : n = [r EXCEPT !.at = "calling"]
    OBVIOUS
  <2>2. /\ n.kind = r.kind /\ n.calm = r.calm /\ n.at = "calling" /\ n.part = r.part
        /\ n.try = r.try /\ r.at = "between" /\ Set(h, n)
    BY <1>1, <1>8, <2>1 DEF Request, Call
  <2>3. Healing(n, plugged, port, fails)
    BY <1>1, <2>2 DEF Healing
  <2> QED  BY <1>8, <2>2, <2>3, QuietHeals DEF Call
<1>9. CASE InventoryWithReset(h)
  BY <1>9, InventoryHeals
\* The reads of a scan, after its inventory.
<1>10. ASSUME UNCHANGED link, r.at \in Inside,
              NEW n, Set(h, n), n.kind = r.kind, n.calm = r.calm, n.part # "inv",
              n.at = "between" \/ (n.at = "unlock" /\ n.out = "ok")
       PROVE  HealsOK'
  <2>1. Healing(n, plugged, port, fails)
    BY <1>1, <1>10 DEF Healing, Inside
  <2> QED  BY <1>10, <2>1, QuietHeals
<1>11. CASE NextTag(h)
  <2>1. PICK t : Set(h, [r EXCEPT !.cur = t, !.todo = @ \ {t}])
    BY <1>1, <1>11 DEF NextTag
  <2>2. PICK n : n = [r EXCEPT !.cur = t, !.todo = @ \ {t}]
    OBVIOUS
  <2>3. /\ n.kind = r.kind /\ n.calm = r.calm /\ n.at = "between" /\ n.part = "afi"
        /\ r.at = "between"
    BY <1>1, <1>11, <2>2 DEF Request, NextTag
  <2> QED  BY <1>10, <1>11, <2>1, <2>2, <2>3 DEF NextTag, Inside
<1>12. CASE ScanAfi(h)
  <2>1. PICK v : Set(h, [r EXCEPT !.at = "between", !.part = "blocks", !.sec = v])
    BY <1>1, <1>12 DEF ScanAfi
  <2>2. PICK n : n = [r EXCEPT !.at = "between", !.part = "blocks", !.sec = v]
    OBVIOUS
  <2>3. /\ n.kind = r.kind /\ n.calm = r.calm /\ n.at = "between" /\ n.part = "blocks"
        /\ r.at = "calling"
    BY <1>1, <1>12, <2>2 DEF Request, ScanAfi
  <2> QED  BY <1>10, <1>12, <2>1, <2>2, <2>3 DEF ScanAfi, Inside
<1>13. CASE ScanBlocks(h)
  <2>1. PICK x : Set(h, [r EXCEPT !.at = "between", !.part = "afi", !.cur = NoVal,
                                  !.sec = NoVal, !.items = @ \cup {x}])
    BY <1>1, <1>13 DEF ScanBlocks
  <2>2. PICK n : n = [r EXCEPT !.at = "between", !.part = "afi", !.cur = NoVal,
                               !.sec = NoVal, !.items = @ \cup {x}]
    OBVIOUS
  <2>3. /\ n.kind = r.kind /\ n.calm = r.calm /\ n.at = "between" /\ n.part = "afi"
        /\ r.at = "calling"
    BY <1>1, <1>13, <2>2 DEF Request, ScanBlocks
  <2> QED  BY <1>10, <1>13, <2>1, <2>2, <2>3 DEF ScanBlocks, Inside
<1>14. CASE Finish(h) /\ r.kind = "scan"
  <2>1. PICK n : n = [r EXCEPT !.at = "unlock", !.out = "ok"]
    OBVIOUS
  <2>2. Set(h, n) /\ r.part = "afi" /\ r.at = "between"
    BY <1>1, <1>14, <2>1 DEF Finish, ScanOK
  <2>3. n.kind = r.kind /\ n.calm = r.calm /\ n.at = "unlock" /\ n.out = "ok" /\ n.part = r.part
    BY <2>1 DEF Request
  <2> QED  BY <1>10, <1>14, <2>2, <2>3 DEF Finish, Inside
<1>15. CASE \/ SecureTag(h) \/ SecureRefuses(h) \/ ProgramRefuses(h)
            \/ ProgramBlocks(h) \/ ProgramAfi(h) \/ (Finish(h) /\ r.kind # "scan")
  <2>1. r.kind # "scan" /\ UNCHANGED link
    BY <1>1, <1>15 DEF SecureTag, SecureRefuses, ProgramRefuses, ProgramBlocks, ProgramAfi,
                       Finish
  <2>2. PICK n : Set(h, n) /\ n.kind = r.kind
    BY <1>1, <1>15, WriteContinues, EndContinues DEF Continues
  <2>3. Healing(n, plugged, port, fails)
    BY <2>1, <2>2 DEF Healing
  <2> QED  BY <2>1, <2>2, <2>3, QuietHeals
<1> QED  BY <1>4, <1>5, <1>6, <1>7, <1>8, <1>9, <1>11, <1>12, <1>13, <1>14, <1>15 DEF Step

LEMMA HealsNext ==
  ASSUME FailLimit <= ScanTries
  PROVE  IInv /\ ScansOK /\ HealsOK /\ [Next]_vars => HealsOK'
<1> SUFFICES ASSUME IInv, ScansOK, HealsOK, [Next]_vars PROVE HealsOK'
  OBVIOUS
<1>1. ASSUME NEW h \in Handlers, Arrive(h) \/ Lock(h) \/ Step(h) PROVE HealsOK'
  BY <1>1, HealsStep
<1>2. CASE MoveTags \/ UNCHANGED vars
  BY <1>2 DEF MoveTags, vars, link, HealsOK
<1>3. CASE Plug
  <2>1. req' = req /\ plugged' = TRUE /\ port' = port /\ fails' = fails
    BY <1>3 DEF Plug
  <2> QED  BY <2>1 DEF HealsOK, Healing
<1>6. CASE Start
  <2>1. req' = req /\ plugged' = plugged /\ port' = "up"
    BY <1>6 DEF Start
  <2> QED  BY <2>1 DEF HealsOK, Healing
<1>4. CASE Unplug
  <2>1. ASSUME NEW h \in Handlers PROVE Healing(req'[h], plugged', port', fails')
    <3>1. PICK r \in Request : r = req[h] /\ Healing(r, plugged, port, fails)
      BY Current_Request DEF HealsOK
    <3>2. [r EXCEPT !.calm = FALSE].calm = FALSE
      BY DEF Request
    <3>3. (r.at = "idle" /\ req'[h] = r) \/ req'[h] = [r EXCEPT !.calm = FALSE]
      BY <1>4, <3>1 DEF Unplug
    <3> QED  BY <3>1, <3>2, <3>3 DEF Healing
  <2> QED  BY <2>1 DEF HealsOK
<1>5. CASE Crash
  <2>1. ASSUME NEW h \in Handlers PROVE req'[h] = Idle /\ Idle.at = "idle" /\ Idle.out = "none"
    <3>1. Idle.at = "idle"
      BY IdleOK DEF IInv, TypeOK
    <3> QED  BY <1>5, <3>1, IdleOut DEF Crash
  <2> QED  BY <2>1 DEF HealsOK, Healing
<1> QED  BY <1>1, <1>2, <1>3, <1>4, <1>5, <1>6 DEF Next

\* A scan during which the reader stays plugged and answers is never told 504,
\* even on a port that died before it and with other requests using the shared
\* failure count: handleScan has as many rounds as the driver needs failures.
THEOREM ScansHeal ==
  ASSUME FailLimit <= ScanTries
  PROVE  Spec => []ScanHeals
<1> DEFINE HInv == IInv /\ ScansOK /\ HealsOK
<1>1. Init => HInv
  <2>1. Init => ScansOK
    BY IdleRead, NothingRead DEF Init, ScansOK
  <2>2. Init => HealsOK
    BY IdleOK, IdleOut DEF Init, HealsOK, Healing
  <2> QED  BY <2>1, <2>2, Initial
<1>2. HInv /\ [Next]_vars => HInv'
  BY Inductive, ScansStep, HealsNext
<1>3. HInv => ScanHeals
  BY DEF HealsOK, Healing, ScanHeals
<1> QED  BY <1>1, <1>2, <1>3, PTL DEF Spec
=============================================================================
