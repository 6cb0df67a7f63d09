-------------------------- MODULE MockReaderProofs --------------------------
(***************************************************************************)
(* Proofs about the mock reader, for any number of requests at a time, any *)
(* tags a test may post and any number of failures it may inject.          *)
(***************************************************************************)
EXTENDS MockReader, NaturalsInduction, WellFoundedInduction, TLAPS

-----------------------------------------------------------------------------
(***************************************************************************)
(* The places of a number in the list of tags.                             *)
(***************************************************************************)
\* A set of naturals has a least element: what the CHOOSE of First relies on.
LEMMA LeastExists ==
  ASSUME NEW S \in SUBSET Nat, S # {}
  PROVE  \E i \in S : \A j \in S : i <= j
<1>1. PICK i \in S : \A j \in S : <<j, i>> \notin OpToRel(<, Nat)
  BY NatLessThanWellFounded, WFMin
<1>2. \A j \in S : ~(j < i)
  BY <1>1 DEF OpToRel
<1> QED  BY <1>2

LEMMA FirstMatches ==
  ASSUME tags \in Seq(MockTag), NEW s, Matching(s) # {}
  PROVE  /\ First(s) \in DOMAIN tags /\ First(s) \in 1 .. Len(tags)
         /\ tags[First(s)].sid = s
         /\ \A j \in Matching(s) : First(s) <= j
<1>1. Matching(s) \in SUBSET Nat
  BY DEF Matching
<1>2. \E i \in Matching(s) : \A j \in Matching(s) : i <= j
  BY <1>1, LeastExists
<1>3. First(s) \in Matching(s) /\ \A j \in Matching(s) : First(s) <= j
  BY <1>2 DEF First
<1> QED  BY <1>3 DEF Matching

-----------------------------------------------------------------------------
(***************************************************************************)
(* Types.  A scan that has read the AFI byte of a tag still has that tag   *)
(* at the head of its list, and knows its security.                        *)
(***************************************************************************)
Reading(r) == r.at = "blocks" => r.todo # <<>> /\ r.sec \in Afis

TypeInv == TypeOK /\ \A h \in Handlers : Reading(req[h])

LEMMA IdleType == Idle \in Request /\ Reading(Idle)
  BY MockReaderAssumption DEF Idle, Request, Reading, Op, NoOp

LEMMA GotoType ==
  ASSUME TypeInv, NEW h \in Handlers, NEW r \in Request, Reading(r), Goto(h, r)
  PROVE  req' \in [Handlers -> Request] /\ \A k \in Handlers : Reading(req'[k])
  BY DEF TypeInv, TypeOK, Goto

LEMMA UpsertedType ==
  ASSUME tags \in Seq(MockTag), NEW t \in MockTag
  PROVE  Upserted(t) \in Seq(MockTag)
<1>1. CASE Matching(t.sid) = {}
  BY <1>1 DEF Upserted
<1>2. CASE Matching(t.sid) # {}
  BY <1>2, FirstMatches DEF Upserted
<1> QED  BY <1>1, <1>2

LEMMA RemovedType ==
  ASSUME tags \in Seq(MockTag), NEW s, PostRemove(s)
  PROVE  tags' \in Seq(MockTag)
<1>1. First(s) \in 1 .. Len(tags)
  BY FirstMatches DEF PostRemove
<1>2. Len(tags) - 1 \in Nat
  BY <1>1
<1>3. \A i \in 1 .. Len(tags) - 1 : i \in DOMAIN tags /\ i + 1 \in DOMAIN tags
  BY <1>2
<1>4. tags' \in [1 .. Len(tags) - 1 -> MockTag]
  BY <1>3 DEF PostRemove
<1> QED  BY <1>2, <1>4

LEMMA TestStepType ==
  ASSUME TypeInv, TestStep
  PROVE  /\ tags' \in Seq(MockTag) /\ errorCount' \in Nat /\ timeoutCount' \in Nat
         /\ controls' \in 0 .. MaxControls
         /\ req' = req
<1>t. TypeOK
  BY DEF TypeInv
<1>1. /\ req' = req /\ controls' \in 0 .. MaxControls
  BY <1>t, MockReaderAssumption DEF TestStep, Control, TypeOK
<1>2. CASE \E t \in Posts : PostTag(t)
  BY <1>t, <1>1, <1>2, UpsertedType, MockReaderAssumption DEF PostTag, counts, TypeOK
<1>3. CASE \E l \in Inventories : PostSet(l)
  BY <1>t, <1>1, <1>3, MockReaderAssumption DEF PostSet, counts, TypeOK
<1>4. CASE \E s \in Sids : PostRemove(s)
  <2>1. tags' \in Seq(MockTag)
    BY <1>t, <1>4, RemovedType DEF TypeOK
  <2> QED  BY <1>t, <1>1, <1>4, <2>1 DEF PostRemove, counts, TypeOK
<1>5. CASE PostClear
  BY <1>t, <1>1, <1>5 DEF PostClear, TypeOK
<1>6. CASE \E n \in Counts : PostError(n) \/ PostTimeout(n)
  BY <1>t, <1>1, <1>6, MockReaderAssumption DEF PostError, PostTimeout, TypeOK
<1> QED  BY <1>2, <1>3, <1>4, <1>5, <1>6 DEF TestStep

LEMMA AfiByteType ==
  ASSUME NEW a \in Afis \cup {Empty, Malformed}
  PROVE  AfiByte(a) \in Afis
  BY DEF AfiByte, Afis

LEMMA InventoryType ==
  ASSUME TypeInv, NEW h \in Handlers, Inventory(h)
  PROVE  /\ errorCount' \in Nat /\ timeoutCount' \in Nat
         /\ req' \in [Handlers -> Request] /\ \A k \in Handlers : Reading(req'[k])
<1>t. TypeOK /\ req[h] \in Request
  BY DEF TypeInv, TypeOK
<1>1. errorCount' \in Nat /\ timeoutCount' \in Nat
  BY <1>t DEF Inventory, OneErrorLess, counts, TypeOK
<1>2. CASE Goto(h, Idle)
  BY <1>1, <1>2, IdleType, GotoType
<1>3. CASE MayRetry(req[h]) /\ Goto(h, [req[h] EXCEPT !.try = @ + 1])
  <2>1. PICK r : r = [req[h] EXCEPT !.try = @ + 1]
    OBVIOUS
  <2>2. req[h].try + 1 \in 1 .. ScanTries
    BY <1>t, <1>3, MockReaderAssumption DEF MayRetry, Request
  <2>3. r \in Request /\ r.at = "inventory"
    BY <1>t, <2>1, <2>2 DEF Inventory, Request
  <2> QED  BY <1>1, <1>3, <2>1, <2>3, GotoType DEF Reading
<1>4. CASE Goto(h, [req[h] EXCEPT !.at = "afi", !.todo = [i \in DOMAIN tags |-> tags[i].sid]])
  <2>1. PICK l : l = [i \in DOMAIN tags |-> tags[i].sid]
    OBVIOUS
  <2>2. l \in Seq(Sids)
    <3>1. \A i \in 1 .. Len(tags) : tags[i].sid \in Sids
      <4>1. \A i \in 1 .. Len(tags) : tags[i] \in MockTag
        BY <1>t DEF TypeOK
      <4> QED  BY <4>1 DEF MockTag
    <3>2. l \in [1 .. Len(tags) -> Sids] /\ Len(tags) \in Nat
      BY <1>t, <2>1, <3>1 DEF TypeOK
    <3> QED  BY <3>2
  <2>3. PICK r : r = [req[h] EXCEPT !.at = "afi", !.todo = l]
    OBVIOUS
  <2>4. r \in Request /\ r.at = "afi"
    BY <1>t, <2>2, <2>3 DEF Request
  <2> QED  BY <1>1, <1>4, <2>1, <2>3, <2>4, GotoType DEF Reading
<1> QED  BY <1>2, <1>3, <1>4 DEF Inventory

LEMMA LookupType ==
  ASSUME TypeInv, NEW r \in Request, Lookup(r) # {}
  PROVE  (CHOOSE i \in Lookup(r) : TRUE) \in DOMAIN tags
         /\ tags[CHOOSE i \in Lookup(r) : TRUE].sid = Head(r.todo)
         /\ tags[CHOOSE i \in Lookup(r) : TRUE] \in MockTag
<1>1. Matching(Head(r.todo)) # {} /\ Lookup(r) = {First(Head(r.todo))}
  BY DEF Lookup
<1>2. (CHOOSE i \in Lookup(r) : TRUE) = First(Head(r.todo))
  BY <1>1
<1> QED  BY <1>1, <1>2, FirstMatches DEF TypeInv, TypeOK

\* What the two readings of a scan find, for the tag at the head of its list.
SecRead(r) ==
  IF Lookup(r) = {} THEN Unsecure ELSE AfiByte(tags[CHOOSE i \in Lookup(r) : TRUE].security)
ContentRead(r) ==
  IF Lookup(r) = {} THEN Empty ELSE tags[CHOOSE i \in Lookup(r) : TRUE].content

LEMMA ReadTypes ==
  ASSUME TypeInv, NEW r \in Request
  PROVE  SecRead(r) \in Afis /\ ContentRead(r) \in Contents
<1>1. CASE Lookup(r) = {}
  BY <1>1, MockReaderAssumption DEF SecRead, ContentRead, Afis
<1>2. CASE Lookup(r) # {}
  <2>1. PICK t : t = tags[CHOOSE i \in Lookup(r) : TRUE]
    OBVIOUS
  <2>2. t \in MockTag
    BY <1>2, <2>1, LookupType
  <2> QED  BY <1>2, <2>1, <2>2, AfiByteType DEF SecRead, ContentRead, MockTag
<1> QED  BY <1>1, <1>2

LEMMA ReadAfiType ==
  ASSUME TypeInv, NEW h \in Handlers, ReadAfi(h)
  PROVE  /\ req' \in [Handlers -> Request] /\ \A k \in Handlers : Reading(req'[k])
         /\ req'[h] = [req[h] EXCEPT !.at = "blocks", !.sec = SecRead(req[h])]
         /\ \A k \in Handlers : k # h => req'[k] = req[k]
<1>1. req[h] \in Request /\ req[h].todo # <<>>
  BY DEF TypeInv, TypeOK, ReadAfi
<1>2. PICK r : r = [req[h] EXCEPT !.at = "blocks", !.sec = SecRead(req[h])]
  OBVIOUS
<1>3. r \in Request /\ r.at = "blocks" /\ r.todo = req[h].todo /\ r.sec = SecRead(req[h])
  BY <1>1, <1>2, ReadTypes DEF Request
<1>4. Goto(h, r)
  BY <1>2 DEF ReadAfi, SecRead
<1> QED  BY <1>1, <1>2, <1>3, <1>4, ReadTypes, GotoType DEF Reading, Goto, TypeInv, TypeOK

\* The item a scan adds when it has read the blocks.
ItemRead(r) == [sid |-> Head(r.todo), security |-> r.sec, content |-> ContentRead(r)]

LEMMA ReadBlocksType ==
  ASSUME TypeInv, NEW h \in Handlers, ReadBlocks(h)
  PROVE  /\ req' \in [Handlers -> Request] /\ \A k \in Handlers : Reading(req'[k])
         /\ req'[h].at = "afi" /\ req'[h].items = req[h].items \cup {ItemRead(req[h])}
         /\ req'[h].try = req[h].try
         /\ \A k \in Handlers : k # h => req'[k] = req[k]
<1>1. req[h] \in Request /\ req[h].todo # <<>> /\ req[h].sec \in Afis
  BY DEF TypeInv, TypeOK, ReadBlocks, Reading
<1>2. PICK s : s = req[h].todo
  OBVIOUS
<1>3. s \in Seq(Sids) /\ s # <<>>
  BY <1>1, <1>2 DEF Request
<1>4. Head(s) \in Sids /\ Tail(s) \in Seq(Sids)
  BY <1>3
<1>5. PICK x : x = ItemRead(req[h])
  OBVIOUS
<1>6. x \in Item
  BY <1>1, <1>2, <1>4, <1>5, ReadTypes DEF ItemRead, Item
<1>7. PICK r : r = [req[h] EXCEPT !.at = "afi", !.todo = Tail(@), !.items = @ \cup {x}]
  OBVIOUS
<1>8. /\ r \in Request /\ r.at = "afi" /\ r.items = req[h].items \cup {x}
      /\ r.try = req[h].try
  BY <1>1, <1>2, <1>4, <1>6, <1>7 DEF Request
<1>9. Goto(h, r)
  BY <1>5, <1>7 DEF ReadBlocks, ItemRead, ContentRead
<1> QED  BY <1>5, <1>8, <1>9, GotoType DEF Reading, Goto, TypeInv, TypeOK

LEMMA WriteAfiType ==
  ASSUME TypeInv, NEW h \in Handlers, WriteAfi(h)
  PROVE  tags' \in Seq(MockTag) /\ Goto(h, Idle)
         /\ DOMAIN tags' = DOMAIN tags /\ \A i \in DOMAIN tags : tags'[i].sid = tags[i].sid
<1>1. req[h].op \in Op \cup {NoOp} /\ tags \in Seq(MockTag)
  BY DEF TypeInv, TypeOK, Request
<1>2. PICK o : o = req[h].op
  OBVIOUS
<1>3. o.afi \in Afis \cup {Empty, Malformed}
  BY <1>1, <1>2 DEF Op, NoOp
<1>4. \A i \in DOMAIN tags : [tags[i] EXCEPT !.security = o.afi] \in MockTag
                             /\ [tags[i] EXCEPT !.security = o.afi].sid = tags[i].sid
  <2> TAKE i \in DOMAIN tags
  <2>1. tags[i] \in MockTag
    BY <1>1
  <2> QED  BY <1>3, <2>1 DEF MockTag
<1>5. tags' = [i \in DOMAIN tags |-> IF i \in Matching(o.sid)
                                     THEN [tags[i] EXCEPT !.security = o.afi] ELSE tags[i]]
  BY <1>2 DEF WriteAfi
<1>6. \A i \in DOMAIN tags : tags'[i] \in MockTag /\ tags'[i].sid = tags[i].sid
  BY <1>1, <1>4, <1>5
<1>7. tags' \in [1 .. Len(tags) -> MockTag] /\ Len(tags) \in Nat
  BY <1>1, <1>5, <1>6
<1> QED  BY <1>5, <1>6, <1>7 DEF WriteAfi

LEMMA RequestsType ==
  ASSUME TypeInv, NEW h \in Handlers, ScanRequest(h) \/ WriteRequest(h)
  PROVE  req' \in [Handlers -> Request] /\ \A k \in Handlers : Reading(req'[k])
<1>1. CASE ScanRequest(h)
  <2>1. PICK r : r = [Idle EXCEPT !.at = "inventory"]
    OBVIOUS
  <2>2. r \in Request /\ r.at = "inventory"
    BY <2>1, IdleType DEF Request
  <2> QED  BY <1>1, <2>1, <2>2, GotoType DEF ScanRequest, Reading
<1>2. CASE WriteRequest(h)
  <2>1. PICK o \in Ops : Goto(h, [Idle EXCEPT !.at = "write", !.op = o])
    BY <1>2 DEF WriteRequest
  <2>2. PICK r : r = [Idle EXCEPT !.at = "write", !.op = o]
    OBVIOUS
  <2>3. r \in Request /\ r.at = "write"
    BY <2>2, IdleType, MockReaderAssumption DEF Request
  <2> QED  BY <2>1, <2>2, <2>3, GotoType DEF Reading
<1> QED  BY <1>1, <1>2

LEMMA NotedType ==
  ASSUME TypeInv, tags' \in Seq(MockTag), Noted
  PROVE  was' \in [Handlers -> SUBSET Seq(MockTag)]
  BY DEF TypeInv, TypeOK, Noted

LEMMA TypeStep == TypeInv /\ [Next]_vars => TypeInv'
<1> SUFFICES ASSUME TypeInv, [Next]_vars PROVE TypeInv'
  OBVIOUS
<1>t. TypeOK
  BY DEF TypeInv
<1>1. CASE UNCHANGED vars
  BY <1>1 DEF TypeInv, TypeOK, Reading, vars, counts
<1>2. CASE TestStep /\ Noted
  BY <1>2, TestStepType, NotedType DEF TypeInv, TypeOK, Reading
<1>3. ASSUME NEW h \in Handlers, Noted, ScanRequest(h) \/ WriteRequest(h)
      PROVE  TypeInv'
  <2>1. UNCHANGED <<tags, counts, controls>>
    BY <1>3 DEF ScanRequest, WriteRequest
  <2> QED  BY <1>t, <1>3, <2>1, RequestsType, NotedType
           DEF TypeInv, TypeOK, Reading, counts
<1>4. ASSUME NEW h \in Handlers, Noted, Inventory(h)
      PROVE  TypeInv'
  <2>1. UNCHANGED <<tags, controls>>
    BY <1>4 DEF Inventory
  <2> QED  BY <1>t, <1>4, <2>1, InventoryType, NotedType DEF TypeInv, TypeOK, Reading
<1>5. ASSUME NEW h \in Handlers, Noted, ReadAfi(h) \/ ReadBlocks(h)
      PROVE  TypeInv'
  <2>1. UNCHANGED <<tags, counts, controls>>
    BY <1>5 DEF ReadAfi, ReadBlocks
  <2>2. req' \in [Handlers -> Request] /\ \A k \in Handlers : Reading(req'[k])
    BY <1>5, ReadAfiType, ReadBlocksType
  <2> QED  BY <1>t, <1>5, <2>1, <2>2, NotedType DEF TypeInv, TypeOK, Reading, counts
<1>6. ASSUME NEW h \in Handlers, Noted, ScanAnswers(h) \/ WriteAfi(h)
      PROVE  TypeInv'
  <2>1. Goto(h, Idle) /\ UNCHANGED <<counts, controls>> /\ tags' \in Seq(MockTag)
    BY <1>t, <1>6, WriteAfiType DEF ScanAnswers, WriteAfi, TypeOK
  <2> QED  BY <1>t, <1>6, <2>1, IdleType, GotoType, NotedType
           DEF TypeInv, TypeOK, Reading, counts
<1> QED  BY <1>1, <1>2, <1>3, <1>4, <1>5, <1>6 DEF Next, Step

LEMMA TypeInit == Init => TypeInv
  BY IdleType, MockReaderAssumption DEF Init, TypeInv, TypeOK

\* The mock keeps its list, its counts and its requests well typed, whatever a
\* test posts while requests are in progress.
THEOREM TypeCorrect == Spec => []TypeOK
<1>1. TypeInv => TypeOK
  BY DEF TypeInv
<1> QED  BY <1>1, TypeInit, TypeStep, PTL DEF Spec

-----------------------------------------------------------------------------
(***************************************************************************)
(* What a scan says of a tag was true of that tag.  The halves of an item  *)
(* are read in two steps, so the invariant also carries the half already   *)
(* read, and that the history of a scan holds the list as it is now.       *)
(***************************************************************************)
SaysSecurity(l, s, a) ==
  \/ \E m \in In(l, s) : a = AfiByte(m.security)
  \/ In(l, s) = {} /\ a = Unsecure

SaysContent(l, s, c) ==
  \/ \E m \in In(l, s) : c = m.content
  \/ In(l, s) = {} /\ c = Empty

WasTrue(x, w) ==
  /\ \E l \in w : SaysSecurity(l, x.sid, x.security)
  /\ \E l \in w : SaysContent(l, x.sid, x.content)

\* The request r, whose scan has seen the lists w, while the list is l.
Faithful(r, w, l) ==
  /\ r.at \in {"inventory", "afi", "blocks"} => l \in w
  /\ r.at \notin {"afi", "blocks"} => r.items = {}
  /\ r.at = "blocks" => \E k \in w : SaysSecurity(k, Head(r.todo), r.sec)
  /\ \A x \in r.items : WasTrue(x, w)

MixUpInv == TypeInv /\ \A h \in Handlers : Faithful(req[h], was[h], tags)

LEMMA FaithfulIsNoMixUp == MixUpInv => NoMixUp
  BY DEF MixUpInv, Faithful, NoMixUp, WasTrue, SaysSecurity, SaysContent

\* What the readings find is what the list says at that moment.
LEMMA ReadingsAreTrue ==
  ASSUME TypeInv, NEW r \in Request
  PROVE  /\ SaysSecurity(tags, Head(r.todo), SecRead(r))
         /\ SaysContent(tags, Head(r.todo), ContentRead(r))
<1>1. CASE Lookup(r) = {}
  <2>1. Matching(Head(r.todo)) = {}
    BY <1>1 DEF Lookup
  <2>2. In(tags, Head(r.todo)) = {}
    BY <2>1 DEF In, Matching
  <2> QED  BY <1>1, <2>2 DEF SaysSecurity, SaysContent, SecRead, ContentRead
<1>2. CASE Lookup(r) # {}
  <2>1. PICK n : n = CHOOSE i \in Lookup(r) : TRUE
    OBVIOUS
  <2>2. n \in DOMAIN tags /\ tags[n].sid = Head(r.todo)
    BY <1>2, <2>1, LookupType
  <2>3. tags[n] \in In(tags, Head(r.todo))
    BY <2>2 DEF In
  <2> QED  BY <1>2, <2>1, <2>3 DEF SaysSecurity, SaysContent, SecRead, ContentRead
<1> QED  BY <1>1, <1>2

\* A request that does not move stays faithful: its history only grows.
LEMMA OthersStayFaithful ==
  ASSUME MixUpInv, Noted, NEW h \in Handlers, req'[h] = req[h]
  PROVE  Faithful(req'[h], was'[h], tags')
<1>1. Faithful(req[h], was[h], tags)
  BY DEF MixUpInv
<1>2. CASE req[h].at \in {"afi", "blocks"}
  <2>1. was'[h] = was[h] \cup {tags'}
    BY <1>2 DEF Noted
  <2> QED  BY <1>1, <1>2, <2>1 DEF Faithful, WasTrue
<1>3. CASE req[h].at = "inventory"
  <2>1. was'[h] = {tags'}
    BY <1>3 DEF Noted
  <2> QED  BY <1>1, <1>3, <2>1 DEF Faithful
<1>4. CASE req[h].at \notin {"inventory", "afi", "blocks"}
  BY <1>1, <1>4 DEF Faithful
<1> QED  BY <1>2, <1>3, <1>4

\* A request that starts, ends or tries again has read nothing yet.
LEMMA EmptyIsFaithful ==
  ASSUME Noted, NEW h \in Handlers, req'[h].items = {}, req'[h].at # "blocks"
  PROVE  Faithful(req'[h], was'[h], tags')
  BY DEF Noted, Faithful

LEMMA ReadAfiFaithful ==
  ASSUME MixUpInv, Noted, NEW h \in Handlers, ReadAfi(h)
  PROVE  Faithful(req'[h], was'[h], tags')
<1>1. TypeInv /\ req[h] \in Request /\ Faithful(req[h], was[h], tags)
  BY DEF MixUpInv, TypeInv, TypeOK
<1>2. tags' = tags /\ req[h].at = "afi"
  BY DEF ReadAfi
<1>3. req'[h] = [req[h] EXCEPT !.at = "blocks", !.sec = SecRead(req[h])]
  BY <1>1, ReadAfiType
<1>4. PICK r : r = req'[h]
  OBVIOUS
<1>5. /\ r.at = "blocks" /\ r.sec = SecRead(req[h]) /\ r.todo = req[h].todo
      /\ r.items = req[h].items
  BY <1>1, <1>3, <1>4 DEF Request
<1>6. was'[h] = was[h] \cup {tags}
  BY <1>2, <1>4, <1>5 DEF Noted
<1>7. SaysSecurity(tags, Head(r.todo), r.sec)
  BY <1>1, <1>5, ReadingsAreTrue
<1>8. \A x \in r.items : WasTrue(x, was'[h])
  BY <1>1, <1>5, <1>6 DEF Faithful, WasTrue
<1> QED  BY <1>2, <1>4, <1>5, <1>6, <1>7, <1>8 DEF Faithful

LEMMA ReadBlocksFaithful ==
  ASSUME MixUpInv, Noted, NEW h \in Handlers, ReadBlocks(h)
  PROVE  Faithful(req'[h], was'[h], tags')
<1>1. TypeInv /\ req[h] \in Request /\ Faithful(req[h], was[h], tags)
  BY DEF MixUpInv, TypeInv, TypeOK
<1>2. tags' = tags /\ req[h].at = "blocks"
  BY DEF ReadBlocks
<1>3. req'[h].at = "afi" /\ req'[h].items = req[h].items \cup {ItemRead(req[h])}
  BY <1>1, ReadBlocksType
<1>4. was'[h] = was[h] \cup {tags}
  BY <1>2, <1>3 DEF Noted
<1>5. PICK x : x = ItemRead(req[h])
  OBVIOUS
<1>6. /\ x.sid = Head(req[h].todo) /\ x.security = req[h].sec
      /\ x.content = ContentRead(req[h])
  BY <1>5 DEF ItemRead
<1>7. \E k \in was[h] : SaysSecurity(k, x.sid, x.security)
  BY <1>1, <1>2, <1>6 DEF Faithful
<1>8. SaysContent(tags, x.sid, x.content)
  BY <1>1, <1>6, ReadingsAreTrue
<1>9. WasTrue(x, was'[h])
  BY <1>4, <1>7, <1>8 DEF WasTrue
<1>10. \A y \in req[h].items : WasTrue(y, was'[h])
  BY <1>1, <1>4 DEF Faithful, WasTrue
<1> QED  BY <1>2, <1>3, <1>4, <1>5, <1>9, <1>10 DEF Faithful

LEMMA MixUpStep == MixUpInv /\ [Next]_vars => MixUpInv'
<1> SUFFICES ASSUME MixUpInv, [Next]_vars PROVE MixUpInv'
  OBVIOUS
<1>t. TypeInv /\ TypeInv'
  BY TypeStep DEF MixUpInv
<1>r. req \in [Handlers -> Request]
  BY <1>t DEF TypeInv, TypeOK
<1> SUFFICES ASSUME NEW h \in Handlers PROVE Faithful(req'[h], was'[h], tags')
  BY <1>t DEF MixUpInv
<1>1. CASE UNCHANGED vars
  BY <1>1 DEF MixUpInv, vars
<1>2. CASE TestStep /\ Noted
  BY <1>t, <1>2, TestStepType, OthersStayFaithful
<1>3. ASSUME Noted, NEW k \in Handlers, ScanRequest(k) \/ WriteRequest(k) \/ Step(k)
      PROVE  Faithful(req'[h], was'[h], tags')
  <2>1. CASE k # h
    <3>1. req'[h] = req[h]
      BY <1>r, <1>3, <2>1 DEF ScanRequest, WriteRequest, Step, Inventory, ReadAfi, ReadBlocks,
                              ScanAnswers, WriteAfi, Goto
    <3> QED  BY <1>3, <3>1, OthersStayFaithful
  <2>2. CASE k = h
    <3>1. CASE ReadAfi(h)
      BY <1>3, <3>1, ReadAfiFaithful
    <3>2. CASE ReadBlocks(h)
      BY <1>3, <3>2, ReadBlocksFaithful
    <3>3. CASE ScanRequest(h)
      <4>1. req'[h] = [Idle EXCEPT !.at = "inventory"]
        BY <1>r, <3>3 DEF ScanRequest, Goto
      <4>2. req'[h].items = {} /\ req'[h].at = "inventory"
        BY <4>1 DEF Idle
      <4> QED  BY <1>3, <4>2, EmptyIsFaithful
    <3>4. CASE WriteRequest(h)
      <4>1. \E o : req'[h] = [Idle EXCEPT !.at = "write", !.op = o]
        BY <1>r, <3>4 DEF WriteRequest, Goto
      <4>2. req'[h].items = {} /\ req'[h].at = "write"
        BY <4>1 DEF Idle
      <4> QED  BY <1>3, <4>2, EmptyIsFaithful
    <3>5. CASE ScanAnswers(h) \/ WriteAfi(h)
      <4>1. req'[h] = Idle
        BY <1>r, <3>5 DEF ScanAnswers, WriteAfi, Goto
      <4>2. req'[h].items = {} /\ req'[h].at = "idle"
        BY <4>1 DEF Idle
      <4> QED  BY <1>3, <4>2, EmptyIsFaithful
    <3>6. CASE Inventory(h)
      <4>1. req[h].at = "inventory" /\ req[h].items = {} /\ req[h] \in Request
        BY <1>r, <3>6 DEF Inventory, MixUpInv, Faithful
      <4>2. \/ req'[h] = Idle
            \/ req'[h] = [req[h] EXCEPT !.try = @ + 1]
            \/ req'[h] = [req[h] EXCEPT !.at = "afi",
                                        !.todo = [i \in DOMAIN tags |-> tags[i].sid]]
        BY <1>r, <3>6 DEF Inventory, Goto
      <4>3. req'[h].items = {} /\ req'[h].at # "blocks"
        <5>1. CASE req'[h] = Idle
          BY <5>1 DEF Idle
        <5>2. CASE req'[h] = [req[h] EXCEPT !.try = @ + 1]
          BY <4>1, <5>2 DEF Request
        <5>3. CASE \E l : req'[h] = [req[h] EXCEPT !.at = "afi", !.todo = l]
          BY <4>1, <5>3 DEF Request
        <5> QED  BY <4>2, <5>1, <5>2, <5>3
      <4> QED  BY <1>3, <4>3, EmptyIsFaithful
    <3> QED  BY <1>3, <2>2, <3>1, <3>2, <3>3, <3>4, <3>5, <3>6 DEF Step
  <2> QED  BY <2>1, <2>2
<1> QED  BY <1>1, <1>2, <1>3 DEF Next

\* However the list changes under a scan, it never says of one tag what is
\* true of another, with any number of scans, writes and posts at a time.
THEOREM ScansDoNotMixUp == Spec => []NoMixUp
<1>1. Init => MixUpInv
  BY TypeInit DEF Init, MixUpInv, Faithful, Idle
<1> QED  BY <1>1, MixUpStep, FaithfulIsNoMixUp, PTL DEF Spec

-----------------------------------------------------------------------------
(***************************************************************************)
(* /mock/tag and /mock/remove look for the first tag of a number only.     *)
(* That is all there is of it: they keep one tag of each number, unless    *)
(* /mock/set is given a list that has two.                                 *)
(***************************************************************************)
OneOfEach(l) == \A i, j \in DOMAIN l : l[i].sid = l[j].sid => i = j

OneInv == TypeInv /\ OneOfEach(tags)

\* Where the tags stand that are left when one is taken off.
LEMMA WhereTheyStood ==
  ASSUME TypeInv, NEW s, PostRemove(s)
  PROVE  /\ First(s) \in DOMAIN tags /\ tags[First(s)].sid = s
         /\ \A i \in DOMAIN tags' :
              \/ i < First(s) /\ i \in DOMAIN tags /\ tags'[i] = tags[i]
              \/ First(s) <= i /\ i + 1 \in DOMAIN tags /\ tags'[i] = tags[i + 1]
<1>1. tags \in Seq(MockTag)
  BY DEF TypeInv, TypeOK
<1>2. First(s) \in DOMAIN tags /\ First(s) \in 1 .. Len(tags) /\ tags[First(s)].sid = s
  BY <1>1, FirstMatches DEF PostRemove
<1>3. PICK n \in Nat, f \in Nat : n = Len(tags) /\ f = First(s) /\ f \in 1 .. n
  BY <1>1, <1>2
<1>4. tags' = [i \in 1 .. n - 1 |-> IF i < f THEN tags[i] ELSE tags[i + 1]]
  BY <1>3 DEF PostRemove
<1>5. DOMAIN tags = 1 .. n
  BY <1>1, <1>3
<1> QED  BY <1>2, <1>3, <1>4, <1>5

LEMMA UpsertedKeepsOne ==
  ASSUME OneInv, NEW t \in MockTag
  PROVE  OneOfEach(Upserted(t))
<1>1. tags \in Seq(MockTag) /\ OneOfEach(tags)
  BY DEF OneInv, TypeInv, TypeOK
<1>2. CASE Matching(t.sid) = {}
  <2>1. PICK l : l = Append(tags, t)
    OBVIOUS
  <2>2. \A i \in DOMAIN tags : tags[i].sid # t.sid
    BY <1>2 DEF Matching
  <2>3. \A i \in DOMAIN l :
          \/ i \in DOMAIN tags /\ l[i] = tags[i]
          \/ i = Len(tags) + 1 /\ l[i] = t
    BY <1>1, <2>1
  <2>4. OneOfEach(l)
    BY <1>1, <2>2, <2>3 DEF OneOfEach
  <2> QED  BY <1>2, <2>1, <2>4 DEF Upserted
<1>3. CASE Matching(t.sid) # {}
  <2>1. PICK l : l = [tags EXCEPT ![First(t.sid)] = t]
    OBVIOUS
  <2>2. First(t.sid) \in DOMAIN tags /\ tags[First(t.sid)].sid = t.sid
    BY <1>1, <1>3, FirstMatches
  <2>3. DOMAIN l = DOMAIN tags /\ \A i \in DOMAIN tags : l[i].sid = tags[i].sid
    BY <1>1, <2>1, <2>2
  <2>4. OneOfEach(l)
    BY <1>1, <2>3 DEF OneOfEach
  <2> QED  BY <1>3, <2>1, <2>4 DEF Upserted
<1> QED  BY <1>2, <1>3

LEMMA OneStep ==
  (\A l \in Inventories : OneOfEach(l)) /\ OneInv /\ [Next]_vars => OneInv'
<1> SUFFICES ASSUME \A l \in Inventories : OneOfEach(l), OneInv, [Next]_vars
             PROVE  OneInv'
  OBVIOUS
<1>t. TypeInv /\ TypeInv' /\ OneOfEach(tags)
  BY TypeStep DEF OneInv
<1>k. tags' = tags => OneInv'
  BY <1>t DEF OneInv, OneOfEach
<1>1. CASE \E t \in Posts : PostTag(t)
  BY <1>t, <1>1, UpsertedKeepsOne, MockReaderAssumption DEF PostTag, OneInv
<1>2. CASE \E l \in Inventories : PostSet(l)
  BY <1>t, <1>2 DEF PostSet, OneInv
<1>3. CASE \E s \in Sids : PostRemove(s)
  <2>1. PICK s \in Sids : PostRemove(s)
    BY <1>3
  <2>2. PICK f : f = First(s)
    OBVIOUS
  <2>3. /\ f \in DOMAIN tags /\ DOMAIN tags \subseteq Nat /\ DOMAIN tags' \subseteq Nat
        /\ \A i \in DOMAIN tags' :
              \/ i < f /\ i \in DOMAIN tags /\ tags'[i] = tags[i]
              \/ f <= i /\ i + 1 \in DOMAIN tags /\ tags'[i] = tags[i + 1]
    BY <1>t, <2>1, <2>2, WhereTheyStood DEF TypeInv, TypeOK
  <2>4. ASSUME NEW i \in DOMAIN tags', NEW j \in DOMAIN tags', tags'[i].sid = tags'[j].sid
        PROVE  i = j
    <3>1. CASE i < f /\ j < f
      BY <1>t, <2>3, <2>4, <3>1 DEF OneOfEach
    <3>2. CASE f <= i /\ f <= j
      <4>1. i + 1 = j + 1
        BY <1>t, <2>3, <2>4, <3>2 DEF OneOfEach
      <4> QED  BY <2>3, <4>1
    <3>3. CASE i < f /\ f <= j
      <4>1. i = j + 1
        BY <1>t, <2>3, <2>4, <3>3 DEF OneOfEach
      <4> QED  BY <2>3, <3>3, <4>1
    <3>4. CASE f <= i /\ j < f
      <4>1. i + 1 = j
        BY <1>t, <2>3, <2>4, <3>4 DEF OneOfEach
      <4> QED  BY <2>3, <3>4, <4>1
    <3> QED  BY <2>3, <3>1, <3>2, <3>3, <3>4
  <2> QED  BY <1>t, <2>4 DEF OneInv, OneOfEach
<1>4. CASE PostClear
  BY <1>t, <1>4 DEF PostClear, OneInv, OneOfEach
<1>5. ASSUME NEW h \in Handlers, WriteAfi(h)
      PROVE  OneInv'
  <2>1. DOMAIN tags' = DOMAIN tags /\ \A i \in DOMAIN tags : tags'[i].sid = tags[i].sid
    BY <1>t, <1>5, WriteAfiType
  <2> QED  BY <1>t, <2>1 DEF OneInv, OneOfEach
<1>6. CASE UNCHANGED vars
  BY <1>k, <1>6 DEF vars
<1>7. CASE \E n \in Counts : PostError(n) \/ PostTimeout(n)
  BY <1>k, <1>7 DEF PostError, PostTimeout
<1>8. ASSUME NEW h \in Handlers,
             ScanRequest(h) \/ WriteRequest(h) \/ Inventory(h) \/ ReadAfi(h) \/ ReadBlocks(h)
               \/ ScanAnswers(h)
      PROVE  OneInv'
  BY <1>k, <1>8 DEF ScanRequest, WriteRequest, Inventory, ReadAfi, ReadBlocks, ScanAnswers
<1> QED  BY <1>1, <1>2, <1>3, <1>4, <1>5, <1>6, <1>7, <1>8 DEF Next, TestStep, Step

LEMMA OneIsTakenOff ==
  ASSUME OneInv, NEW s, PostRemove(s)
  PROVE  \A i \in DOMAIN tags' : tags'[i].sid # s
<1>1. TypeInv /\ OneOfEach(tags) /\ DOMAIN tags \subseteq Nat
  BY DEF OneInv, TypeInv, TypeOK
<1>2. PICK f : f = First(s)
  OBVIOUS
<1>3. /\ f \in DOMAIN tags /\ tags[f].sid = s
      /\ \A i \in DOMAIN tags' :
              \/ i < f /\ i \in DOMAIN tags /\ tags'[i] = tags[i]
              \/ f <= i /\ i + 1 \in DOMAIN tags /\ tags'[i] = tags[i + 1]
  BY <1>1, <1>2, WhereTheyStood
<1> SUFFICES ASSUME NEW i \in DOMAIN tags', tags'[i].sid = s PROVE FALSE
  OBVIOUS
<1>4. CASE i < f /\ i \in DOMAIN tags /\ tags'[i] = tags[i]
  <2>1. i = f
    BY <1>1, <1>3, <1>4 DEF OneOfEach
  <2> QED  BY <1>1, <1>4, <2>1
<1>5. CASE f <= i /\ i + 1 \in DOMAIN tags /\ tags'[i] = tags[i + 1]
  <2>1. i + 1 = f
    BY <1>1, <1>3, <1>5 DEF OneOfEach
  <2>2. i \in Nat
    <3>1. tags' \in Seq(MockTag)
      BY <1>1, RemovedType DEF TypeInv, TypeOK
    <3> QED  BY <3>1
  <2> QED  BY <1>1, <1>5, <2>1, <2>2
<1> QED  BY <1>3, <1>4, <1>5

\* A tag taken off is off: a test that posts tags one by one, or lists with one
\* tag of each number, finds no second one behind the one it removed.
THEOREM RemovedTagsAreGone ==
  (\A l \in Inventories : OneOfEach(l)) => (Spec => RemovedIsGone)
<1> SUFFICES ASSUME \A l \in Inventories : OneOfEach(l) PROVE Spec => RemovedIsGone
  OBVIOUS
<1>1. Init => OneInv
  BY TypeInit DEF Init, OneInv, OneOfEach
<1>2. OneInv /\ [Next]_vars => OneInv'
  BY OneStep
<1>3. OneInv => [\A s \in Sids : Control /\ PostRemove(s)
                   => \A i \in DOMAIN tags' : tags'[i].sid # s]_vars
  BY OneIsTakenOff
<1> QED  BY <1>1, <1>2, <1>3, PTL DEF Spec, RemovedIsGone
=============================================================================
