----------------------- MODULE RfidServerWritesProofs -----------------------
(***************************************************************************)
(* Proofs about the answers of /secure and /program, for every number of   *)
(* handlers, every set of requests and tags: the ops of a request are any  *)
(* sequence, and may name a tag several times.                             *)
(*                                                                         *)
(* What holds at the answer is built up op by op, so the invariant says it *)
(* of the first n ops.  The op that counts for a tag is the last of these  *)
(* on it: LastWord says so of a number without choosing one, and Settled,  *)
(* itself kept by every step, that each tag among the n has one.           *)
(***************************************************************************)
EXTENDS RfidServerProofs

LastWord(ops, n, k) ==
  k \in 1 .. n /\ \A j \in 1 .. n : ops[j].tag = ops[k].tag => j <= k

Hit(ops, n) == {ops[k].tag : k \in 1 .. n}

Settled(ops, n) ==
  \A t \in Hit(ops, n) : \E k \in 1 .. n : LastWord(ops, n, k) /\ ops[k].tag = t

\* The first n ops of a /secure are on their tags; `now' is what may differ.
Secured(ops, n, start, m, now) ==
  /\ m.data = start.data
  /\ \A k \in 1 .. n : LastWord(ops, n, k) /\ ops[k].tag \notin now =>
       m.afi[ops[k].tag] = ops[k].val
  /\ \A t \in Tags \ now : t \notin Hit(ops, n) => m.afi[t] = start.afi[t]

Holds(m, o) ==
  o.val \in Datas /\ m.data[o.tag] = o.val /\ m.afi[o.tag] = AfiOf[o.val]

\* The first n ops of a /program, all but those in errs, are on their tags.
Programmed(ops, n, errs, start, m, now) ==
  /\ \A k \in 1 .. n : LastWord(ops, n, k) /\ k \notin errs /\ ops[k].tag \notin now =>
       Holds(m, ops[k])
  /\ \A t \in Tags \ now : t \notin Hit(ops, n) =>
       m.data[t] = start.data[t] /\ m.afi[t] = start.afi[t]

SecureOK(r, m) ==
  /\ r.part = "afi"
  /\ r.at = "unlock" /\ r.out = "ok" => r.i - 1 = Len(r.ops)
  /\ Secured(r.ops, r.i - 1, r.start, m,
             IF r.at = "unlock" /\ r.out = "err" THEN {Current(r).tag} ELSE {})

\* Between its two writes the current tag has its content and not yet its AFI.
ProgramOK(r, m) ==
  /\ r.part \in {"blocks", "afi"}
  /\ r.errs \subseteq 1 .. (r.i - 1)
  /\ r.part = "afi" => /\ HasOp(r) /\ ~Refused(r)
                       /\ m.data[Current(r).tag] = Current(r).val
  /\ r.at = "unlock" => /\ r.part = "blocks" /\ r.i - 1 = Len(r.ops)
                        /\ r.out = "ok" <=> r.errs = {}
  /\ Programmed(r.ops, r.i - 1, r.errs, r.start, m,
                IF r.part = "afi" THEN {Current(r).tag} ELSE {})

WriteOK(r, m) ==
  r.kind # "scan" =>
    /\ r.at # "pause"
    /\ r.at = "want" => r.i = 1 /\ r.errs = {} /\ r.part = FirstPart(r.kind)
    /\ r.at \in Inside =>
         /\ r.i - 1 <= Len(r.ops) /\ Settled(r.ops, r.i - 1)
         /\ r.kind = "secure" => SecureOK(r, m)
         /\ r.kind = "program" => ProgramOK(r, m)

WritesOK == \A h \in Handlers : WriteOK(req[h], mem)

-----------------------------------------------------------------------------
(***************************************************************************)
(* Last words.                                                             *)
(***************************************************************************)
LEMMA WordGrows ==
  ASSUME NEW ops, NEW n \in Nat
  PROVE  /\ LastWord(ops, n + 1, n + 1)
         /\ Hit(ops, n + 1) = Hit(ops, n) \cup {ops[n + 1].tag}
         /\ \A k \in 1 .. n + 1 : LastWord(ops, n + 1, k) /\ k # n + 1 =>
              k \in 1 .. n /\ LastWord(ops, n, k) /\ ops[k].tag # ops[n + 1].tag
<1>1. 1 .. n + 1 = (1 .. n) \cup {n + 1}
  OBVIOUS
<1>2. LastWord(ops, n + 1, n + 1)
  BY DEF LastWord
<1>3. Hit(ops, n + 1) = Hit(ops, n) \cup {ops[n + 1].tag}
  BY <1>1, Zenon DEF Hit
<1>4. ASSUME NEW k \in 1 .. n + 1, LastWord(ops, n + 1, k), k # n + 1
      PROVE  k \in 1 .. n /\ LastWord(ops, n, k) /\ ops[k].tag # ops[n + 1].tag
  BY <1>4 DEF LastWord
<1> QED  BY <1>2, <1>3, <1>4

LEMMA SettledGrows ==
  ASSUME NEW ops, NEW n \in Nat, Settled(ops, n)
  PROVE  Settled(ops, n + 1)
<1> SUFFICES ASSUME NEW t \in Hit(ops, n + 1)
             PROVE  \E k \in 1 .. n + 1 : LastWord(ops, n + 1, k) /\ ops[k].tag = t
  BY DEF Settled
<1>1. CASE t = ops[n + 1].tag
  <2>1. LastWord(ops, n + 1, n + 1) /\ n + 1 \in 1 .. n + 1
    BY WordGrows
  <2> QED  BY <1>1, <2>1
<1>2. CASE t # ops[n + 1].tag
  <2>1. t \in Hit(ops, n)
    BY <1>2, WordGrows
  <2>2. PICK k \in 1 .. n : LastWord(ops, n, k) /\ ops[k].tag = t
    BY <2>1 DEF Settled
  <2>3. LastWord(ops, n + 1, k)
    <3>1. k \in 1 .. n + 1
      OBVIOUS
    <3>2. ASSUME NEW j \in 1 .. n + 1, ops[j].tag = ops[k].tag PROVE j <= k
      <4>1. j \in 1 .. n
        BY <1>2, <2>2, <3>2
      <4> QED  BY <2>2, <3>2, <4>1 DEF LastWord
    <3> QED  BY <3>1, <3>2 DEF LastWord
  <2> QED  BY <2>2, <2>3
<1> QED  BY <1>1, <1>2

LEMMA NoWords ==
  ASSUME NEW ops
  PROVE  Hit(ops, 0) = {} /\ Settled(ops, 0)
  BY DEF Hit, Settled

\* The op LastOn chooses is the one that has the last word.
LEMMA LastOnIsLast ==
  ASSUME NEW r, NEW n \in Nat, Settled(r.ops, n), NEW t \in Hit(r.ops, n)
  PROVE  /\ LastOn(r, n, t) \in 1 .. n
         /\ LastWord(r.ops, n, LastOn(r, n, t))
         /\ r.ops[LastOn(r, n, t)].tag = t
<1> DEFINE on == {k \in 1 .. n : r.ops[k].tag = t}
<1>1. PICK k \in 1 .. n : LastWord(r.ops, n, k) /\ r.ops[k].tag = t
  BY DEF Settled
<1>2. k \in on /\ \A j \in on : j <= k
  BY <1>1 DEF LastWord
<1>3. LastOn(r, n, t) = CHOOSE l \in on : \A j \in on : j <= l
  BY Zenon DEF LastOn
<1> HIDE DEF on
<1>4. LastOn(r, n, t) \in on /\ \A j \in on : j <= LastOn(r, n, t)
  BY <1>2, <1>3, Zenon
<1> QED  BY <1>4 DEF on, LastWord

-----------------------------------------------------------------------------
(***************************************************************************)
(* One write, and what it leaves of the other tags.                        *)
(***************************************************************************)
Elsewhere(m, w, t) ==
  \A u \in Tags : u # t => w.data[u] = m.data[u] /\ w.afi[u] = m.afi[u]

LEMMA AfiOutcome ==
  ASSUME IInv, NEW t \in Tags, NEW a \in Afis, NEW o \in AfiOutcomes(t, a)
  PROVE  /\ o[2] \in Memory /\ o[2].data = mem.data /\ Elsewhere(mem, o[2], t)
         /\ o[1] => o[2].afi[t] = a
<1>1. mem \in Memory
  BY DEF IInv, TypeOK
<1>2. PICK s : s = SetAfi(mem, t, a)
  OBVIOUS
<1>3. /\ s \in Memory /\ s.data = mem.data /\ s.afi[t] = a
      /\ \A u \in Tags : u # t => s.afi[u] = mem.afi[u]
  BY <1>1, <1>2 DEF SetAfi, Memory
<1>4. o \in {<<FALSE, mem>>, <<FALSE, s>>, <<TRUE, s>>}
  BY <1>2 DEF AfiOutcomes, AfiWrites
<1>5. PICK ok \in BOOLEAN, v \in {mem, s} : o = <<ok, v>> /\ (ok => v = s)
  BY <1>4
<1>6. o[1] = ok /\ o[2] = v
  BY <1>5
<1> QED  BY <1>1, <1>3, <1>5, <1>6 DEF Elsewhere

LEMMA DataOutcome ==
  ASSUME IInv, NEW t \in Tags, NEW d \in Datas, NEW o \in DataOutcomes(t, d)
  PROVE  /\ o[2] \in Memory /\ Elsewhere(mem, o[2], t)
         /\ o[1] => o[2].data[t] = d
<1>1. mem \in Memory /\ d \in Contents /\ Torn \in Contents
  BY DEF IInv, TypeOK, Contents
<1>2. PICK s, c : s = SetData(mem, t, d) /\ c = SetData(mem, t, Torn)
  OBVIOUS
<1>3. /\ s \in Memory /\ s.afi = mem.afi /\ s.data[t] = d
      /\ \A u \in Tags : u # t => s.data[u] = mem.data[u]
  BY <1>1, <1>2 DEF SetData, Memory
<1>4. /\ c \in Memory /\ c.afi = mem.afi
      /\ \A u \in Tags : u # t => c.data[u] = mem.data[u]
  BY <1>1, <1>2 DEF SetData, Memory
<1>5. o \in {<<FALSE, mem>>, <<FALSE, s>>, <<FALSE, c>>, <<TRUE, s>>}
  BY <1>2 DEF DataOutcomes, DataWrites
<1>6. PICK ok \in BOOLEAN, v \in {mem, s, c} : o = <<ok, v>> /\ (ok => v = s)
  BY <1>5
<1>7. o[1] = ok /\ o[2] = v
  BY <1>6
<1> QED  BY <1>1, <1>3, <1>4, <1>6, <1>7 DEF Elsewhere

LEMMA SecuredGrows ==
  ASSUME NEW ops, NEW n \in Nat, NEW start, NEW m, NEW w, Secured(ops, n, start, m, {}),
         \A k \in 1 .. n : ops[k].tag \in Tags,
         w.data = m.data, Elsewhere(m, w, ops[n + 1].tag),
         w.afi[ops[n + 1].tag] = ops[n + 1].val
  PROVE  Secured(ops, n + 1, start, w, {})
<1>1. ASSUME NEW k \in 1 .. n + 1, LastWord(ops, n + 1, k)
      PROVE  w.afi[ops[k].tag] = ops[k].val
  <2>1. CASE k = n + 1
    BY <2>1
  <2>2. CASE k # n + 1
    <3>1. k \in 1 .. n /\ LastWord(ops, n, k) /\ ops[k].tag # ops[n + 1].tag
      BY <1>1, <2>2, WordGrows
    <3> QED  BY <3>1 DEF Secured, Elsewhere
  <2> QED  BY <2>1, <2>2
<1>2. ASSUME NEW t \in Tags, t \notin Hit(ops, n + 1) PROVE w.afi[t] = start.afi[t]
  BY <1>2, WordGrows DEF Secured, Elsewhere
<1> QED  BY <1>1, <1>2 DEF Secured

LEMMA SecuredStops ==
  ASSUME NEW ops, NEW n \in Nat, NEW start, NEW m, NEW w, NEW t,
         Secured(ops, n, start, m, {}), \A k \in 1 .. n : ops[k].tag \in Tags,
         w.data = m.data, Elsewhere(m, w, t)
  PROVE  Secured(ops, n, start, w, {t})
  BY DEF Secured, Elsewhere

LEMMA ProgrammedFails ==
  ASSUME NEW ops, NEW n \in Nat, NEW errs, NEW start, NEW m, NEW w, NEW now,
         now \subseteq {ops[n + 1].tag},
         Programmed(ops, n, errs, start, m, now),
         \A k \in 1 .. n : ops[k].tag \in Tags, Elsewhere(m, w, ops[n + 1].tag)
  PROVE  Programmed(ops, n + 1, errs \cup {n + 1}, start, w, {})
<1>1. ASSUME NEW k \in 1 .. n + 1, LastWord(ops, n + 1, k), k \notin errs \cup {n + 1}
      PROVE  Holds(w, ops[k])
  <2>1. k \in 1 .. n /\ LastWord(ops, n, k) /\ ops[k].tag # ops[n + 1].tag
    BY <1>1, WordGrows
  <2>2. Holds(m, ops[k])
    BY <1>1, <2>1 DEF Programmed
  <2> QED  BY <2>1, <2>2 DEF Holds, Elsewhere
<1>2. ASSUME NEW t \in Tags, t \notin Hit(ops, n + 1)
      PROVE  w.data[t] = start.data[t] /\ w.afi[t] = start.afi[t]
  BY <1>2, WordGrows DEF Programmed, Elsewhere
<1> QED  BY <1>1, <1>2 DEF Programmed

LEMMA ProgrammedHalf ==
  ASSUME NEW ops, NEW n \in Nat, NEW errs, NEW start, NEW m, NEW w, NEW t,
         Programmed(ops, n, errs, start, m, {}),
         \A k \in 1 .. n : ops[k].tag \in Tags, Elsewhere(m, w, t)
  PROVE  Programmed(ops, n, errs, start, w, {t})
  BY DEF Programmed, Elsewhere, Holds

LEMMA ProgrammedLands ==
  ASSUME NEW ops, NEW n \in Nat, NEW errs, NEW start, NEW m, NEW w,
         Programmed(ops, n, errs, start, m, {ops[n + 1].tag}),
         \A k \in 1 .. n : ops[k].tag \in Tags, Elsewhere(m, w, ops[n + 1].tag),
         Holds(w, ops[n + 1])
  PROVE  Programmed(ops, n + 1, errs, start, w, {})
<1>1. ASSUME NEW k \in 1 .. n + 1, LastWord(ops, n + 1, k), k \notin errs
      PROVE  Holds(w, ops[k])
  <2>1. CASE k = n + 1
    BY <2>1
  <2>2. CASE k # n + 1
    <3>1. k \in 1 .. n /\ LastWord(ops, n, k) /\ ops[k].tag # ops[n + 1].tag
      BY <1>1, <2>2, WordGrows
    <3>2. Holds(m, ops[k])
      BY <1>1, <3>1 DEF Programmed
    <3> QED  BY <3>1, <3>2 DEF Holds, Elsewhere
  <2> QED  BY <2>1, <2>2
<1>2. ASSUME NEW t \in Tags, t \notin Hit(ops, n + 1)
      PROVE  w.data[t] = start.data[t] /\ w.afi[t] = start.afi[t]
  BY <1>2, WordGrows DEF Programmed, Elsewhere
<1> QED  BY <1>1, <1>2 DEF Programmed

-----------------------------------------------------------------------------
(***************************************************************************)
(* Steps of one handler.                                                   *)
(***************************************************************************)
\* A step of one handler disturbs no write of another.
LEMMA WritersKeep ==
  ASSUME IInv, WritesOK, NEW h \in Handlers, NEW n, Set(h, n), WriteOK(n, mem'),
         mem' = mem \/ req[h].at \in Inside
  PROVE  WritesOK'
<1>1. \A g \in Handlers : req'[g] = IF g = h THEN n ELSE req[g]
  BY DEF Set, IInv, RequestsOK
<1>2. ASSUME NEW g \in Handlers, g # h PROVE WriteOK(req[g], mem')
  <2>1. CASE mem' = mem
    BY <2>1 DEF WritesOK
  <2>2. CASE req[h].at \in Inside
    <3>1. req[g].at \notin Inside
      BY <1>2, <2>2 DEF IInv, PortExclusive
    <3> QED  BY <3>1 DEF WritesOK, WriteOK
  <2> QED  BY <2>1, <2>2
<1> QED  BY <1>1, <1>2 DEF WritesOK

LEMMA Resting ==
  ASSUME NEW n, NEW m, n.kind = "scan" \/ n.at = "idle"
  PROVE  WriteOK(n, m)
  BY DEF WriteOK, Inside

\* A step that changes nothing of what has been written and what failed.
LEMMA SameWork ==
  ASSUME NEW r, NEW n, NEW m, WriteOK(r, m), n.kind = r.kind, n.ops = r.ops, n.i = r.i,
         n.part = r.part, n.errs = r.errs, n.start = r.start, n.out = r.out,
         n.at = r.at \/ (r.at = "between" /\ n.at = "calling")
  PROVE  WriteOK(n, m)
<1>1. Current(n) = Current(r) /\ HasOp(n) = HasOp(r) /\ Refused(n) = Refused(r)
  BY DEF Current, HasOp, Refused
<1>2. SecureOK(r, m) => SecureOK(n, m)
  BY <1>1 DEF SecureOK
<1>3. ProgramOK(r, m) => ProgramOK(n, m)
  BY <1>1 DEF ProgramOK
<1>4. r.at \in Inside <=> n.at \in Inside
  BY DEF Inside
<1> QED  BY <1>2, <1>3, <1>4 DEF WriteOK

\* What is known of a request that writes, inside its operation.
LEMMA Writer ==
  ASSUME IInv, WritesOK, NEW h \in Handlers, req[h].at \in Inside, req[h].kind # "scan"
  PROVE  \E r \in Request, p \in Nat :
           /\ r = req[h] /\ p = r.i - 1 /\ p + 1 = r.i /\ p <= Len(r.ops)
           /\ \A k \in 1 .. Len(r.ops) : r.ops[k].tag \in Tags
           /\ Settled(r.ops, p)
           /\ r.kind = "secure" => SecureOK(r, mem)
           /\ r.kind = "program" => ProgramOK(r, mem)
<1>1. PICK r \in Request : r = req[h] /\ WriteOK(r, mem)
  BY Current_Request DEF WritesOK
<1>2. PICK p \in Nat : p = r.i - 1 /\ p + 1 = r.i
  BY DEF Request
<1>3. ASSUME NEW k \in 1 .. Len(r.ops) PROVE r.ops[k].tag \in Tags
  <2>1. r.ops[k] \in Op
    BY ElementOf DEF Request
  <2> QED  BY <2>1 DEF Op
<1>4. /\ r.i - 1 <= Len(r.ops) /\ Settled(r.ops, r.i - 1)
      /\ r.kind = "secure" => SecureOK(r, mem)
      /\ r.kind = "program" => ProgramOK(r, mem)
  BY <1>1 DEF WriteOK
<1> QED  BY <1>1, <1>2, <1>3, <1>4

LEMMA SecureWrites ==
  ASSUME IInv, WritesOK, NEW h \in Handlers,
         SecureTag(h) \/ SecureRefuses(h) \/ (Finish(h) /\ req[h].kind = "secure")
  PROVE  WritesOK'
<1>1. req[h].at \in Inside /\ req[h].kind = "secure" /\ req[h].at # "unlock"
  BY DEF SecureTag, SecureRefuses, Finish, Inside
<1>2. PICK r \in Request, p \in Nat :
        /\ r = req[h] /\ p = r.i - 1 /\ p + 1 = r.i /\ p <= Len(r.ops)
        /\ \A k \in 1 .. Len(r.ops) : r.ops[k].tag \in Tags
        /\ Settled(r.ops, p)
        /\ SecureOK(r, mem)
  BY <1>1, Writer
<1>3. /\ Secured(r.ops, p, r.start, mem, {}) /\ r.part = "afi"
      /\ \A k \in 1 .. p : r.ops[k].tag \in Tags
  BY <1>1, <1>2 DEF SecureOK
<1>4. ASSUME NEW n, n.kind = "secure", n.ops = r.ops, n.start = r.start, n.i = r.i,
             n.part = r.part, n.at = "unlock", n.out = "err", Set(h, n),
             mem'.data = mem.data, Elsewhere(mem, mem', Current(r).tag)
      PROVE  WritesOK'
  <2>1. Secured(r.ops, p, r.start, mem', {Current(r).tag})
    BY <1>3, <1>4, SecuredStops
  <2>2. Current(n) = Current(r)
    BY <1>4 DEF Current
  <2>3. SecureOK(n, mem')
    BY <1>2, <1>3, <1>4, <2>1, <2>2 DEF SecureOK
  <2>4. WriteOK(n, mem')
    BY <1>2, <1>4, <2>3 DEF WriteOK
  <2> QED  BY <1>1, <1>4, <2>4, WritersKeep
<1>5. PICK f : f = [Failing(r) EXCEPT !.at = "unlock", !.out = "err"]
  OBVIOUS
<1>6. /\ f.kind = r.kind /\ f.ops = r.ops /\ f.start = r.start /\ f.i = r.i
      /\ f.part = r.part /\ f.at = "unlock" /\ f.out = "err"
  BY <1>5 DEF Failing, Request
<1>7. CASE SecureTag(h)
  <2>1. HasOp(r) /\ ~Refused(r) /\ r.at = "calling" /\ WellFormed(r)
    BY <1>1, <1>2, <1>7, Current_Request DEF SecureTag, CallOK
  <2>2. Current(r).tag \in Tags /\ Current(r).val \in Afis
    BY <1>1, <1>2, <2>1, OpType
  <2>3. PICK o \in AfiOutcomes(Current(r).tag, Current(r).val) :
          /\ mem' = o[2]
          /\ \/ o[1] /\ Set(h, [r EXCEPT !.at = "between", !.i = @ + 1])
             \/ Set(h, f)
    BY <1>2, <1>5, <1>7 DEF SecureTag
  <2>4. /\ mem'.data = mem.data /\ Elsewhere(mem, mem', Current(r).tag)
        /\ o[1] => mem'.afi[Current(r).tag] = Current(r).val
    BY <2>2, <2>3, AfiOutcome
  <2>5. CASE o[1] /\ Set(h, [r EXCEPT !.at = "between", !.i = @ + 1])
    <3>1. PICK n : n = [r EXCEPT !.at = "between", !.i = @ + 1]
      OBVIOUS
    <3>2. /\ n.kind = r.kind /\ n.ops = r.ops /\ n.start = r.start /\ n.i = r.i + 1
          /\ n.part = r.part /\ n.at = "between"
      BY <3>1 DEF Request
    <3>3. Current(r) = r.ops[p + 1] /\ p + 1 <= Len(r.ops)
      BY <1>2, <2>1 DEF Current, HasOp
    <3>4. Secured(r.ops, p + 1, r.start, mem', {}) /\ Settled(r.ops, p + 1)
      BY <1>2, <1>3, <2>4, <2>5, <3>3, SecuredGrows, SettledGrows
    <3>5. n.i - 1 = p + 1
      BY <1>2, <3>2
    <3>6. SecureOK(n, mem')
      BY <1>3, <3>2, <3>4, <3>5 DEF SecureOK
    <3>7. WriteOK(n, mem')
      BY <1>1, <1>2, <3>2, <3>3, <3>4, <3>5, <3>6 DEF WriteOK
    <3> QED  BY <1>1, <2>5, <3>1, <3>7, WritersKeep
  <2>6. CASE Set(h, f)
    BY <1>1, <1>2, <1>4, <1>6, <2>4, <2>6
  <2> QED  BY <2>3, <2>5, <2>6
<1>8. CASE SecureRefuses(h)
  <2>1. Set(h, f) /\ mem' = mem
    BY <1>2, <1>5, <1>8 DEF SecureRefuses
  <2> QED  BY <1>1, <1>2, <1>4, <1>6, <2>1 DEF Elsewhere
<1>9. CASE Finish(h)
  <2>1. PICK n : n = [r EXCEPT !.at = "unlock", !.out = IF r.errs = {} THEN "ok" ELSE "err"]
    OBVIOUS
  <2>2. Set(h, n) /\ mem' = mem /\ ~HasOp(r)
    BY <1>1, <1>2, <1>9, <2>1 DEF Finish
  <2>3. /\ n.kind = r.kind /\ n.ops = r.ops /\ n.start = r.start /\ n.i = r.i
        /\ n.part = r.part /\ n.at = "unlock" /\ n.out \in {"ok", "err"}
    BY <2>1 DEF Request
  <2>4. CASE n.out = "err"
    BY <1>1, <1>2, <1>4, <2>2, <2>3, <2>4 DEF Elsewhere
  <2>5. CASE n.out = "ok"
    <3>1. r.i - 1 = Len(r.ops)
      BY <1>1, <1>2, <2>2 DEF HasOp, Request
    <3>2. SecureOK(n, mem')
      BY <1>2, <1>3, <2>2, <2>3, <2>5, <3>1 DEF SecureOK
    <3>3. WriteOK(n, mem')
      BY <1>1, <1>2, <2>3, <3>2 DEF WriteOK
    <3> QED  BY <1>1, <2>2, <3>3, WritersKeep
  <2> QED  BY <2>3, <2>4, <2>5
<1> QED  BY <1>7, <1>8, <1>9

LEMMA ProgramWrites ==
  ASSUME IInv, WritesOK, NEW h \in Handlers,
         \/ ProgramRefuses(h) \/ ProgramBlocks(h) \/ ProgramAfi(h)
         \/ Finish(h) /\ req[h].kind = "program"
  PROVE  WritesOK'
<1>1. req[h].at \in Inside /\ req[h].kind = "program" /\ req[h].at # "unlock"
  BY DEF ProgramRefuses, ProgramBlocks, ProgramAfi, Finish, Inside
<1>2. PICK r \in Request, p \in Nat :
        /\ r = req[h] /\ p = r.i - 1 /\ p + 1 = r.i /\ p <= Len(r.ops)
        /\ \A k \in 1 .. Len(r.ops) : r.ops[k].tag \in Tags
        /\ Settled(r.ops, p)
        /\ ProgramOK(r, mem)
  BY <1>1, Writer
<1>3. /\ \A k \in 1 .. p : r.ops[k].tag \in Tags
      /\ r.errs \subseteq 1 .. p /\ r.part \in {"blocks", "afi"}
      /\ r.part = "afi" => /\ HasOp(r) /\ ~Refused(r)
                           /\ mem.data[Current(r).tag] = Current(r).val
  BY <1>2 DEF ProgramOK
<1>4. /\ r.part = "blocks" => Programmed(r.ops, p, r.errs, r.start, mem, {})
      /\ r.part = "afi" => Programmed(r.ops, p, r.errs, r.start, mem, {Current(r).tag})
  BY <1>2 DEF ProgramOK
<1>5. HasOp(r) => Current(r) = r.ops[p + 1] /\ p + 1 <= Len(r.ops)
  BY <1>2 DEF Current, HasOp
\* The request is through with its op.
<1>6. ASSUME HasOp(r), NEW e, e \subseteq 1 .. (p + 1),
             Programmed(r.ops, p + 1, e, r.start, mem', {}),
             NEW n, n.kind = r.kind, n.ops = r.ops, n.start = r.start, n.errs = e,
             n.i = r.i + 1, n.part = "blocks", n.at = "between", Set(h, n)
      PROVE  WritesOK'
  <2>1. n.i - 1 = p + 1 /\ p + 1 <= Len(r.ops)
    BY <1>2, <1>5, <1>6
  <2>2. ProgramOK(n, mem')
    BY <1>6, <2>1 DEF ProgramOK
  <2>3. Settled(r.ops, p + 1)
    BY <1>2, SettledGrows
  <2>4. WriteOK(n, mem')
    BY <1>1, <1>2, <1>6, <2>1, <2>2, <2>3 DEF WriteOK
  <2> QED  BY <1>1, <1>6, <2>4, WritersKeep
\* Its op failed, whatever it left on the tag.
<1>7. ASSUME HasOp(r), Elsewhere(mem, mem', Current(r).tag),
             NEW n, n.kind = r.kind, n.ops = r.ops, n.start = r.start,
             n.errs = r.errs \cup {r.i}, n.i = r.i + 1, n.part = "blocks",
             n.at = "between", Set(h, n)
      PROVE  WritesOK'
  <2>1. PICK now : /\ Programmed(r.ops, p, r.errs, r.start, mem, now)
                   /\ now \subseteq {r.ops[p + 1].tag}
    BY <1>3, <1>4, <1>5, <1>7
  <2>2. Programmed(r.ops, p + 1, r.errs \cup {p + 1}, r.start, mem', {})
    BY <1>3, <1>5, <1>7, <2>1, ProgrammedFails
  <2>3. r.errs \cup {p + 1} \subseteq 1 .. (p + 1) /\ n.errs = r.errs \cup {p + 1}
    BY <1>2, <1>3, <1>7
  <2> QED  BY <1>6, <1>7, <2>2, <2>3
<1>8. CASE ProgramRefuses(h)
  <2>1. HasOp(r) /\ r.part = "blocks" /\ mem' = mem /\ r.at = "between"
    BY <1>2, <1>3, <1>8 DEF ProgramRefuses, Refused
  <2>2. PICK n : n = [Failing(r) EXCEPT !.i = @ + 1]
    OBVIOUS
  <2>3. /\ n.kind = r.kind /\ n.ops = r.ops /\ n.start = r.start /\ n.i = r.i + 1
        /\ n.part = r.part /\ n.at = r.at /\ n.errs = r.errs \cup {r.i}
    BY <2>2 DEF Failing, Request
  <2>4. Set(h, n)
    BY <1>2, <1>8, <2>2 DEF ProgramRefuses
  <2> QED  BY <1>7, <2>1, <2>3, <2>4 DEF Elsewhere
<1>9. ASSUME r.at = "calling"
      PROVE  /\ HasOp(r) /\ Current(r).tag \in Tags /\ Current(r).val \in Datas
             /\ AfiOf[Current(r).val] \in Afis
  <2>1. HasOp(r) /\ ~Refused(r) /\ WellFormed(r)
    BY <1>1, <1>2, <1>9, Current_Request DEF CallOK
  <2>2. Current(r).tag \in Tags /\ Current(r).val \in Datas
    BY <1>1, <1>2, <2>1, OpType
  <2> QED  BY <2>1, <2>2, RfidServerAssumption
<1>10. CASE ProgramBlocks(h)
  <2>1. r.at = "calling" /\ r.part = "blocks"
    BY <1>2, <1>10 DEF ProgramBlocks
  <2>2. PICK o \in DataOutcomes(Current(r).tag, Current(r).val) :
          /\ mem' = o[2]
          /\ \/ o[1] /\ Set(h, [r EXCEPT !.at = "between", !.part = "afi"])
             \/ Set(h, [Failing(r) EXCEPT !.at = "between", !.i = @ + 1])
    BY <1>2, <1>10 DEF ProgramBlocks
  <2>3. /\ Elsewhere(mem, mem', Current(r).tag)
        /\ o[1] => mem'.data[Current(r).tag] = Current(r).val
    BY <1>9, <2>1, <2>2, DataOutcome
  <2>4. CASE o[1] /\ Set(h, [r EXCEPT !.at = "between", !.part = "afi"])
    <3>1. PICK n : n = [r EXCEPT !.at = "between", !.part = "afi"]
      OBVIOUS
    <3>2. /\ n.kind = r.kind /\ n.ops = r.ops /\ n.start = r.start /\ n.i = r.i
          /\ n.part = "afi" /\ n.at = "between" /\ n.errs = r.errs
      BY <3>1 DEF Request
    <3>3. Current(n) = Current(r) /\ HasOp(n) = HasOp(r) /\ Refused(n) = Refused(r)
      BY <3>2 DEF Current, HasOp, Refused
    <3>4. Programmed(r.ops, p, r.errs, r.start, mem', {Current(r).tag})
      BY <1>3, <1>4, <2>1, <2>3, ProgrammedHalf
    <3>5. ~Refused(r)
      BY <1>1, <1>2, <2>1, Current_Request DEF CallOK, HasOp
    <3>6. ProgramOK(n, mem')
      BY <1>2, <1>3, <1>9, <2>1, <2>3, <2>4, <3>2, <3>3, <3>4, <3>5 DEF ProgramOK
    <3>7. WriteOK(n, mem')
      BY <1>1, <1>2, <3>2, <3>6 DEF WriteOK
    <3> QED  BY <1>1, <2>4, <3>1, <3>7, WritersKeep
  <2>5. CASE Set(h, [Failing(r) EXCEPT !.at = "between", !.i = @ + 1])
    <3>1. PICK n : n = [Failing(r) EXCEPT !.at = "between", !.i = @ + 1]
      OBVIOUS
    <3>2. /\ n.kind = r.kind /\ n.ops = r.ops /\ n.start = r.start /\ n.i = r.i + 1
          /\ n.part = r.part /\ n.at = "between" /\ n.errs = r.errs \cup {r.i}
      BY <3>1 DEF Failing, Request
    <3> QED  BY <1>7, <1>9, <2>1, <2>3, <2>5, <3>1, <3>2
  <2> QED  BY <2>2, <2>4, <2>5
<1>11. CASE ProgramAfi(h)
  <2>1. r.at = "calling" /\ r.part = "afi"
    BY <1>2, <1>11 DEF ProgramAfi
  <2>2. PICK next : next = [r EXCEPT !.at = "between", !.part = "blocks", !.i = @ + 1]
    OBVIOUS
  <2>3. /\ next.kind = r.kind /\ next.ops = r.ops /\ next.start = r.start
        /\ next.i = r.i + 1 /\ next.part = "blocks" /\ next.at = "between"
        /\ next.errs = r.errs
    BY <2>2 DEF Request
  <2>4. PICK fail : fail = [next EXCEPT !.errs = Failing(r).errs]
    OBVIOUS
  <2>5. /\ fail.kind = r.kind /\ fail.ops = r.ops /\ fail.start = r.start
        /\ fail.i = r.i + 1 /\ fail.part = "blocks" /\ fail.at = "between"
        /\ fail.errs = r.errs \cup {r.i}
    BY <2>2, <2>4 DEF Failing, Request
  <2>6. PICK o \in AfiOutcomes(Current(r).tag, AfiOf[Current(r).val]) :
          mem' = o[2] /\ ((o[1] /\ Set(h, next)) \/ Set(h, fail))
    BY <1>2, <1>11, <2>2, <2>4 DEF ProgramAfi
  <2>7. /\ mem'.data = mem.data /\ Elsewhere(mem, mem', Current(r).tag)
        /\ o[1] => mem'.afi[Current(r).tag] = AfiOf[Current(r).val]
    BY <1>9, <2>1, <2>6, AfiOutcome
  <2>8. CASE o[1] /\ Set(h, next)
    <3>1. Holds(mem', Current(r))
      BY <1>3, <1>9, <2>1, <2>7, <2>8 DEF Holds
    <3>2. Programmed(r.ops, p + 1, r.errs, r.start, mem', {})
      BY <1>3, <1>4, <1>5, <1>9, <2>1, <2>7, <3>1, ProgrammedLands
    <3>3. r.errs \subseteq 1 .. (p + 1)
      BY <1>3
    <3> QED  BY <1>6, <1>9, <2>1, <2>3, <2>8, <3>2, <3>3
  <2>9. CASE Set(h, fail)
    BY <1>7, <1>9, <2>1, <2>5, <2>7, <2>9
  <2> QED  BY <2>6, <2>8, <2>9
<1>12. CASE Finish(h)
  <2>1. PICK n : n = [r EXCEPT !.at = "unlock", !.out = IF r.errs = {} THEN "ok" ELSE "err"]
    OBVIOUS
  <2>2. Set(h, n) /\ mem' = mem /\ ~HasOp(r)
    BY <1>1, <1>2, <1>12, <2>1 DEF Finish
  <2>3. /\ n.kind = r.kind /\ n.ops = r.ops /\ n.start = r.start /\ n.i = r.i
        /\ n.part = r.part /\ n.at = "unlock" /\ n.errs = r.errs
        /\ n.out = IF r.errs = {} THEN "ok" ELSE "err"
    BY <2>1 DEF Request
  <2>4. r.i - 1 = Len(r.ops) /\ r.part = "blocks"
    BY <1>1, <1>2, <1>3, <2>2 DEF HasOp, Request
  <2>5. ProgramOK(n, mem')
    BY <1>2, <1>3, <1>4, <2>2, <2>3, <2>4 DEF ProgramOK
  <2>6. WriteOK(n, mem')
    BY <1>1, <1>2, <2>3, <2>5 DEF WriteOK
  <2> QED  BY <1>1, <2>2, <2>6, WritersKeep
<1> QED  BY <1>8, <1>10, <1>11, <1>12

\* A driver call of a scan changes neither the tags nor the kind of request.
LEMMA ScanReads ==
  ASSUME IInv, WritesOK, NEW h \in Handlers,
         InventoryWithReset(h) \/ NextTag(h) \/ ScanAfi(h) \/ ScanBlocks(h)
  PROVE  /\ req[h].kind = "scan" /\ mem' = mem
         /\ \E n : Set(h, n) /\ n.kind = "scan"
<1>1. PICK r \in Request : r = req[h] /\ WriteOK(r, mem)
  BY Current_Request DEF WritesOK
<1>2. mem' = mem
  BY DEF InventoryWithReset, NextTag, ScanAfi, ScanBlocks
<1>3. CASE InventoryWithReset(h)
  <2>1. r.at = "calling" /\ r.part = "inv"
    BY <1>1, <1>3 DEF InventoryWithReset
  <2>2. r.kind = "scan"
    BY <1>1, <2>1 DEF WriteOK, SecureOK, ProgramOK, Inside, Request
  <2>3. Found(h) \/ \E c \in BOOLEAN :
                      Set(h, [r EXCEPT !.at = "unlock", !.out = "err", !.calm = c])
    BY <1>1, <1>3, CountFailureEffect DEF InventoryWithReset
  <2>4. CASE Found(h)
    <3>1. Set(h, [r EXCEPT !.at = "between", !.part = "afi", !.todo = field])
      BY <1>1, <2>4 DEF Found
    <3>2. [r EXCEPT !.at = "between", !.part = "afi", !.todo = field].kind = r.kind
      BY DEF Request
    <3> QED  BY <1>1, <1>2, <2>2, <3>1, <3>2
  <2>5. ASSUME NEW c \in BOOLEAN,
               Set(h, [r EXCEPT !.at = "unlock", !.out = "err", !.calm = c])
        PROVE  \E n : Set(h, n) /\ n.kind = "scan"
    <3>1. [r EXCEPT !.at = "unlock", !.out = "err", !.calm = c].kind = r.kind
      BY DEF Request
    <3> QED  BY <2>2, <2>5, <3>1
  <2> QED  BY <1>1, <1>2, <2>2, <2>3, <2>4, <2>5
<1>4. CASE NextTag(h)
  <2>1. PICK t : Set(h, [r EXCEPT !.cur = t, !.todo = @ \ {t}])
    BY <1>1, <1>4 DEF NextTag
  <2>2. [r EXCEPT !.cur = t, !.todo = @ \ {t}].kind = r.kind
    BY DEF Request
  <2> QED  BY <1>1, <1>2, <1>4, <2>1, <2>2 DEF NextTag
<1>5. CASE ScanAfi(h)
  <2>1. PICK v : Set(h, [r EXCEPT !.at = "between", !.part = "blocks", !.sec = v])
    BY <1>1, <1>5 DEF ScanAfi
  <2>2. [r EXCEPT !.at = "between", !.part = "blocks", !.sec = v].kind = r.kind
    BY DEF Request
  <2> QED  BY <1>1, <1>2, <1>5, <2>1, <2>2 DEF ScanAfi
<1>6. CASE ScanBlocks(h)
  <2>1. PICK x : Set(h, [r EXCEPT !.at = "between", !.part = "afi", !.cur = NoVal,
                                  !.sec = NoVal, !.items = @ \cup {x}])
    BY <1>1, <1>6 DEF ScanBlocks
  <2>2. [r EXCEPT !.at = "between", !.part = "afi", !.cur = NoVal,
                  !.sec = NoVal, !.items = @ \cup {x}].kind = r.kind
    BY DEF Request
  <2> QED  BY <1>1, <1>2, <1>6, <2>1, <2>2 DEF ScanBlocks
<1> QED  BY <1>3, <1>4, <1>5, <1>6

LEMMA QuietWrites ==
  ASSUME IInv, WritesOK, NEW h \in Handlers,
         Arrive(h) \/ Lock(h) \/ Unlock(h) \/ Resume(h) \/ Call(h)
  PROVE  WritesOK'
<1>1. PICK r \in Request : r = req[h] /\ WriteOK(r, mem)
  BY Current_Request DEF WritesOK
<1>2. mem' = mem
  BY DEF Arrive, Lock, Unlock, Resume, Call
<1>3. CASE Arrive(h)
  <2>1. PICK q \in Requests : Set(h, NewRequest(q))
    BY <1>3 DEF Arrive
  <2>2. PICK n : n = NewRequest(q)
    OBVIOUS
  <2>3. /\ n.kind = q.kind /\ n.part = FirstPart(q.kind) /\ n.errs = {} /\ n.i = 1
        /\ n.at = "want"
    BY <2>2 DEF NewRequest
  <2>4. WriteOK(n, mem')
    BY <2>3 DEF WriteOK, Inside
  <2> QED  BY <1>2, <2>1, <2>2, <2>4, WritersKeep
<1>4. ASSUME Set(h, Answered(r)) PROVE WritesOK'
  <2>1. Answered(r).at = "idle"
    BY AnsweredOK DEF IInv, TypeOK
  <2> QED  BY <1>2, <1>4, <2>1, Resting, WritersKeep
<1>5. CASE Lock(h)
  <2>1. PICK n : n = [r EXCEPT !.at = "between", !.start = mem]
    OBVIOUS
  <2>2. Set(h, n) /\ r.at = "want"
    BY <1>1, <1>5, <2>1 DEF Lock
  <2>3. /\ n.kind = r.kind /\ n.ops = r.ops /\ n.i = r.i /\ n.part = r.part
        /\ n.errs = r.errs /\ n.start = mem /\ n.at = "between"
    BY <2>1 DEF Request
  <2>4. CASE r.kind = "scan"
    BY <1>2, <2>2, <2>3, <2>4, Resting, WritersKeep
  <2>5. CASE r.kind # "scan"
    <3>1. n.i = 1 /\ n.errs = {} /\ n.part = FirstPart(r.kind)
      BY <1>1, <2>2, <2>3, <2>5 DEF WriteOK
    <3>2. FirstPart("secure") = "afi" /\ FirstPart("program") = "blocks"
      BY Zenon DEF FirstPart
    <3>3. n.i - 1 = 0 /\ Settled(n.ops, 0) /\ 0 <= Len(n.ops)
      BY <2>3, <3>1, NoWords DEF Request
    <3>4. Secured(n.ops, 0, mem, mem', {}) /\ Programmed(n.ops, 0, {}, mem, mem', {})
      BY <1>2 DEF Secured, Programmed
    <3>5. n.kind = "secure" => SecureOK(n, mem')
      BY <2>3, <3>1, <3>2, <3>3, <3>4 DEF SecureOK
    <3>6. n.kind = "program" => ProgramOK(n, mem')
      BY <2>3, <3>1, <3>2, <3>3, <3>4 DEF ProgramOK
    <3>7. WriteOK(n, mem')
      BY <2>3, <3>3, <3>5, <3>6 DEF WriteOK
    <3> QED  BY <1>2, <2>2, <3>7, WritersKeep
  <2> QED  BY <2>4, <2>5
<1>6. CASE Call(h)
  <2>1. PICK n : n = [r EXCEPT !.at = "calling"]
    OBVIOUS
  <2>2. Set(h, n) /\ r.at = "between"
    BY <1>1, <1>6, <2>1 DEF Call
  <2>3. /\ n.kind = r.kind /\ n.ops = r.ops /\ n.i = r.i /\ n.part = r.part
        /\ n.errs = r.errs /\ n.start = r.start /\ n.out = r.out /\ n.at = "calling"
    BY <2>1 DEF Request
  <2>4. WriteOK(n, mem')
    BY <1>1, <1>2, <2>2, <2>3, SameWork
  <2> QED  BY <1>2, <2>2, <2>4, WritersKeep
<1>7. CASE Unlock(h)
  <2>1. CASE r.kind = "scan" /\ r.out = "err"
    <3>1. Set(h, [r EXCEPT !.at = "pause", !.start = NoVal])
      BY <1>1, <1>7, <2>1 DEF Unlock
    <3>2. [r EXCEPT !.at = "pause", !.start = NoVal].kind = "scan"
      BY <2>1 DEF Request
    <3> QED  BY <1>2, <3>1, <3>2, Resting, WritersKeep
  <2>2. CASE ~(r.kind = "scan" /\ r.out = "err")
    BY <1>1, <1>4, <1>7, <2>2 DEF Unlock
  <2> QED  BY <2>1, <2>2
<1>8. CASE Resume(h)
  <2>1. CASE MayRetry(r)
    <3>1. Set(h, [r EXCEPT !.at = "want", !.try = @ + 1, !.out = "none"]) /\ r.at = "pause"
      BY <1>1, <1>8, <2>1 DEF Resume
    <3>2. r.kind = "scan"
      BY <1>1, <3>1 DEF WriteOK
    <3>3. [r EXCEPT !.at = "want", !.try = @ + 1, !.out = "none"].kind = "scan"
      BY <3>2 DEF Request
    <3> QED  BY <1>2, <3>1, <3>3, Resting, WritersKeep
  <2>2. CASE ~MayRetry(r)
    BY <1>1, <1>4, <1>8, <2>2 DEF Resume
  <2> QED  BY <2>1, <2>2
<1> QED  BY <1>3, <1>5, <1>6, <1>7, <1>8

LEMMA WritesStep == IInv /\ WritesOK /\ [Next]_vars => WritesOK'
<1> SUFFICES ASSUME IInv, WritesOK, [Next]_vars PROVE WritesOK'
  OBVIOUS
<1>1. ASSUME NEW h \in Handlers, Arrive(h) \/ Lock(h) \/ Step(h) PROVE WritesOK'
  <2>1. CASE Arrive(h) \/ Lock(h) \/ Unlock(h) \/ Resume(h) \/ Call(h)
    BY <2>1, QuietWrites
  <2>2. CASE InventoryWithReset(h) \/ NextTag(h) \/ ScanAfi(h) \/ ScanBlocks(h)
    BY <2>2, ScanReads, Resting, WritersKeep
  <2>3. CASE SecureTag(h) \/ SecureRefuses(h) \/ ProgramRefuses(h) \/ ProgramBlocks(h)
              \/ ProgramAfi(h)
    BY <2>3, SecureWrites, ProgramWrites
  <2>4. CASE Finish(h)
    <3>1. PICK r \in Request : r = req[h]
      BY Current_Request
    <3>2. CASE r.kind = "scan"
      <4>1. Set(h, [r EXCEPT !.at = "unlock", !.out = IF r.errs = {} THEN "ok" ELSE "err"])
            /\ mem' = mem
        BY <2>4, <3>1 DEF Finish
      <4>2. [r EXCEPT !.at = "unlock", !.out = IF r.errs = {} THEN "ok" ELSE "err"].kind
              = "scan"
        BY <3>2 DEF Request
      <4> QED  BY <4>1, <4>2, Resting, WritersKeep
    <3>3. r.kind \in {"scan", "secure", "program"}
      BY DEF Request
    <3> QED  BY <2>4, <3>1, <3>2, <3>3, SecureWrites, ProgramWrites
  <2> QED  BY <1>1, <2>1, <2>2, <2>3, <2>4 DEF Step
<1>2. CASE MoveTags \/ Plug \/ Start \/ UNCHANGED vars
  <2>1. req' = req /\ mem' = mem
    BY <1>2 DEF MoveTags, Plug, Start, vars
  <2> QED  BY <2>1 DEF WritesOK
<1>3. CASE Unplug
  <2>1. ASSUME NEW h \in Handlers PROVE WriteOK(req'[h], mem')
    <3>1. PICK r \in Request : r = req[h] /\ WriteOK(r, mem)
      BY Current_Request DEF WritesOK
    <3>2. PICK n : n = [r EXCEPT !.calm = FALSE]
      OBVIOUS
    <3>3. /\ n.kind = r.kind /\ n.ops = r.ops /\ n.i = r.i /\ n.part = r.part
          /\ n.errs = r.errs /\ n.start = r.start /\ n.out = r.out /\ n.at = r.at
      BY <3>2 DEF Request
    <3>4. mem' = mem /\ (req'[h] = r \/ req'[h] = n)
      BY <1>3, <3>1, <3>2 DEF Unplug
    <3> QED  BY <3>1, <3>3, <3>4, SameWork
  <2> QED  BY <2>1 DEF WritesOK
<1>4. CASE Crash
  <2>1. \A h \in Handlers : req'[h] = Idle
    BY <1>4 DEF Crash
  <2>2. Idle.at = "idle"
    BY IdleOK DEF IInv, TypeOK
  <2> QED  BY <2>1, <2>2, Resting DEF WritesOK
<1> QED  BY <1>1, <1>2, <1>3, <1>4 DEF Next

LEMMA WritesInitial == Init => WritesOK
  BY IdleOK, Resting DEF Init, WritesOK

-----------------------------------------------------------------------------
(***************************************************************************)
(* What the answers say.                                                   *)
(***************************************************************************)
WInv == IInv /\ WritesOK

LEMMA WInitial == Init => WInv
  BY Initial, WritesInitial DEF WInv

LEMMA WInductive == WInv /\ [Next]_vars => WInv'
  BY Inductive, WritesStep DEF WInv

LEMMA SecureAnswer == WInv => SecureIsExact
<1> SUFFICES ASSUME WInv, NEW h \in Handlers, Reporting(h, "secure")
             PROVE  LET r    == req[h]
                        done == r.i - 1
                        hit  == {r.ops[k].tag : k \in 1 .. done}
                        now  == IF r.out = "err" THEN {Current(r).tag} ELSE {}
                    IN  /\ r.out = "ok" => done = Len(r.ops)
                        /\ mem.data = r.start.data
                        /\ \A t \in Tags \ now :
                             mem.afi[t] = IF t \in hit THEN r.ops[LastOn(r, done, t)].val
                                          ELSE r.start.afi[t]
  BY Zenon DEF SecureIsExact
<1>1. PICK r \in Request, p \in Nat :
        /\ r = req[h] /\ p = r.i - 1 /\ p + 1 = r.i /\ p <= Len(r.ops)
        /\ \A k \in 1 .. Len(r.ops) : r.ops[k].tag \in Tags
        /\ Settled(r.ops, p)
        /\ SecureOK(r, mem)
  BY Writer DEF WInv, Reporting, Inside
<1> DEFINE now == IF r.out = "err" THEN {Current(r).tag} ELSE {}
<1>2. /\ r.at = "unlock" /\ (r.out = "ok" => p = Len(r.ops))
      /\ Secured(r.ops, p, r.start, mem, now)
  BY <1>1 DEF Reporting, SecureOK
<1>3. ASSUME NEW t \in Tags \ now
      PROVE  mem.afi[t] = IF t \in Hit(r.ops, p) THEN r.ops[LastOn(r, p, t)].val
                          ELSE r.start.afi[t]
  <2>1. CASE t \in Hit(r.ops, p)
    <3>1. PICK k \in 1 .. p : /\ k = LastOn(r, p, t) /\ LastWord(r.ops, p, k)
                             /\ r.ops[k].tag = t
      BY <1>1, <2>1, LastOnIsLast
    <3> QED  BY <1>2, <1>3, <2>1, <3>1 DEF Secured
  <2>2. CASE t \notin Hit(r.ops, p)
    BY <1>2, <1>3, <2>2 DEF Secured
  <2> QED  BY <2>1, <2>2
<1>4. mem.data = r.start.data
  BY <1>2 DEF Secured
<1>5. Hit(r.ops, p) = {r.ops[k].tag : k \in 1 .. p}
  BY DEF Hit
<1> QED  BY <1>1, <1>2, <1>3, <1>4, <1>5

\* The answer of /secure is exact: after OK each named tag has the AFI byte of
\* the last op on it; after an error the ops before the failing one are on
\* their tags, and nothing but the tag of the failing op is in doubt.
THEOREM SecuredAsAnswered == Spec => []SecureIsExact
  BY WInitial, WInductive, SecureAnswer, PTL DEF Spec

LEMMA ProgramAnswer == WInv => ProgramIsHonest
<1> SUFFICES ASSUME WInv, NEW h \in Handlers, Reporting(h, "program")
             PROVE  LET r == req[h] IN
                    /\ r.out = "ok" <=> r.errs = {}
                    /\ \A t \in Tags :
                         IF t \in Named(r)
                         THEN LET k == LastOn(r, Len(r.ops), t)
                              IN  k \notin r.errs => /\ mem.data[t] = r.ops[k].val
                                                     /\ mem.afi[t] = AfiOf[r.ops[k].val]
                         ELSE /\ mem.data[t] = r.start.data[t]
                              /\ mem.afi[t] = r.start.afi[t]
  BY Zenon DEF ProgramIsHonest
<1>1. PICK r \in Request, p \in Nat :
        /\ r = req[h] /\ p = r.i - 1 /\ p + 1 = r.i /\ p <= Len(r.ops)
        /\ \A k \in 1 .. Len(r.ops) : r.ops[k].tag \in Tags
        /\ Settled(r.ops, p)
        /\ ProgramOK(r, mem)
  BY Writer DEF WInv, Reporting, Inside
<1>2. /\ p = Len(r.ops) /\ (r.out = "ok" <=> r.errs = {})
      /\ Programmed(r.ops, p, r.errs, r.start, mem, {})
  BY <1>1 DEF Reporting, ProgramOK
<1>3. Named(r) = Hit(r.ops, p)
  <2>1. DOMAIN r.ops = 1 .. p
    BY <1>2 DEF Request
  <2> QED  BY <2>1 DEF Named, Hit
<1>4. ASSUME NEW t \in Tags, t \in Named(r), NEW k, k = LastOn(r, Len(r.ops), t),
             k \notin r.errs
      PROVE  mem.data[t] = r.ops[k].val /\ mem.afi[t] = AfiOf[r.ops[k].val]
  <2>1. k \in 1 .. p /\ LastWord(r.ops, p, k) /\ r.ops[k].tag = t
    <3>1. k = LastOn(r, p, t) /\ t \in Hit(r.ops, p)
      BY <1>2, <1>3, <1>4
    <3> QED  BY <1>1, <3>1, LastOnIsLast
  <2> QED  BY <1>2, <1>4, <2>1 DEF Programmed, Holds
<1>5. ASSUME NEW t \in Tags, t \notin Named(r)
      PROVE  mem.data[t] = r.start.data[t] /\ mem.afi[t] = r.start.afi[t]
  BY <1>2, <1>3, <1>5 DEF Programmed
<1> QED  BY <1>1, <1>2, <1>4, <1>5

\* The answer of /program: a tag whose last op is not among the errors holds
\* its whole content and the AFI byte of that content, a tag no op names is as
\* it was, and OK means that there is no error.
THEOREM ProgrammedAsAnswered == Spec => []ProgramIsHonest
  BY WInitial, WInductive, ProgramAnswer, PTL DEF Spec

-----------------------------------------------------------------------------
(***************************************************************************)
(* Torn tags.                                                              *)
(***************************************************************************)
LEMMA TornKeeps ==
  ASSUME IInv, TornTagsAreSuspect, NEW h \in Handlers, NEW n, Set(h, n),
         suspect' = suspect,
         Working(h) => /\ n.kind = "program" /\ n.ops = req[h].ops
                       /\ n.at \in Inside,
         \A t \in Tags : mem'.data[t] = Torn =>
           mem.data[t] = Torn \/ (Working(h) /\ t \in Named(req[h]))
  PROVE  TornTagsAreSuspect'
<1>1. \A g \in Handlers : req'[g] = IF g = h THEN n ELSE req[g]
  BY DEF Set, IInv, RequestsOK
<1>2. ASSUME NEW g \in Handlers, NEW t \in Tags, Working(g), t \in Named(req[g])
      PROVE  Working(g)' /\ t \in Named(req'[g])
  <2>1. CASE g = h
    <3>1. Named(n) = Named(req[h]) /\ req'[g] = n
      BY <1>1, <1>2, <2>1 DEF Named
    <3> QED  BY <1>2, <2>1, <3>1 DEF Working
  <2>2. CASE g # h
    BY <1>1, <1>2, <2>2 DEF Working
  <2> QED  BY <2>1, <2>2
<1>3. ASSUME NEW t \in Tags, mem'.data[t] = Torn
      PROVE  t \in suspect \/ \E g \in Handlers : Working(g) /\ t \in Named(req[g])
  BY <1>3 DEF TornTagsAreSuspect
<1> QED  BY <1>2, <1>3 DEF TornTagsAreSuspect

\* A step that changes no content, of a handler that goes on if it programs.
LEMMA TornUntouched ==
  ASSUME WInv, TornTagsAreSuspect, NEW h \in Handlers,
         \/ Arrive(h) \/ Lock(h) \/ Resume(h) \/ Call(h) \/ Finish(h)
         \/ InventoryWithReset(h) \/ NextTag(h) \/ ScanAfi(h) \/ ScanBlocks(h)
         \/ SecureTag(h) \/ SecureRefuses(h) \/ ProgramRefuses(h) \/ ProgramAfi(h)
  PROVE  TornTagsAreSuspect'
<1>1. PICK r \in Request : r = req[h] /\ WellFormed(r) /\ CallOK(r)
  BY Current_Request DEF WInv
<1>2. suspect' = suspect
  BY DEF Arrive, Lock, Resume, Call, Finish, InventoryWithReset, NextTag, ScanAfi,
         ScanBlocks, SecureTag, SecureRefuses, ProgramRefuses, ProgramAfi
<1>3. mem'.data = mem.data
  <2>1. CASE SecureTag(h)
    <3>1. Current(r).tag \in Tags /\ Current(r).val \in Afis
      BY <1>1, <2>1, OpType DEF SecureTag, CallOK
    <3> QED  BY <1>1, <2>1, <3>1, AfiOutcome DEF SecureTag, WInv
  <2>2. CASE ProgramAfi(h)
    <3>1. Current(r).tag \in Tags /\ AfiOf[Current(r).val] \in Afis
      BY <1>1, <2>2, OpType, RfidServerAssumption DEF ProgramAfi, CallOK
    <3> QED  BY <1>1, <2>2, <3>1, AfiOutcome DEF ProgramAfi, WInv
  <2>3. CASE ~SecureTag(h) /\ ~ProgramAfi(h)
    BY <2>3 DEF Arrive, Lock, Resume, Call, Finish, InventoryWithReset, NextTag, ScanAfi,
                ScanBlocks, SecureRefuses, ProgramRefuses
  <2> QED  BY <2>1, <2>2, <2>3
<1>4. \E n : /\ Set(h, n)
             /\ Working(h) => /\ n.kind = "program" /\ n.ops = req[h].ops
                              /\ n.at \in Inside
  <2>1. CASE Arrive(h) \/ Lock(h) \/ Resume(h)
    <3>1. ~Working(h)
      BY <2>1 DEF Arrive, Lock, Resume, Working, Inside
    <3>2. \E n : Set(h, n)
      BY <2>1 DEF Arrive, Lock, Resume
    <3> QED  BY <3>1, <3>2
  <2>2. CASE InventoryWithReset(h) \/ NextTag(h) \/ ScanAfi(h) \/ ScanBlocks(h)
    BY <2>2, ScanReads DEF WInv, Working
  <2>3. CASE Call(h)
    <3>1. PICK n : n = [r EXCEPT !.at = "calling"]
      OBVIOUS
    <3>2. n.kind = r.kind /\ n.ops = r.ops /\ n.at = "calling" /\ Set(h, n)
      BY <1>1, <2>3, <3>1 DEF Call, Request
    <3> QED  BY <1>1, <3>2 DEF Working, Inside
  <2>4. CASE SecureTag(h) \/ SecureRefuses(h) \/ ProgramRefuses(h) \/ ProgramAfi(h)
              \/ Finish(h)
    <3>1. PICK n : Set(h, n) /\ Continues(req[h], n)
      BY <2>4, WriteContinues, EndContinues DEF WInv
    <3> QED  BY <3>1 DEF Continues, Working, Inside
  <2> QED  BY <2>1, <2>2, <2>3, <2>4
<1> QED  BY <1>2, <1>3, <1>4, TornKeeps DEF WInv

LEMMA TornByBlocks ==
  ASSUME WInv, TornTagsAreSuspect, NEW h \in Handlers, ProgramBlocks(h)
  PROVE  TornTagsAreSuspect'
<1>1. PICK r \in Request : r = req[h] /\ WellFormed(r) /\ CallOK(r)
  BY Current_Request DEF WInv
<1>2. r.at = "calling" /\ r.kind = "program" /\ suspect' = suspect
  BY <1>1 DEF ProgramBlocks
<1>3. HasOp(r) /\ Current(r).tag \in Tags /\ Current(r).val \in Datas
  BY <1>1, <1>2, OpType DEF CallOK
<1>4. Elsewhere(mem, mem', Current(r).tag)
  BY <1>1, <1>3, DataOutcome DEF ProgramBlocks, WInv
<1>5. Current(r).tag \in Named(r)
  <2>1. r.i \in DOMAIN r.ops
    BY <1>3 DEF HasOp, Request
  <2> QED  BY <2>1 DEF Current, Named
<1>6. \A t \in Tags : mem'.data[t] = Torn => mem.data[t] = Torn \/ t \in Named(r)
  BY <1>4, <1>5 DEF Elsewhere
<1>7. PICK n : Set(h, n) /\ Continues(r, n)
  BY <1>1, WriteContinues DEF WInv
<1>8. Working(h) /\ n.kind = "program" /\ n.ops = req[h].ops /\ n.at \in Inside
  BY <1>1, <1>2, <1>7 DEF Continues, Working, Inside
<1> QED  BY <1>1, <1>2, <1>6, <1>7, <1>8, TornKeeps DEF WInv

\* A /program that answers OK has whole contents on all the tags it named.
LEMMA TornAtUnlock ==
  ASSUME WInv, TornTagsAreSuspect, NEW h \in Handlers, Unlock(h)
  PROVE  TornTagsAreSuspect'
<1>1. PICK r \in Request : r = req[h] /\ r.at = "unlock"
  BY Current_Request DEF WInv, Unlock
<1>2. mem' = mem
  BY DEF Unlock
<1>3. PICK n : Set(h, n)
  BY DEF Unlock
<1>4. \A g \in Handlers : g # h => req'[g] = req[g]
  BY <1>3 DEF Set, WInv, IInv, RequestsOK
<1>5. ASSUME NEW t \in Tags, mem'.data[t] = Torn
      PROVE  t \in suspect' \/ \E g \in Handlers : Working(g)' /\ t \in Named(req'[g])
  <2>1. t \in suspect \/ \E g \in Handlers : Working(g) /\ t \in Named(req[g])
    BY <1>2, <1>5 DEF TornTagsAreSuspect
  <2>2. ASSUME NEW g \in Handlers, g # h, Working(g), t \in Named(req[g])
        PROVE  Working(g)' /\ t \in Named(req'[g])
    BY <1>4, <2>2 DEF Working
  <2>3. CASE r.kind # "program"
    <3>1. ~Working(h) /\ suspect' = suspect
      BY <1>1, <2>3 DEF Working, Unlock
    <3> QED  BY <2>1, <2>2, <3>1
  <2>4. CASE r.kind = "program" /\ r.out # "ok"
    <3>1. suspect' = suspect \cup Named(r)
      BY <1>1, <2>4 DEF Unlock
    <3> QED  BY <1>1, <2>1, <2>2, <3>1
  <2>5. CASE r.kind = "program" /\ r.out = "ok"
    <3>1. suspect' = suspect \ Named(r)
      BY <1>1, <2>5 DEF Unlock
    <3>2. t \notin Named(r)
      <4> SUFFICES ASSUME t \in Named(r) PROVE FALSE
        OBVIOUS
      <4>1. PICK p \in Nat : p = r.i - 1 /\ Settled(r.ops, p) /\ ProgramOK(r, mem)
        BY <1>1, <2>5, Writer DEF WInv, Inside
      <4>2. p = Len(r.ops) /\ r.errs = {} /\ Programmed(r.ops, p, {}, r.start, mem, {})
        BY <1>1, <2>5, <4>1 DEF ProgramOK
      <4>3. t \in Hit(r.ops, p)
        BY <4>2 DEF Named, Hit, Request
      <4>4. PICK k \in 1 .. p : LastWord(r.ops, p, k) /\ r.ops[k].tag = t
        BY <4>1, <4>3 DEF Settled
      <4>5. mem.data[t] \in Datas
        BY <4>2, <4>4 DEF Programmed, Holds
      <4> QED  BY <1>2, <1>5, <4>5, TagMemoryAssumption
    <3> QED  BY <1>1, <2>1, <2>2, <3>1, <3>2
  <2> QED  BY <2>3, <2>4, <2>5
<1> QED  BY <1>5 DEF TornTagsAreSuspect

LEMMA TornStep == WInv /\ TornTagsAreSuspect /\ [Next]_vars => TornTagsAreSuspect'
<1> SUFFICES ASSUME WInv, TornTagsAreSuspect, [Next]_vars PROVE TornTagsAreSuspect'
  OBVIOUS
<1>1. ASSUME NEW h \in Handlers, Arrive(h) \/ Lock(h) \/ Step(h)
      PROVE  TornTagsAreSuspect'
  BY <1>1, TornUntouched, TornByBlocks, TornAtUnlock DEF Step
<1>2. CASE MoveTags \/ Plug \/ Start \/ UNCHANGED vars
  <2>1. req' = req /\ mem' = mem /\ suspect' = suspect
    BY <1>2 DEF MoveTags, Plug, Start, vars
  <2> QED  BY <2>1 DEF TornTagsAreSuspect, Working
<1>3. CASE Unplug
  <2>1. mem' = mem /\ suspect' = suspect
    BY <1>3 DEF Unplug
  <2>2. ASSUME NEW h \in Handlers
        PROVE  Working(h)' = Working(h) /\ Named(req'[h]) = Named(req[h])
    <3>1. PICK r \in Request : r = req[h]
      BY Current_Request DEF WInv
    <3>2. PICK n : n = [r EXCEPT !.calm = FALSE]
      OBVIOUS
    <3>3. n.kind = r.kind /\ n.at = r.at /\ n.ops = r.ops
      BY <3>2 DEF Request
    <3>4. req'[h] = r \/ req'[h] = n
      BY <1>3, <3>1, <3>2 DEF Unplug
    <3> QED  BY <3>1, <3>3, <3>4 DEF Working, Named
  <2> QED  BY <2>1, <2>2 DEF TornTagsAreSuspect
<1>4. CASE Crash
  <2>1. /\ mem' = mem
        /\ suspect' = suspect \cup UNION {Named(req[h]) : h \in {g \in Handlers : Working(g)}}
    BY <1>4 DEF Crash
  <2>2. ASSUME NEW t \in Tags, mem.data[t] = Torn PROVE t \in suspect'
    BY <2>1, <2>2 DEF TornTagsAreSuspect
  <2> QED  BY <2>1, <2>2 DEF TornTagsAreSuspect
<1> QED  BY <1>1, <1>2, <1>3, <1>4 DEF Next

LEMMA TornInitial == Init => TornTagsAreSuspect
<1> SUFFICES ASSUME Init, NEW t \in Tags PROVE mem.data[t] # Torn
  BY DEF TornTagsAreSuspect
<1>1. mem.data[t] \in Datas
  BY DEF Init
<1> QED  BY <1>1, TagMemoryAssumption

\* No tag is torn behind the operator's back: half a content is found only on a
\* tag that a /program request named which failed, died with the server, or is
\* still at work, whatever other requests, unpluggings and kills come between.
THEOREM TornTagsAreKnown == Spec => []TornTagsAreSuspect
<1> DEFINE TInv == WInv /\ TornTagsAreSuspect
<1>1. Init => TInv
  BY WInitial, TornInitial
<1>2. TInv /\ [Next]_vars => TInv'
  BY WInductive, TornStep
<1>3. TInv => TornTagsAreSuspect
  OBVIOUS
<1> QED  BY <1>1, <1>2, <1>3, PTL DEF Spec
=============================================================================
