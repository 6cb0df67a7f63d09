-------------------------- MODULE KohaRfidProofs --------------------------
(***************************************************************************)
(* Proofs about the page script, for any tags, pages and staff, one tab or *)
(* two, and any number of polls and writes at a time.                      *)
(***************************************************************************)
EXTENDS KohaRfid, FiniteSetTheorems, TLAPS

-----------------------------------------------------------------------------
(***************************************************************************)
(* The map rfid_afi and the history `checked'.  While the window of a      *)
(* check-in or a patron form is open, the entry is there with its submit   *)
(* time (the sweep spares it), and it is not older than its submit time    *)
(* (so that the hourly cleanup spares it too); the entry of a patron card  *)
(* is never taken for a book's.                                            *)
(***************************************************************************)
Numbers == Stale \in Nat /\ Dedup \in Nat /\ Retention \in Nat /\ Dedup < Retention

EntryInv(k, e, a) ==
  /\ e \in Entry \cup {NoVal} /\ a \in Age(Dedup)
  /\ a < Dedup => e # NoVal /\ e.submit # NoVal /\ e.submit <= a
  /\ e # NoVal => ((e.submit # NoVal /\ e.submit <= Dedup) => e.time <= e.submit)
  /\ (e # NoVal /\ k \notin Books) => e.sec = Patron

MapInv(m, c) ==
  /\ m = [k \in Keys |-> m[k]] /\ c = [k \in Keys |-> c[k]]
  /\ \A k \in Keys : EntryInv(k, m[k], c[k])

LEMMA TheNumbers == Numbers /\ NoVal \notin Int /\ NoVal \notin Entry
  BY KohaRfidAssumption, NoValAssumption DEF Numbers

LEMMA EntryFields ==
  ASSUME NEW e \in Entry
  PROVE  /\ e.sec \in {DA, D7, Patron, NoVal} /\ e.pending \in {DA, D7, NoVal}
         /\ e.submit \in Age(Dedup) \cup {NoVal} /\ e.time \in Age(Retention)
         /\ e.seen \in Age(Stale)
  BY DEF Entry

\* An entry whose fields other than its last_seen stay keeps the invariant.
LEMMA SameEntry ==
  ASSUME NEW k, NEW e, NEW f, NEW a, EntryInv(k, e, a), f \in Entry \cup {NoVal},
         e = NoVal <=> f = NoVal,
         e # NoVal => f.sec = e.sec /\ f.submit = e.submit /\ f.time = e.time
  PROVE  EntryInv(k, f, a)
  BY DEF EntryInv

LEMMA LastSeenKeeps ==
  ASSUME NEW m, NEW c, MapInv(m, c), NEW S
  PROVE  /\ MapInv(LastSeen(m, S), c)
         /\ \A k \in Keys : /\ m[k] = NoVal <=> LastSeen(m, S)[k] = NoVal
                            /\ m[k] # NoVal => LastSeen(m, S)[k].pending = m[k].pending
<1> DEFINE n == LastSeen(m, S)
<1>1. \A k \in Keys : EntryInv(k, m[k], c[k])
  BY DEF MapInv
<1>2. n = [k \in Keys |-> n[k]]
  BY DEF LastSeen
<1>3. ASSUME NEW k \in Keys
      PROVE  /\ EntryInv(k, n[k], c[k])
             /\ m[k] = NoVal <=> n[k] = NoVal
             /\ m[k] # NoVal => n[k].pending = m[k].pending
  <2> DEFINE e == m[k]
  <2>1. n[k] = IF k \in S /\ m[k] # NoVal THEN [m[k] EXCEPT !.seen = 0] ELSE m[k]
    BY DEF LastSeen
  <2>2. EntryInv(k, e, c[k])
    BY <1>1
  <2>3. CASE n[k] = m[k]
    BY <2>2, <2>3
  <2>4. CASE m[k] # NoVal /\ n[k] = [m[k] EXCEPT !.seen = 0]
    <3>1. e \in Entry /\ n[k] = [e EXCEPT !.seen = 0]
      BY <2>2, <2>4 DEF EntryInv
    <3>2. n[k] \in Entry /\ n[k].sec = e.sec /\ n[k].pending = e.pending
          /\ n[k].submit = e.submit /\ n[k].time = e.time
      <4>1. 0 \in Age(Stale)
        BY TheNumbers DEF Numbers, Age
      <4> QED BY <3>1, <4>1 DEF Entry
    <3> QED BY <2>2, <2>4, <3>2, SameEntry, TheNumbers
  <2> QED BY <2>1, <2>3, <2>4
<1> QED BY <1>2, <1>3 DEF MapInv

\* The sweep and the cleanup leave alone what is in a window.
LEMMA DropKeeps ==
  ASSUME NEW m, NEW c, MapInv(m, c), NEW n, n = [k \in Keys |-> n[k]],
         \A k \in Keys : n[k] = m[k] \/ (n[k] = NoVal /\ ~(c[k] < Dedup))
  PROVE  MapInv(n, c)
<1> SUFFICES ASSUME NEW k \in Keys PROVE EntryInv(k, n[k], c[k])
  BY DEF MapInv
<1> QED BY DEF MapInv, EntryInv

LEMMA SweepKeeps ==
  ASSUME NEW m, NEW c, MapInv(m, c)
  PROVE  /\ MapInv(SweepStale(m), c)
         /\ \A k \in Keys : SweepStale(m)[k] = m[k] \/ (SweepStale(m)[k] = NoVal /\ ~(c[k] < Dedup))
<1>1. SweepStale(m) = [k \in Keys |-> SweepStale(m)[k]]
  BY DEF SweepStale
<1>2. ASSUME NEW k \in Keys
      PROVE  SweepStale(m)[k] = m[k] \/ (SweepStale(m)[k] = NoVal /\ ~(c[k] < Dedup))
  <2>1. EntryInv(k, m[k], c[k])
    BY DEF MapInv
  <2>2. SweepStale(m)[k] = m[k] \/ (SweepStale(m)[k] = NoVal /\ m[k] # NoVal /\ ~Protected(m[k]))
    BY DEF SweepStale
  <2>3. ASSUME m[k] # NoVal, c[k] < Dedup PROVE Protected(m[k])
    <3> DEFINE x == m[k].submit
               a == c[k]
    <3>1. x # NoVal /\ x <= a /\ a \in Age(Dedup) /\ a < Dedup /\ x \in Age(Dedup) \cup {NoVal}
      BY <2>1, <2>3, EntryFields DEF EntryInv
    <3> HIDE DEF x, a
    <3>2. x < Dedup
      BY <3>1, TheNumbers, SMT DEF Age, Numbers
    <3> QED BY <3>1, <3>2 DEF Protected, x
  <2> QED BY <2>2, <2>3
<1> QED BY <1>1, <1>2, DropKeeps

LEMMA CleanupKeeps ==
  ASSUME NEW m, NEW c, MapInv(m, c)
  PROVE  /\ MapInv(Cleanup(m), c)
         /\ \A k \in Keys : Cleanup(m)[k] = m[k] \/ (Cleanup(m)[k] = NoVal /\ ~(c[k] < Dedup))
<1>1. Cleanup(m) = [k \in Keys |-> Cleanup(m)[k]]
  BY DEF Cleanup
<1>2. ASSUME NEW k \in Keys
      PROVE  Cleanup(m)[k] = m[k] \/ (Cleanup(m)[k] = NoVal /\ ~(c[k] < Dedup))
  <2>1. EntryInv(k, m[k], c[k])
    BY DEF MapInv
  <2>2. Cleanup(m)[k] = m[k] \/ (Cleanup(m)[k] = NoVal /\ m[k] # NoVal /\ m[k].time > Retention)
    BY DEF Cleanup
  <2>3. ASSUME m[k] # NoVal, c[k] < Dedup PROVE ~(m[k].time > Retention)
    <3> DEFINE x == m[k].submit
               y == m[k].time
               a == c[k]
    <3>1. /\ x # NoVal /\ x <= a /\ a \in Age(Dedup) /\ a < Dedup
          /\ x \in Age(Dedup) \cup {NoVal} /\ y \in Age(Retention)
          /\ (x # NoVal /\ x <= Dedup) => y <= x
      BY <2>1, <2>3, EntryFields DEF EntryInv
    <3> HIDE DEF x, a, y
    <3>2. ~(y > Retention)
      BY <3>1, TheNumbers, SMT DEF Age, Numbers
    <3> QED BY <3>2 DEF y
  <2> QED BY <2>2, <2>3
<1> QED BY <1>1, <1>2, DropKeeps

LEMMA ClearPendingKeeps ==
  ASSUME NEW m, NEW c, MapInv(m, c), NEW b \in Keys
  PROVE  /\ MapInv(ClearPending(m, b), c)
         /\ \A k \in Keys \ {b} : ClearPending(m, b)[k] = m[k]
<1> DEFINE n == ClearPending(m, b)
<1>1. m = [k \in Keys |-> m[k]] /\ \A k \in Keys : EntryInv(k, m[k], c[k])
  BY DEF MapInv
<1>2. CASE m[b] = NoVal
  BY <1>2 DEF ClearPending
<1>3. CASE m[b] # NoVal
  <2>1. n = [m EXCEPT ![b] = [m[b] EXCEPT !.pending = NoVal, !.time = 0]]
    BY <1>3 DEF ClearPending
  <2>2. n = [k \in Keys |-> n[k]] /\ \A k \in Keys \ {b} : n[k] = m[k]
    BY <1>1, <2>1
  <2>3. n[b] = [m[b] EXCEPT !.pending = NoVal, !.time = 0]
    BY <1>1, <2>1
  <2>4. EntryInv(b, n[b], c[b])
    <3> DEFINE e == m[b]
               f == n[b]
               a == c[b]
    <3>1. e \in Entry /\ f = [e EXCEPT !.pending = NoVal, !.time = 0] /\ EntryInv(b, e, a)
      BY <1>1, <1>3, <2>3 DEF EntryInv
    <3> HIDE DEF e, f, a
    <3>2. f \in Entry /\ f.sec = e.sec /\ f.submit = e.submit /\ f.time = 0
      <4>1. 0 \in Age(Retention)
        BY TheNumbers DEF Numbers, Age
      <4> QED BY <3>1, <4>1 DEF Entry
    <3>3. \A x \in Age(Dedup) \cup {NoVal} : x # NoVal => 0 <= x
      BY TheNumbers, SMT DEF Numbers, Age
    <3>4. f.submit # NoVal => 0 <= f.submit
      BY <3>2, <3>3, EntryFields
    <3>5. EntryInv(b, f, a)
      BY <3>1, <3>2, <3>4, TheNumbers DEF EntryInv
    <3> QED BY <3>5 DEF f, a
  <2> QED BY <1>1, <2>2, <2>4 DEF MapInv
<1> QED BY <1>2, <1>3

\* rfid_afi_set: a new AFI, or a patron card, for one key.
Written(k, sec, pending) ==
  /\ k \in Keys /\ sec \in {DA, D7, Patron, NoVal} /\ pending \in {DA, D7, NoVal}
  /\ k \notin Books => sec = Patron

LEMMA AfiSetKeeps ==
  ASSUME NEW m, NEW c, MapInv(m, c), NEW b, NEW sec, NEW pending, Written(b, sec, pending)
  PROVE  /\ MapInv(AfiSet(m, b, sec, pending), c)
         /\ \A k \in Keys \ {b} : AfiSet(m, b, sec, pending)[k] = m[k]
         /\ AfiSet(m, b, sec, pending)[b] # NoVal
         /\ AfiSet(m, b, sec, pending)[b].pending = pending
         /\ AfiSet(m, b, sec, pending)[b].time = 0
<1> DEFINE n == AfiSet(m, b, sec, pending)
           e == m[b]
           f == [sec |-> sec, pending |-> pending, time |-> 0,
                 submit |-> IF e = NoVal THEN NoVal ELSE e.submit,
                 seen   |-> IF e = NoVal THEN 0 ELSE e.seen]
           a == c[b]
<1>1. /\ m = [k \in Keys |-> m[k]] /\ c = [k \in Keys |-> c[k]]
      /\ b \in Keys
      /\ \A k \in Keys : EntryInv(k, m[k], c[k])
  BY DEF MapInv, Written
<1>2. n = [m EXCEPT ![b] = f]
  BY DEF AfiSet
<1>3. f.sec = sec /\ f.pending = pending /\ f.time = 0
      /\ f.submit = IF e = NoVal THEN NoVal ELSE e.submit
  OBVIOUS
<1>4. EntryInv(b, e, a)
  BY <1>1
<1>5. f \in Entry
  <2>1. 0 \in Age(Retention) /\ 0 \in Age(Stale)
    BY TheNumbers DEF Numbers, Age
  <2>2. e # NoVal => e.submit \in Age(Dedup) \cup {NoVal} /\ e.seen \in Age(Stale)
    BY <1>4, EntryFields DEF EntryInv
  <2> QED BY <2>1, <2>2 DEF Entry, Written
<1> HIDE DEF n, e, f, a
<1>6. \A x \in Age(Dedup) \cup {NoVal} : x # NoVal => 0 <= x
  BY TheNumbers, SMT DEF Numbers, Age
<1>7. f.submit # NoVal => 0 <= f.submit
  BY <1>5, <1>6, EntryFields
<1>8. f # NoVal
  BY <1>5, TheNumbers
<1>9. EntryInv(b, f, a)
  BY <1>3, <1>4, <1>5, <1>7, <1>8 DEF EntryInv, Written
<1>10. n = [k \in Keys |-> n[k]] /\ n[b] = f /\ \A k \in Keys \ {b} : n[k] = m[k]
  BY <1>1, <1>2
<1>11. MapInv(n, c)
  <2>1. ASSUME NEW k \in Keys PROVE EntryInv(k, n[k], c[k])
    BY <1>1, <1>9, <1>10 DEF a
  <2> QED BY <1>1, <1>10, <2>1 DEF MapInv
<1> QED BY <1>3, <1>8, <1>10, <1>11 DEF n

\* A submitted form opens a window of its own, or is in that of an earlier one.
LEMMA SubmitKeeps ==
  ASSUME NEW m, NEW c, MapInv(m, c), NEW b, NEW sec, NEW pending, Written(b, sec, pending),
         NEW d, d = c \/ d = [c EXCEPT ![b] = 0]
  PROVE  /\ MapInv(SetSubmit(AfiSet(m, b, sec, pending), b), d)
         /\ \A k \in Keys \ {b} : SetSubmit(AfiSet(m, b, sec, pending), b)[k] = m[k]
<1> DEFINE o == AfiSet(m, b, sec, pending)
           n == SetSubmit(o, b)
<1>1. /\ MapInv(o, c) /\ o[b] # NoVal /\ o[b].time = 0 /\ b \in Keys
      /\ \A k \in Keys \ {b} : o[k] = m[k]
  BY AfiSetKeeps DEF Written
<1> HIDE DEF o
<1>2. /\ o = [k \in Keys |-> o[k]] /\ c = [k \in Keys |-> c[k]]
      /\ \A k \in Keys : EntryInv(k, o[k], c[k])
  BY <1>1 DEF MapInv
<1>3. n = [o EXCEPT ![b] = [o[b] EXCEPT !.submit = 0]]
  BY DEF SetSubmit
<1> DEFINE e == o[b]
           f == [e EXCEPT !.submit = 0]
<1>4. /\ e \in Entry /\ EntryInv(b, e, c[b]) /\ e.time = 0 /\ e # NoVal
      /\ c[b] \in Age(Dedup)
  BY <1>1, <1>2 DEF EntryInv
<1> HIDE DEF e
<1>5. f \in Entry /\ f.sec = e.sec /\ f.submit = 0 /\ f.time = 0
  <2>1. 0 \in Age(Dedup)
    BY TheNumbers DEF Numbers, Age
  <2> QED BY <1>4, <2>1 DEF Entry
<1> HIDE DEF f
<1>6. \A a \in Age(Dedup) : EntryInv(b, f, a)
  <2> SUFFICES ASSUME NEW a \in Age(Dedup) PROVE EntryInv(b, f, a)
    OBVIOUS
  <2>1. 0 <= a /\ 0 # NoVal
    BY TheNumbers, SMT DEF Age, Numbers
  <2>2. f # NoVal
    BY <1>5, TheNumbers
  <2> QED BY <1>4, <1>5, <2>1, <2>2 DEF EntryInv
<1>7. n = [k \in Keys |-> n[k]] /\ n[b] = f /\ \A k \in Keys \ {b} : n[k] = o[k]
  BY <1>1, <1>2, <1>3 DEF e, f
<1>8. d = [k \in Keys |-> d[k]] /\ d[b] \in Age(Dedup) /\ \A k \in Keys \ {b} : d[k] = c[k]
  <2>1. 0 \in Age(Dedup)
    BY TheNumbers DEF Numbers, Age
  <2> QED BY <1>1, <1>2, <1>4, <2>1
<1>9. ASSUME NEW k \in Keys PROVE EntryInv(k, n[k], d[k])
  BY <1>2, <1>6, <1>7, <1>8
<1>10. MapInv(n, d)
  BY <1>7, <1>8, <1>9 DEF MapInv
<1> QED BY <1>1, <1>7, <1>10 DEF o

LEMMA OlderIsAge ==
  ASSUME NEW l \in Nat, NEW x \in Age(l)
  PROVE  Older(x, l) \in Age(l)
BY SMT DEF Age, Older

\* Ages that are still counted keep their order.
LEMMA OlderKeepsOrder ==
  ASSUME NEW l \in Nat, NEW x \in Age(l)
  PROVE  /\ Older(x, l) <= l => x < l
         /\ \A y \in Age(l) : x <= y => Older(x, l) <= Older(y, l)
         /\ \A j \in Nat : \A y \in Age(j) :
              l < j /\ Older(x, l) <= l /\ y <= x =>
                y <= Older(x, l) /\ Older(y, j) <= Older(x, l)
BY SMT DEF Age, Older

\* An entry and its window, one tick later; hours may or may not count.
LEMMA OlderEntry ==
  ASSUME NEW k, NEW e \in Entry, NEW a, EntryInv(k, e, a), NEW f \in Entry,
         f.sec = e.sec, f.submit = Older(e.submit, Dedup),
         f.time \in {Older(e.time, Retention), e.time}
  PROVE  EntryInv(k, f, Older(a, Dedup))
<1>1. Dedup \in Nat /\ Retention \in Nat /\ Dedup < Retention /\ NoVal \notin Int
  BY TheNumbers DEF Numbers
<1>2. a \in Age(Dedup) /\ Older(a, Dedup) \in Age(Dedup)
  BY <1>1, OlderIsAge DEF EntryInv
<1>3. e # NoVal /\ f # NoVal
  BY TheNumbers
<1>4. e.submit = NoVal => f.submit = NoVal
  <2>1. NoVal \notin 0 .. Dedup
    BY <1>1, SMT
  <2> QED BY <2>1 DEF Older
<1>5. \A x \in Age(Dedup) : x \in Int /\ (x < Dedup => x <= Dedup)
  BY <1>1, SMT DEF Age
<1>6. ASSUME Older(a, Dedup) < Dedup PROVE f.submit # NoVal /\ f.submit <= Older(a, Dedup)
  <2>1. a < Dedup
    BY <1>1, <1>2, <1>5, <1>6, OlderKeepsOrder
  <2>2. e.submit # NoVal /\ e.submit <= a /\ e.submit \in Age(Dedup)
    BY <1>3, <2>1, EntryFields DEF EntryInv
  <2>3. f.submit <= Older(a, Dedup)
    BY <1>1, <1>2, <2>2, OlderKeepsOrder
  <2>4. f.submit \in Int
    BY <1>1, <1>5, <2>2, OlderIsAge
  <2> QED BY <1>1, <2>3, <2>4
<1>7. ASSUME f.submit # NoVal, f.submit <= Dedup PROVE f.time <= f.submit
  <2>1. e.submit # NoVal /\ e.submit \in Age(Dedup) /\ e.time \in Age(Retention)
    BY <1>4, <1>7, EntryFields
  <2>2. e.submit < Dedup
    BY <1>1, <1>7, <2>1, OlderKeepsOrder
  <2>3. e.time <= e.submit
    BY <1>3, <1>5, <2>1, <2>2 DEF EntryInv
  <2>4. Older(e.submit, Dedup) <= Dedup
    BY <1>7
  <2>5. /\ e.time <= Older(e.submit, Dedup)
        /\ Older(e.time, Retention) <= Older(e.submit, Dedup)
    BY <1>1, <2>1, <2>3, <2>4, OlderKeepsOrder
  <2> QED BY <2>5
<1>8. k \notin Books => f.sec = Patron
  BY <1>3 DEF EntryInv
<1> QED BY <1>2, <1>3, <1>6, <1>7, <1>8 DEF EntryInv

Ticked(e) ==
  IF e = NoVal THEN NoVal
  ELSE [e EXCEPT !.submit = Older(@, Dedup), !.seen = Older(@, Stale),
                 !.time = IF Hours THEN Older(@, Retention) ELSE @]

LEMMA TickedFields ==
  ASSUME NEW e \in Entry
  PROVE  /\ Ticked(e) \in Entry /\ Ticked(e).sec = e.sec /\ Ticked(e).pending = e.pending
         /\ Ticked(e).submit = Older(e.submit, Dedup)
         /\ Ticked(e).time \in {Older(e.time, Retention), e.time}
<1>1. /\ Older(e.seen, Stale) \in Age(Stale) /\ Older(e.time, Retention) \in Age(Retention)
      /\ Older(e.submit, Dedup) \in Age(Dedup) \cup {NoVal}
  <2>1. NoVal \notin 0 .. Dedup
    BY TheNumbers, SMT DEF Numbers
  <2>2. e.submit = NoVal => Older(e.submit, Dedup) = NoVal
    BY <2>1 DEF Older
  <2> QED BY <2>2, TheNumbers, EntryFields, OlderIsAge DEF Numbers
<1>2. PICK t \in {Older(e.time, Retention), e.time} :
        t = IF Hours THEN Older(e.time, Retention) ELSE e.time
  BY Zenon
<1>3. t \in Age(Retention)
  BY <1>1, EntryFields
<1>4. Ticked(e) = [e EXCEPT !.submit = Older(e.submit, Dedup), !.seen = Older(e.seen, Stale), !.time = t]
  BY <1>2, TheNumbers, Zenon DEF Ticked
<1> QED BY <1>1, <1>3, <1>4 DEF Entry

\* A tick makes entries and windows older alike.
LEMMA TickKeeps ==
  ASSUME NEW m, NEW c, MapInv(m, c), NEW n, NEW d,
         n = [k \in Keys |-> Ticked(m[k])], d = [k \in Keys |-> Older(c[k], Dedup)]
  PROVE  /\ MapInv(n, d)
         /\ \A k \in Keys : /\ m[k] = NoVal <=> n[k] = NoVal
                            /\ m[k] # NoVal => n[k].pending = m[k].pending
<1>1. ASSUME NEW k \in Keys
      PROVE  /\ EntryInv(k, n[k], d[k])
             /\ m[k] = NoVal <=> n[k] = NoVal
             /\ m[k] # NoVal => n[k].pending = m[k].pending
  <2> DEFINE e == m[k]
             a == c[k]
  <2>1. EntryInv(k, e, a) /\ n[k] = Ticked(e) /\ d[k] = Older(a, Dedup)
    BY DEF MapInv
  <2> HIDE DEF e, a
  <2>2. CASE e = NoVal
    <3>1. n[k] = NoVal
      BY <2>1, <2>2 DEF Ticked
    <3>2. a \in Age(Dedup) /\ ~(a < Dedup)
      BY <2>1, <2>2 DEF EntryInv
    <3>3. Older(a, Dedup) \in Age(Dedup) /\ ~(Older(a, Dedup) < Dedup)
      <4>1. Dedup \in Nat
        BY TheNumbers DEF Numbers
      <4>2. Older(a, Dedup) \in Age(Dedup)
        BY <3>2, <4>1, OlderIsAge
      <4>3. Older(a, Dedup) < Dedup => Older(a, Dedup) <= Dedup
        BY <4>1, <4>2, SMT DEF Age
      <4> QED BY <3>2, <4>1, <4>2, <4>3, OlderKeepsOrder
    <3>4. EntryInv(k, NoVal, Older(a, Dedup))
      BY <3>3 DEF EntryInv
    <3> QED BY <2>1, <2>2, <3>1, <3>4 DEF e
  <2>3. CASE e # NoVal
    <3>1. e \in Entry
      BY <2>1, <2>3 DEF EntryInv
    <3>2. EntryInv(k, Ticked(e), Older(a, Dedup))
      BY <2>1, <3>1, TickedFields, OlderEntry
    <3>3. Ticked(e) # NoVal /\ Ticked(e).pending = e.pending
      BY <3>1, TickedFields, TheNumbers
    <3> QED BY <2>1, <2>3, <3>2, <3>3 DEF e
  <2> QED BY <2>2, <2>3
<1> QED BY <1>1 DEF MapInv

-----------------------------------------------------------------------------
(***************************************************************************)
(* Polls: timers set and scans in flight.                                  *)
(***************************************************************************)
Flight(sc) == {s \in Slot : sc[s] # NoVal}
Scans      == [Slot -> ScanRequest \cup {NoVal}]

ScriptInv(off, pending, set, buttons, sc) ==
  /\ off \in BOOLEAN /\ pending \in BOOLEAN /\ set \in Nat
  /\ buttons \in {"none", "error", "disabled"} /\ sc \in Scans
  /\ set + Cardinality(Flight(sc)) <= Chains
  /\ pending => \E s \in Slot : sc[s] = Asked
  /\ ~off => set > 0 \/ Flight(sc) # {}

LEMMA FlightFinite ==
  ASSUME NEW sc
  PROVE  IsFiniteSet(Flight(sc)) /\ Cardinality(Flight(sc)) \in Nat
<1>1. Chains \in Int /\ 1 \in Int
  BY KohaRfidAssumption
<1>2. IsFiniteSet(Slot)
  BY <1>1, FS_Interval, Zenon DEF Slot
<1>3. Flight(sc) \in SUBSET Slot
  BY DEF Flight
<1> QED BY <1>2, <1>3, FS_Subset, FS_CardinalityType

LEMMA FlightChanges ==
  ASSUME NEW sc \in Scans, NEW s \in Slot
  PROVE  /\ \A v \in ScanRequest : /\ Flight([sc EXCEPT ![s] = v]) = Flight(sc) \cup {s}
                                   /\ [sc EXCEPT ![s] = v] \in Scans
         /\ Flight([sc EXCEPT ![s] = NoVal]) = Flight(sc) \ {s}
         /\ [sc EXCEPT ![s] = NoVal] \in Scans
<1>1. ASSUME NEW v \in ScanRequest PROVE v # NoVal
  BY NoValAssumption
<1>2. ASSUME NEW v \in ScanRequest PROVE Flight([sc EXCEPT ![s] = v]) = Flight(sc) \cup {s}
  BY <1>1 DEF Flight, Scans
<1>3. Flight([sc EXCEPT ![s] = NoVal]) = Flight(sc) \ {s}
  BY DEF Flight, Scans
<1>4. ASSUME NEW v \in ScanRequest PROVE [sc EXCEPT ![s] = v] \in Scans
  BY DEF Scans
<1>5. [sc EXCEPT ![s] = NoVal] \in Scans
  BY DEF Scans
<1> QED BY <1>2, <1>3, <1>4, <1>5

LEMMA FlightCounts ==
  ASSUME NEW sc, NEW s
  PROVE  /\ Cardinality(Flight(sc) \cup {s}) =
              IF s \in Flight(sc) THEN Cardinality(Flight(sc)) ELSE Cardinality(Flight(sc)) + 1
         /\ Cardinality(Flight(sc) \ {s}) =
              IF s \in Flight(sc) THEN Cardinality(Flight(sc)) - 1 ELSE Cardinality(Flight(sc))
BY FlightFinite, FS_AddElement, FS_RemoveElement, Zenon

LEMMA FlightOfNone ==
  ASSUME NEW sc, Flight(sc) = {}
  PROVE  Cardinality(Flight(sc)) = 0
BY FS_EmptySet

LEMMA AskedType == Asked \in ScanRequest /\ Asked # NoVal
<1>1. Asked \in ScanRequest
  BY DEF Asked, ScanRequest
<1> QED BY <1>1, NoValAssumption

ThisScript == ScriptInv(optedOut, pollPending, timers, shown, scans)

\* The facts of one tab's polls, for a solver.
LEMMA ScriptFacts ==
  ASSUME NEW off, NEW pending, NEW set, NEW buttons, NEW sc,
         ScriptInv(off, pending, set, buttons, sc)
  PROVE  /\ set \in Nat /\ Cardinality(Flight(sc)) \in Nat /\ Chains \in Nat
         /\ set + Cardinality(Flight(sc)) <= Chains
         /\ pending => Flight(sc) # {}
         /\ sc \in Scans /\ Flight(sc) \in SUBSET Slot
<1>1. pending => Flight(sc) # {}
  BY AskedType DEF ScriptInv, Flight
<1> QED BY <1>1, FlightFinite, KohaRfidAssumption DEF ScriptInv, Flight

\* rfid_poll: a scan is asked for, when none is pending, on a slot of its own.
LEMMA Polls ==
  ASSUME ThisScript, NEW off \in BOOLEAN, Poll(off),
         timers' \in Nat, timers' + Cardinality(Flight(scans)) + 1 <= Chains
                          \/ (off /\ timers' + Cardinality(Flight(scans)) <= Chains)
                          \/ (pollPending /\ timers' + Cardinality(Flight(scans)) <= Chains),
         optedOut' = off, shown' \in {"none", "error", "disabled"}
  PROVE  ThisScript'
<1>1. /\ timers \in Nat /\ Cardinality(Flight(scans)) \in Nat /\ Chains \in Nat
      /\ pollPending => Flight(scans) # {}
      /\ scans \in Scans /\ Flight(scans) \in SUBSET Slot
  BY ScriptFacts DEF ThisScript
<1>2. timers' + Cardinality(Flight(scans)) <= Chains
  <2>1. \A a, b, c \in Nat : a + b + 1 <= c => a + b <= c
    BY SMT
  <2> QED BY <1>1, <2>1
<1>3. CASE pollPending \/ off
  <2>1. pollPending' = pollPending /\ scans' = scans
    BY <1>3 DEF Poll
  <2>2. ~off => Flight(scans) # {}
    BY <1>1, <1>3
  <2> QED BY <1>2, <2>1, <2>2 DEF ThisScript, ScriptInv
<1>4. CASE ~(pollPending \/ off)
  <2>1. PICK s \in Slot \ InFlight : scans' = [scans EXCEPT ![s] = Asked]
    BY <1>4 DEF Poll
  <2>2. pollPending' = TRUE
    BY <1>4 DEF Poll
  <2>3. s \in Slot /\ s \notin Flight(scans)
    BY <2>1 DEF InFlight, Flight
  <2>4. scans' \in Scans /\ Flight(scans') = Flight(scans) \cup {s}
    BY <1>1, <2>1, <2>3, AskedType, FlightChanges
  <2>5. Cardinality(Flight(scans')) = Cardinality(Flight(scans)) + 1
    BY <2>3, <2>4, FlightCounts, Zenon
  <2>6. timers' + Cardinality(Flight(scans')) <= Chains
    <3>1. timers' + Cardinality(Flight(scans)) + 1 <= Chains
      BY <1>4
    <3>2. \A a, b, c \in Nat : a + b + 1 <= c => a + (b + 1) <= c
      BY SMT
    <3> QED BY <1>1, <2>5, <3>1, <3>2
  <2>7. scans'[s] = Asked
    BY <1>1, <2>1, <2>3 DEF Scans
  <2> QED BY <2>2, <2>3, <2>4, <2>6, <2>7 DEF ThisScript, ScriptInv
<1> QED BY <1>3, <1>4

\* A scan is over, in one way or the other, and a timer takes its place.
LEMMA ScanOver ==
  ASSUME ThisScript, NEW s \in Flight(scans), scans' = [scans EXCEPT ![s] = NoVal],
         timers' = timers + 1, pollPending' = FALSE, optedOut' = optedOut,
         shown' \in {"none", "error", "disabled"}
  PROVE  ThisScript'
<1>1. /\ timers \in Nat /\ Cardinality(Flight(scans)) \in Nat /\ Chains \in Nat
      /\ timers + Cardinality(Flight(scans)) <= Chains /\ scans \in Scans /\ s \in Slot
  BY ScriptFacts DEF ThisScript
<1>2. scans' \in Scans /\ Flight(scans') = Flight(scans) \ {s}
  BY <1>1, FlightChanges
<1>3. Cardinality(Flight(scans')) = Cardinality(Flight(scans)) - 1
  BY <1>2, FlightCounts, Zenon
<1>4. timers' + Cardinality(Flight(scans')) <= Chains /\ timers' \in Nat /\ timers' > 0
  <2>1. \A a, b, c \in Nat : a + b <= c =>
          a + 1 + (b - 1) <= c /\ a + 1 \in Nat /\ a + 1 > 0
    BY SMT
  <2> QED BY <1>1, <1>3, <2>1
<1> QED BY <1>2, <1>4 DEF ThisScript, ScriptInv

\* The server's answer arrives for a scan that was asked for.
LEMMA AnswerArrives ==
  ASSUME ThisScript, NEW s \in Flight(scans), NEW v \in ScanRequest,
         scans' = [scans EXCEPT ![s] = v], timers' = timers, pollPending' = FALSE,
         optedOut' = optedOut, shown' = shown
  PROVE  ThisScript'
<1>1. scans \in Scans /\ s \in Slot
  BY ScriptFacts DEF ThisScript
<1>2. scans' \in Scans /\ Flight(scans') = Flight(scans) \cup {s}
  BY <1>1, FlightChanges
<1>3. Flight(scans') = Flight(scans)
  BY <1>2
<1> QED BY <1>2, <1>3 DEF ThisScript, ScriptInv

\* A page that loads polls at once, unless the librarian opted out.
LEMMA ReadyPolls ==
  ASSUME noReader \in BOOLEAN, NEW p, NEW m, Ready(p, m)
  PROVE  ThisScript'
<1>1. /\ timers' = 0 /\ shown' = "none"
      /\ optedOut' = noReader /\ pollPending' = ~noReader
      /\ scans' = IF noReader THEN NoScan ELSE [NoScan EXCEPT ![1] = Asked]
  BY DEF Ready
<1>2. NoScan \in Scans /\ Flight(NoScan) = {} /\ Cardinality(Flight(NoScan)) = 0
  <2>1. NoScan \in Scans /\ Flight(NoScan) = {}
    BY DEF NoScan, Scans, Flight
  <2> QED BY <2>1, FlightOfNone
<1>3. Chains \in Nat /\ 1 \in Slot /\ 0 + 1 <= Chains /\ 0 + 0 <= Chains
  BY KohaRfidAssumption, SMT DEF Slot
<1>4. CASE noReader
  BY <1>1, <1>2, <1>3, <1>4 DEF ThisScript, ScriptInv
<1>5. CASE ~noReader
  <2>1. scans' = [NoScan EXCEPT ![1] = Asked]
    BY <1>1, <1>5
  <2>2. scans' \in Scans /\ Flight(scans') = {} \cup {1}
    <3>1. /\ [NoScan EXCEPT ![1] = Asked] \in Scans
          /\ Flight([NoScan EXCEPT ![1] = Asked]) = Flight(NoScan) \cup {1}
      BY <1>2, <1>3, AskedType, FlightChanges, Zenon
    <3> QED BY <1>2, <2>1, <3>1, Zenon
  <2>3. Cardinality(Flight(scans')) = 1
    BY <2>2, FS_Singleton
  <2>4. scans'[1] = Asked
    BY <1>2, <1>3, <2>1 DEF Scans
  <2> QED BY <1>1, <1>3, <1>5, <2>2, <2>3, <2>4 DEF ThisScript, ScriptInv
<1> QED BY <1>4, <1>5

-----------------------------------------------------------------------------
(***************************************************************************)
(* What one answer does to the map: everything the script keeps of a book  *)
(* in its window stays, unless the answer is what it waits for.            *)
(***************************************************************************)
PendingIn(m, k) == IF m[k] = NoVal THEN NoVal ELSE m[k].pending

Good(n, d) ==
  /\ MapInv(n, d)
  /\ \A k \in Keys : checked[k] < Dedup => d[k] < Dedup
  /\ \A k \in Books : checked[k] < Dedup /\ Pending(k) # NoVal => PendingIn(n, k) = Pending(k)

LEMMA BooksAreKeys == Books \subseteq Keys
  BY DEF Keys, Tags

LEMMA GoodSeen ==
  ASSUME MapInv(map, checked), NEW s
  PROVE  Good(Seen(s), checked)
BY LastSeenKeeps, BooksAreKeys DEF Good, Seen, PendingIn, Pending

LEMMA GoodSweep ==
  ASSUME NEW n, NEW d, Good(n, d)
  PROVE  Good(SweepStale(n), d)
<1>1. /\ MapInv(n, d) /\ MapInv(SweepStale(n), d)
      /\ \A k \in Keys : SweepStale(n)[k] = n[k] \/ ~(d[k] < Dedup)
  BY SweepKeeps DEF Good
<1> QED BY <1>1, BooksAreKeys DEF Good, PendingIn

LEMMA GoodAfiSet ==
  ASSUME MapInv(map, checked), NEW s, NEW b, NEW sec, NEW pending, Written(b, sec, pending),
         b \notin Books \/ Pending(b) = NoVal
  PROVE  Good(AfiSet(Seen(s), b, sec, pending), checked)
<1>1. Good(Seen(s), checked)
  BY GoodSeen
<1>2. /\ MapInv(AfiSet(Seen(s), b, sec, pending), checked)
      /\ \A k \in Keys \ {b} : AfiSet(Seen(s), b, sec, pending)[k] = Seen(s)[k]
  BY <1>1, AfiSetKeeps DEF Good
<1> QED BY <1>1, <1>2, BooksAreKeys DEF Good, PendingIn

LEMMA GoodSubmit ==
  ASSUME MapInv(map, checked), NEW s, NEW b, NEW sec, NEW pending, Written(b, sec, pending),
         b \notin Books \/ Pending(b) = NoVal,
         NEW d, d = checked \/ d = [checked EXCEPT ![b] = 0]
  PROVE  Good(SetSubmit(AfiSet(Seen(s), b, sec, pending), b), d)
<1> DEFINE n == SetSubmit(AfiSet(Seen(s), b, sec, pending), b)
<1>1. Good(Seen(s), checked)
  BY GoodSeen
<1>2. MapInv(n, d) /\ \A k \in Keys \ {b} : n[k] = Seen(s)[k]
  BY <1>1, SubmitKeeps DEF Good
<1> HIDE DEF n
<1>3. ASSUME NEW k \in Keys, checked[k] < Dedup PROVE d[k] < Dedup
  <2>1. checked = [j \in Keys |-> checked[j]] /\ checked[k] \in Age(Dedup)
    BY DEF MapInv, EntryInv
  <2>2. d[k] = checked[k] \/ (k = b /\ d[k] = 0)
    BY <2>1
  <2>3. 0 < Dedup
    BY <1>3, <2>1, TheNumbers, SMT DEF Age, Numbers
  <2> QED BY <1>3, <2>2, <2>3
<1>4. ASSUME NEW k \in Books, checked[k] < Dedup, Pending(k) # NoVal
      PROVE  PendingIn(n, k) = Pending(k)
  <2>1. k # b /\ k \in Keys
    BY <1>4, BooksAreKeys
  <2> QED BY <1>1, <1>2, <1>4, <2>1 DEF Good, PendingIn
<1> QED BY <1>2, <1>3, <1>4 DEF Good, n

-----------------------------------------------------------------------------
(***************************************************************************)
(* Forms, fields and AFI writes.                                           *)
(***************************************************************************)
Typed == [{"in", "out", "renew"} -> Books \cup {NoVal}]

FormsType ==
  /\ page \in Page /\ typed \in Typed /\ nav \in Form \cup {NoVal}
  /\ secures \in [WriteSlot -> SecureRequest \cup {NoVal}]

\* An answer settles a pending AFI when it shows that the tag has it.
Settled(s, k) ==
  \E x \in scans[s].tags : x.content = k /\ x.security = Pending(k)

PendingKept(s) ==
  \A k \in Books : checked[k] < Dedup /\ Pending(k) # NoVal =>
                     Pending(k)' = Pending(k) \/ Settled(s, k)

\* The forms of check-in and of a patron are submitted outside their windows.
OneForm ==
  \A k \in Keys, op \in {"checkin", "patron"} :
    nav' # nav /\ nav' = [op |-> op, what |-> k, at |-> "sent"] => checked[k] >= Dedup

Outcome(s) ==
  /\ MapInv(map', checked') /\ FormsType' /\ PendingKept(s) /\ OneForm
  /\ Done(s) /\ shown' \in {"none", shown}

LEMMA GoodIsKept ==
  ASSUME NEW s, Good(map', checked')
  PROVE  MapInv(map', checked') /\ PendingKept(s)
BY DEF Good, PendingKept, Pending, PendingIn

LEMMA TheItems ==
  ASSUME ThisScript, NEW s \in Answered, NEW x \in Chosen(scans[s].tags)
  PROVE  /\ x \in scans[s].tags /\ x \in Item
         /\ x.content \in Keys \cup {Empty} /\ x.security \in {DA, D7, NoVal}
<1>1. scans[s] \in ScanRequest
  BY DEF ThisScript, ScriptInv, Scans, Answered, InFlight
<1>2. x \in scans[s].tags
  BY DEF Chosen
<1>3. x \in Item
  BY <1>1, <1>2 DEF ScanRequest
<1> QED BY <1>2, <1>3 DEF Item

LEMMA NothingToDoOutcome ==
  ASSUME MapInv(map, checked), FormsType, NEW s, NothingToDo(s)
  PROVE  Outcome(s)
<1>1. map' = SweepStale(Seen(s)) /\ shown' = "none" /\ Done(s)
      /\ typed' = typed /\ nav' = nav /\ secures' = secures /\ checked' = checked /\ page' = page
  BY DEF NothingToDo, Idly, Done
<1>2. Good(map', checked')
  BY <1>1, GoodSeen, GoodSweep
<1> QED BY <1>1, <1>2, GoodIsKept DEF Outcome, FormsType, OneForm

LEMMA WritePendingOutcome ==
  ASSUME MapInv(map, checked), FormsType, NEW s, NEW x, WritePending(s, x)
  PROVE  Outcome(s)
<1>1. PICK w \in WriteSlot : 
        secures' = [secures EXCEPT ![w] =
           [book |-> x.content, target |-> Pending(x.content), at |-> "sent", live |-> TRUE]]
  BY DEF WritePending
<1>2. map' = Seen(s) /\ shown' = "none" /\ Done(s)
      /\ typed' = typed /\ nav' = nav /\ checked' = checked /\ page' = page
      /\ x.content \in Books /\ Pending(x.content) # NoVal
  BY DEF WritePending, Done, IsBook
<1>3. Good(map', checked')
  BY <1>2, GoodSeen
<1>4. Pending(x.content) \in {DA, D7}
  <2>1. EntryInv(x.content, map[x.content], checked[x.content])
    BY <1>2, BooksAreKeys DEF MapInv
  <2> QED BY <1>2, <2>1, EntryFields DEF EntryInv, Pending
<1>5. [book |-> x.content, target |-> Pending(x.content), at |-> "sent", live |-> TRUE]
        \in SecureRequest
  BY <1>2, <1>4 DEF SecureRequest
<1>6. FormsType'
  BY <1>1, <1>2, <1>5 DEF FormsType
<1> QED BY <1>2, <1>3, <1>6, GoodIsKept DEF Outcome, OneForm

LEMMA PendingWrittenOutcome ==
  ASSUME MapInv(map, checked), FormsType, NEW s, NEW x \in scans[s].tags,
         x.security \in {DA, D7, NoVal}, PendingWritten(s, x)
  PROVE  Outcome(s)
<1> DEFINE b == x.content
<1>1. map' = AfiSet(Seen(s), b, x.security, NoVal) /\ shown' = shown /\ Done(s)
      /\ typed' = typed /\ nav' = nav /\ secures' = secures /\ checked' = checked /\ page' = page
      /\ b \in Books /\ Pending(b) = x.security
  BY DEF PendingWritten, Idly, Done, IsBook
<1>2. Written(b, x.security, NoVal)
  BY <1>1, BooksAreKeys DEF Written
<1>3. Good(Seen(s), checked)
  BY GoodSeen
<1>4. MapInv(map', checked') /\ \A k \in Keys \ {b} : map'[k] = Seen(s)[k]
  BY <1>1, <1>2, <1>3, AfiSetKeeps DEF Good
<1>5. PendingKept(s)
  <2> SUFFICES ASSUME NEW k \in Books, checked[k] < Dedup, Pending(k) # NoVal
               PROVE  Pending(k)' = Pending(k) \/ Settled(s, k)
    BY DEF PendingKept
  <2>1. CASE k = b
    BY <1>1, <2>1 DEF Settled
  <2>2. CASE k # b
    <3>1. PendingIn(Seen(s), k) = Pending(k) /\ map'[k] = Seen(s)[k]
      BY <1>3, <1>4, <2>2, BooksAreKeys DEF Good
    <3> QED BY <3>1 DEF Pending, PendingIn
  <2> QED BY <2>1, <2>2
<1> QED BY <1>1, <1>4, <1>5 DEF Outcome, FormsType, OneForm

LEMMA SkipOutcome ==
  ASSUME MapInv(map, checked), FormsType, NEW s, NEW x, Skip(s, x) \/ Label(s, x)
  PROVE  Outcome(s)
<1>1. map' = Seen(s) /\ shown' \in {"none", shown} /\ Done(s)
      /\ typed' = typed /\ nav' = nav /\ secures' = secures /\ checked' = checked /\ page' = page
  BY DEF Skip, Label, Idly, Done
<1>2. Good(map', checked')
  BY <1>1, GoodSeen
<1> QED BY <1>1, <1>2, GoodIsKept DEF Outcome, FormsType, OneForm

\* While a window is open the map says so.
LEMMA WindowIsOpen ==
  ASSUME MapInv(map, checked), NEW k \in Keys
  PROVE  /\ Lately(map[k]) \/ checked[k] >= Dedup
         /\ k \notin Books /\ map[k] # NoVal => map[k].sec = Patron
<1> DEFINE e == map[k]
           a == checked[k]
<1>1. EntryInv(k, e, a)
  BY DEF MapInv
<1>2. ASSUME a < Dedup PROVE Lately(e)
  <2>1. e # NoVal /\ e.submit # NoVal /\ e.submit <= a /\ e \in Entry
    BY <1>1, <1>2 DEF EntryInv
  <2>2. e.submit \in Age(Dedup) /\ a \in Age(Dedup)
    BY <1>1, <2>1, EntryFields DEF EntryInv
  <2>3. \A y, z \in Age(Dedup) : y <= z /\ z < Dedup => y <= Dedup
    BY TheNumbers, SMT DEF Age, Numbers
  <2>4. e.submit <= Dedup
    BY <1>2, <2>1, <2>2, <2>3
  <2> QED BY <2>1, <2>4 DEF Lately
<1>3. a < Dedup \/ a >= Dedup
  <2>1. a \in Age(Dedup)
    BY <1>1 DEF EntryInv
  <2> QED BY <2>1, TheNumbers, SMT DEF Age, Numbers
<1>4. k \notin Books /\ e # NoVal => e.sec = Patron
  BY <1>1 DEF EntryInv
<1> QED BY <1>2, <1>3, <1>4

LEMMA SubmitTypes ==
  ASSUME FormsType, NEW op \in {"checkin", "checkout", "renew"}, NEW f \in {"in", "out", "renew"},
         NEW k \in Books, Submit(op, f, k)
  PROVE  typed' \in Typed /\ nav' \in Form \cup {NoVal}
         /\ nav' = [op |-> op, what |-> k, at |-> "sent"]
BY BooksAreKeys DEF Submit, FormsType, Typed, Form

LEMMA CheckinOutcome ==
  ASSUME MapInv(map, checked), FormsType, NEW s, NEW x, x.security \in {DA, D7, NoVal},
         Checkin(s, x)
  PROVE  Outcome(s)
<1> DEFINE b == x.content
           pending == IF x.security = D7 THEN DA ELSE NoVal
<1>1. /\ b \in Books /\ Pending(b) = NoVal /\ ~Lately(map[b]) /\ Submit("checkin", "in", b)
      /\ map' = SetSubmit(AfiSet(Seen(s), b, x.security, pending), b)
      /\ checked' = [checked EXCEPT ![b] = 0]
      /\ shown' = "none" /\ Done(s) /\ secures' = secures /\ page' = page
  BY DEF Checkin, Fresh, IsBook, Done
<1>2. Written(b, x.security, pending)
  BY <1>1, BooksAreKeys DEF Written
<1>3. /\ typed' \in Typed /\ nav' \in Form \cup {NoVal}
      /\ nav' = [op |-> "checkin", what |-> b, at |-> "sent"]
  BY <1>1, SubmitTypes
<1> HIDE DEF pending
<1>4. Good(map', checked')
  BY <1>1, <1>2, GoodSubmit
<1>5. checked[b] >= Dedup
  BY <1>1, WindowIsOpen, BooksAreKeys
<1>6. OneForm
  <2> SUFFICES ASSUME NEW k \in Keys, NEW op, nav' = [op |-> op, what |-> k, at |-> "sent"]
               PROVE  checked[k] >= Dedup
    BY DEF OneForm
  <2>1. k = b
    BY <1>3
  <2> QED BY <1>5, <2>1
<1> QED BY <1>1, <1>3, <1>4, <1>6, GoodIsKept DEF Outcome, FormsType

LEMMA RenewOutcome ==
  ASSUME MapInv(map, checked), FormsType, NEW s, NEW x, x.security \in {DA, D7, NoVal},
         Renew(s, x)
  PROVE  Outcome(s)
<1> DEFINE b == x.content
<1>1. /\ b \in Books /\ Pending(b) = NoVal /\ Submit("renew", "renew", b)
      /\ map' = AfiSet(Seen(s), b, x.security, NoVal)
      /\ shown' = "none" /\ Done(s) /\ secures' = secures /\ page' = page /\ checked' = checked
  BY DEF Renew, Fresh, IsBook, Done
<1>2. Written(b, x.security, NoVal)
  BY <1>1, BooksAreKeys DEF Written
<1>3. /\ typed' \in Typed /\ nav' \in Form \cup {NoVal}
      /\ nav' = [op |-> "renew", what |-> b, at |-> "sent"]
  BY <1>1, SubmitTypes
<1>4. Good(map', checked')
  BY <1>1, <1>2, GoodAfiSet
<1>5. OneForm
  BY <1>3 DEF OneForm
<1> QED BY <1>1, <1>3, <1>4, <1>5, GoodIsKept DEF Outcome, FormsType

LEMMA CheckoutOutcome ==
  ASSUME MapInv(map, checked), FormsType, NEW s, NEW x, x.security \in {DA, D7, NoVal},
         Checkout(s, x)
  PROVE  Outcome(s)
<1> DEFINE b == x.content
<1>1. /\ b \in Books /\ Pending(b) = NoVal /\ Submit("checkout", "out", b)
      /\ map' = AfiSet(Seen(s), b, x.security, D7)
      /\ shown' = "none" /\ Done(s) /\ secures' = secures /\ page' = page /\ checked' = checked
  BY DEF Checkout, Fresh, IsBook, Done
<1>2. Written(b, x.security, D7)
  BY <1>1, BooksAreKeys DEF Written
<1>3. /\ typed' \in Typed /\ nav' \in Form \cup {NoVal}
      /\ nav' = [op |-> "checkout", what |-> b, at |-> "sent"]
  BY <1>1, SubmitTypes
<1>4. Good(map', checked')
  BY <1>1, <1>2, GoodAfiSet
<1>5. OneForm
  BY <1>3 DEF OneForm
<1> QED BY <1>1, <1>3, <1>4, <1>5, GoodIsKept DEF Outcome, FormsType

LEMMA NoteOutcome ==
  ASSUME MapInv(map, checked), FormsType, NEW s, NEW x, x.security \in {DA, D7, NoVal},
         Note(s, x)
  PROVE  Outcome(s)
<1> DEFINE b == x.content
           noted == AfiSet(Seen(s), b, x.security, NoVal)
<1>1. /\ b \in Books /\ Pending(b) = NoVal /\ map' \in {noted, SweepStale(noted)}
      /\ shown' = "none" /\ Done(s) /\ checked' = checked
      /\ typed' = typed /\ nav' = nav /\ secures' = secures /\ page' = page
  BY DEF Note, Fresh, IsBook, Done, Idly
<1>2. Written(b, x.security, NoVal)
  BY <1>1, BooksAreKeys DEF Written
<1>3. Good(noted, checked)
  BY <1>1, <1>2, GoodAfiSet
<1>4. Good(map', checked')
  BY <1>1, <1>3, GoodSweep
<1> QED BY <1>1, <1>4, GoodIsKept DEF Outcome, FormsType, OneForm

LEMMA PatronCardOutcome ==
  ASSUME MapInv(map, checked), FormsType, NEW s, NEW x, PatronCard(s, x)
  PROVE  Outcome(s)
<1> DEFINE k == x.content
           lately == Lately(map[k]) /\ map[k].sec = Patron
           set == SetSubmit(AfiSet(Seen(s), k, Patron, NoVal), k)
<1>1. k \in Keys /\ k \notin Books
  BY KohaRfidAssumption DEF PatronCard, IsCard, Keys, Tags
<1>2. /\ shown' = "none" /\ Done(s) /\ typed' = typed /\ secures' = secures /\ page' = page
      /\ map' = SweepStale(IF lately THEN Seen(s) ELSE set)
      /\ IF lately \/ page.tab # "out" THEN nav' = nav /\ checked' = checked
         ELSE /\ nav' = [op |-> "patron", what |-> k, at |-> "sent"]
              /\ checked' = [checked EXCEPT ![k] = 0]
  BY DEF PatronCard, Done
<1>3. Written(k, Patron, NoVal)
  BY <1>1 DEF Written
<1>4. /\ Good(Seen(s), checked) /\ Good(set, checked)
      /\ Good(set, [checked EXCEPT ![k] = 0])
  BY <1>1, <1>3, GoodSeen, GoodSubmit
<1>5. lately \/ checked[k] >= Dedup
  BY <1>1, WindowIsOpen DEF Lately
<1> HIDE DEF lately, set
<1>6. Good(map', checked')
  BY <1>2, <1>4, GoodSweep
<1>7. nav' \in Form \cup {NoVal}
  BY <1>1, <1>2 DEF FormsType, Form
<1>8. OneForm
  <2> SUFFICES ASSUME NEW j \in Keys, NEW op, nav' # nav,
                      nav' = [op |-> op, what |-> j, at |-> "sent"]
               PROVE  checked[j] >= Dedup
    BY DEF OneForm
  <2>1. ~lately /\ nav' = [op |-> "patron", what |-> k, at |-> "sent"]
    BY <1>2
  <2>2. j = k
    BY <2>1
  <2> QED BY <1>5, <2>1, <2>2
<1> QED BY <1>2, <1>6, <1>7, <1>8, GoodIsKept DEF Outcome, FormsType

LEMMA ScanOutcome ==
  ASSUME ThisScript, MapInv(map, checked), FormsType, NEW s \in Answered, Scan(s)
  PROVE  Outcome(s)
<1>1. CASE NothingToDo(s)
  BY <1>1, NothingToDoOutcome
<1>2. ASSUME NEW x \in Chosen(scans[s].tags),
             \/ WritePending(s, x) \/ PendingWritten(s, x) \/ Skip(s, x)
             \/ Checkin(s, x) \/ Renew(s, x) \/ Checkout(s, x)
             \/ Note(s, x) \/ Label(s, x) \/ PatronCard(s, x)
      PROVE  Outcome(s)
  <2>1. x \in scans[s].tags /\ x.security \in {DA, D7, NoVal}
    BY TheItems
  <2> QED BY <1>2, <2>1, WritePendingOutcome, PendingWrittenOutcome, SkipOutcome,
             CheckinOutcome, RenewOutcome, CheckoutOutcome, NoteOutcome, PatronCardOutcome
<1> QED BY <1>1, <1>2 DEF Scan

-----------------------------------------------------------------------------
(***************************************************************************)
(* The type invariant, callback by callback.                               *)
(***************************************************************************)
WorldType ==
  /\ koha \in [Books -> {"in", "loan"}] /\ afi \in [Books -> {DA, D7}]
  /\ field \in SUBSET Tags /\ noReader \in BOOLEAN

TabScript(tab) ==
  ScriptInv(tab.optedOut, tab.pollPending, tab.timers, tab.shown, tab.scans)

PageInv == WorldType /\ MapInv(map, checked) /\ FormsType /\ ThisScript

TypeInv == PageInv /\ (other # NoVal => other \in TabState /\ TabScript(other))

PendingStays ==
  \A k \in Books : checked[k] < Dedup /\ Pending(k) # NoVal => Pending(k)' = Pending(k)

Keeps == PageInv' /\ OneForm

LEMMA MapUnchanged ==
  ASSUME MapInv(map, checked), UNCHANGED <<map, checked>>
  PROVE  MapInv(map', checked') /\ PendingStays
BY DEF PendingStays, Pending

\* A map that keeps what is in a window keeps its pending AFI.
LEMMA WindowsStay ==
  ASSUME \A k \in Keys : map'[k] = map[k] \/ (map'[k] = NoVal /\ ~(checked[k] < Dedup))
  PROVE  PendingStays
BY BooksAreKeys DEF PendingStays, Pending

\* Callbacks that poll, and answers that arrive.
LEMMA PollKeeps ==
  ASSUME PageInv,
         \/ TimerFires \/ StaffRetries \/ StaffOptsOut
         \/ \E s \in Slot : ScanAnswers(s) \/ ScanFails(s)
  PROVE  Keeps /\ PendingStays
<1>1. WorldType /\ MapInv(map, checked) /\ FormsType /\ ThisScript
  BY DEF PageInv
<1>2. /\ UNCHANGED <<koha, afi, field, map, page, typed, nav, secures, checked>>
      /\ noReader' \in BOOLEAN
  BY <1>1 DEF TimerFires, StaffRetries, StaffOptsOut, ScanAnswers, ScanFails, world, WorldType
<1>3. MapInv(map', checked') /\ PendingStays
  BY <1>1, <1>2, MapUnchanged
<1>4. WorldType' /\ FormsType' /\ OneForm
  BY <1>1, <1>2 DEF WorldType, FormsType, OneForm
<1>5. /\ timers \in Nat /\ Cardinality(Flight(scans)) \in Nat /\ Chains \in Nat
      /\ timers + Cardinality(Flight(scans)) <= Chains
      /\ optedOut \in BOOLEAN /\ pollPending \in BOOLEAN
      /\ shown \in {"none", "error", "disabled"}
  BY <1>1, ScriptFacts DEF ThisScript, ScriptInv
<1>6. ThisScript'
  <2>1. CASE TimerFires
    <3>1. timers > 0 /\ timers' = timers - 1 /\ Poll(optedOut) /\ optedOut' = optedOut /\ shown' = shown
      BY <2>1 DEF TimerFires
    <3>2. \A a, b, c \in Nat : a > 0 /\ a + b <= c => a - 1 \in Nat /\ a - 1 + b + 1 <= c
      BY SMT
    <3>3. timers' \in Nat /\ timers' + Cardinality(Flight(scans)) + 1 <= Chains
      BY <1>5, <3>1, <3>2
    <3> QED BY <1>1, <1>5, <3>1, <3>3, Polls
  <2>2. CASE StaffRetries
    <3>1. /\ timers + Cardinality(Flight(scans)) < Chains
          /\ Poll(FALSE) /\ optedOut' = FALSE /\ shown' = shown /\ timers' = timers
      BY <2>2 DEF StaffRetries, InFlight, Flight
    <3>2. \A a, b, c \in Nat : a + b < c => a + b + 1 <= c
      BY SMT
    <3>3. timers' \in Nat /\ timers' + Cardinality(Flight(scans)) + 1 <= Chains
      BY <1>5, <3>1, <3>2
    <3> QED BY <1>1, <1>5, <3>1, <3>3, Polls
  <2>3. CASE StaffOptsOut
    <3>1. /\ optedOut' = TRUE /\ shown' = "disabled"
          /\ pollPending' = pollPending /\ timers' = timers /\ scans' = scans
      BY <2>3 DEF StaffOptsOut
    <3> QED BY <1>1, <3>1 DEF ThisScript, ScriptInv
  <2>4. ASSUME NEW s \in Slot, ScanAnswers(s) PROVE ThisScript'
    <3>1. PICK read \in [field -> UNION {Readings(t) : t \in field}] :
            /\ \A t \in field : read[t] \in Readings(t)
            /\ scans' = [scans EXCEPT ![s] = [at |-> "answered", tags |-> {read[t] : t \in field}]]
      BY <2>4 DEF ScanAnswers
    <3> DEFINE tags == {read[t] : t \in field}
               v == [at |-> "answered", tags |-> tags]
    <3>2. ASSUME NEW t \in field PROVE read[t] \in Item
      <4>1. t \in Tags /\ (t \in Books => afi[t] \in {DA, D7})
        BY <1>1 DEF WorldType
      <4>2. read[t] \in Readings(t)
        BY <3>1
      <4>3. /\ {t} \subseteq Tags
            /\ {t} \cup (IF "blocks" \in BadReads THEN {Garbled, Empty} ELSE {}) \subseteq Keys \cup {Empty}
            /\ {IF t \in Books THEN afi[t] ELSE DA} \cup (IF "afi" \in BadReads THEN {NoVal} ELSE {})
                 \subseteq {DA, D7, NoVal}
        BY <4>1 DEF Keys
      <4> QED BY <4>2, <4>3 DEF Readings, Item
    <3>3. tags \subseteq Item
      BY <3>2
    <3> HIDE DEF tags
    <3>4. v \in ScanRequest
      BY <3>3 DEF ScanRequest
    <3>5. scans' = [scans EXCEPT ![s] = v]
      BY <3>1 DEF tags
    <3> HIDE DEF v
    <3>6. /\ timers' = timers /\ pollPending' = FALSE /\ optedOut' = optedOut /\ shown' = shown
          /\ scans[s] # NoVal
      BY <2>4, AskedType DEF ScanAnswers
    <3>7. s \in Flight(scans)
      BY <3>6 DEF Flight
    <3> QED BY <1>1, <3>4, <3>5, <3>6, <3>7, AnswerArrives
  <2>5. ASSUME NEW s \in Slot, ScanFails(s) PROVE ThisScript'
    <3>1. /\ s \in Flight(scans) /\ scans' = [scans EXCEPT ![s] = NoVal]
          /\ timers' = timers + 1 /\ pollPending' = FALSE /\ optedOut' = optedOut
          /\ shown' = "error"
      BY <2>5 DEF ScanFails, PollOver, InFlight, Flight
    <3> QED BY <1>1, <3>1, ScanOver
  <2> QED BY <2>1, <2>2, <2>3, <2>4, <2>5
<1> QED BY <1>3, <1>4, <1>6 DEF Keeps, PageInv

LEMMA ScanKeeps ==
  ASSUME PageInv, NEW s \in Answered, Scan(s)
  PROVE  Keeps /\ PendingKept(s)
<1>1. WorldType /\ MapInv(map, checked) /\ FormsType /\ ThisScript
  BY DEF PageInv
<1>2. Outcome(s)
  BY <1>1, ScanOutcome
<1>3. /\ MapInv(map', checked') /\ FormsType' /\ PendingKept(s) /\ OneForm
      /\ UNCHANGED <<koha, afi, field, noReader, optedOut, page>>
      /\ scans' = [scans EXCEPT ![s] = NoVal] /\ timers' = timers + 1 /\ pollPending' = FALSE
      /\ shown' \in {"none", shown}
  BY <1>2 DEF Outcome, Done, Schedule, world
<1>4. s \in Flight(scans) /\ shown \in {"none", "error", "disabled"}
  BY <1>1 DEF Answered, InFlight, Flight, ThisScript, ScriptInv
<1>5. ThisScript'
  BY <1>1, <1>3, <1>4, ScanOver
<1>6. WorldType'
  BY <1>1, <1>3 DEF WorldType
<1> QED BY <1>3, <1>5, <1>6 DEF Keeps, PageInv

\* AFI writes: sent, answered, failed or aborted.
LEMMA WriteTypes ==
  ASSUME FormsType, NEW w \in WriteSlot, secures[w] # NoVal
  PROVE  /\ secures[w] \in SecureRequest /\ secures[w].book \in Books /\ secures[w].target \in {DA, D7}
         /\ [secures[w] EXCEPT !.at = "done"] \in SecureRequest
         /\ [secures[w] EXCEPT !.live = FALSE] \in SecureRequest
BY DEF FormsType, SecureRequest

LEMMA WriteKeeps ==
  ASSUME PageInv, NEW w \in WriteSlot,
         WriteSucceeds(w) \/ WriteFails(w) \/ WriteAborted(w) \/ WriteAnswered(w)
  PROVE  /\ Keeps
         /\ ~WriteAnswered(w) => PendingStays
         /\ WriteAnswered(w) => \A k \in Keys \ {secures[w].book} : map'[k] = map[k]
<1>1. WorldType /\ MapInv(map, checked) /\ FormsType /\ ThisScript
  BY DEF PageInv
<1>2. /\ UNCHANGED <<koha, field, noReader, page, typed, nav, checked>>
      /\ UNCHANGED <<optedOut, pollPending, timers, shown, scans>>
      /\ secures[w] # NoVal
  BY DEF WriteSucceeds, WriteFails, WriteAborted, WriteAnswered, world, script, Wanted
<1>3. /\ secures[w] \in SecureRequest /\ secures[w].book \in Books /\ secures[w].target \in {DA, D7}
      /\ [secures[w] EXCEPT !.at = "done"] \in SecureRequest
      /\ [secures[w] EXCEPT !.live = FALSE] \in SecureRequest
  BY <1>1, <1>2, WriteTypes
<1>4. PICK v \in SecureRequest \cup {NoVal} : secures' = [secures EXCEPT ![w] = v]
  <2>1. CASE WriteSucceeds(w)
    <3>1. secures' = [secures EXCEPT ![w] =
             IF secures[w].live THEN [secures[w] EXCEPT !.at = "done"] ELSE NoVal]
      BY <2>1 DEF WriteSucceeds
    <3> QED BY <1>3, <3>1
  <2>2. CASE WriteFails(w) \/ WriteAnswered(w)
    BY <2>2 DEF WriteFails, WriteAnswered
  <2>3. CASE WriteAborted(w)
    <3>1. secures' = [secures EXCEPT ![w] =
             IF secures[w].at = "done" THEN NoVal ELSE [secures[w] EXCEPT !.live = FALSE]]
      BY <2>3 DEF WriteAborted
    <3> QED BY <1>3, <3>1
  <2> QED BY <2>1, <2>2, <2>3
<1>5. afi' \in [Books -> {DA, D7}]
  <2>1. afi' = afi \/ afi' = [afi EXCEPT ![secures[w].book] = secures[w].target]
    BY DEF WriteSucceeds, WriteFails, WriteAborted, WriteAnswered, world
  <2> QED BY <1>1, <1>3, <2>1 DEF WorldType
<1>6. WorldType' /\ FormsType' /\ OneForm /\ ThisScript'
  <2>1. secures' \in [WriteSlot -> SecureRequest \cup {NoVal}]
    BY <1>1, <1>4 DEF FormsType
  <2>2. WorldType'
    BY <1>1, <1>2, <1>5 DEF WorldType
  <2>3. FormsType' /\ OneForm
    BY <1>1, <1>2, <2>1 DEF FormsType, OneForm
  <2>4. ThisScript'
    BY <1>1, <1>2 DEF ThisScript
  <2> QED BY <2>2, <2>3, <2>4
<1>7. CASE WriteAnswered(w)
  <2>1. map' = ClearPending(map, secures[w].book) /\ secures[w].book \in Keys
    BY <1>3, <1>7, BooksAreKeys DEF WriteAnswered
  <2>2. /\ MapInv(map', checked')
        /\ \A k \in Keys \ {secures[w].book} : map'[k] = map[k]
    BY <1>1, <1>2, <2>1, ClearPendingKeeps
  <2> QED BY <1>6, <1>7, <2>2 DEF Keeps, PageInv
<1>8. CASE ~WriteAnswered(w)
  <2>1. map' = map
    BY <1>8 DEF WriteSucceeds, WriteFails, WriteAborted, KeepPending
  <2>2. MapInv(map', checked') /\ PendingStays
    BY <1>1, <1>2, <2>1, MapUnchanged
  <2> QED BY <1>6, <1>8, <2>2 DEF Keeps, PageInv
<1> QED BY <1>7, <1>8

\* A page that loads: a blank one, with the old page's writes left to the server.
LEMMA ReadyKeeps ==
  ASSUME PageInv, NEW p \in Page, Ready(p, map),
         UNCHANGED <<koha, afi, field, noReader, checked>>
  PROVE  Keeps /\ PendingStays
<1>1. WorldType /\ MapInv(map, checked) /\ FormsType /\ ThisScript
  BY DEF PageInv
<1>2. page' = p /\ map' = Cleanup(map) /\ typed' = Blank /\ nav' = NoVal
  BY DEF Ready
<1>3. /\ MapInv(map', checked')
      /\ \A k \in Keys : map'[k] = map[k] \/ (map'[k] = NoVal /\ ~(checked[k] < Dedup))
  BY <1>1, <1>2, CleanupKeeps
<1>4. secures' \in [WriteSlot -> SecureRequest \cup {NoVal}]
  <2>1. secures' = [w \in WriteSlot |->
          IF secures[w] = NoVal THEN NoVal
          ELSE IF secures[w].at = "done" THEN NoVal
          ELSE [secures[w] EXCEPT !.live = FALSE]]
    BY DEF Ready
  <2>2. \A w \in WriteSlot : secures[w] # NoVal => [secures[w] EXCEPT !.live = FALSE] \in SecureRequest
    BY <1>1, WriteTypes
  <2> QED BY <2>1, <2>2
<1>5. FormsType'
  <2>1. Blank \in Typed
    BY DEF Blank, Typed
  <2> QED BY <1>2, <1>4, <2>1 DEF FormsType
<1>6. OneForm
  <2>1. nav' \notin Form
    BY <1>2, NoValAssumption
  <2>2. \A k \in Keys, op \in {"checkin", "patron"} : [op |-> op, what |-> k, at |-> "sent"] \in Form
    BY DEF Form
  <2> QED BY <2>1, <2>2 DEF OneForm
<1>7. ThisScript' /\ WorldType'
  BY <1>1, ReadyPolls DEF WorldType
<1>8. PendingStays
  BY <1>3, WindowsStay
<1> QED BY <1>3, <1>5, <1>6, <1>7, <1>8 DEF Keeps, PageInv

\* Koha, the staff and the clock.
LEMMA KohaKeeps ==
  ASSUME PageInv, KohaHandles
  PROVE  Keeps /\ PendingStays
<1>1. WorldType /\ MapInv(map, checked) /\ FormsType /\ ThisScript
  BY DEF PageInv
<1>2. /\ UNCHANGED <<afi, field, map, noReader, page, typed, secures, checked>>
      /\ UNCHANGED <<optedOut, pollPending, timers, shown, scans>>
      /\ nav # NoVal /\ nav' = [nav EXCEPT !.at = "handled"]
  BY DEF KohaHandles, script
<1>3. nav \in Form /\ nav' \in Form /\ nav'.at = "handled"
  BY <1>1, <1>2 DEF FormsType, Form
<1>4. koha' \in [Books -> {"in", "loan"}]
  <2>1. koha' = koha \/ \E v \in {"in", "loan"} : koha' = [koha EXCEPT ![nav.what] = v]
    BY DEF KohaHandles
  <2> QED BY <1>1, <2>1 DEF WorldType
<1>5. WorldType'
  BY <1>1, <1>2, <1>4 DEF WorldType
<1>6. FormsType' /\ OneForm
  BY <1>1, <1>2, <1>3 DEF FormsType, OneForm
<1>7. ThisScript'
  BY <1>1, <1>2 DEF ThisScript
<1> QED BY <1>1, <1>2, <1>5, <1>6, <1>7, MapUnchanged DEF Keeps, PageInv

LEMMA LandingsArePages ==
  ASSUME NEW op \in {"checkin", "checkout", "renew", "patron"}
  PROVE  Landings(op) \subseteq Page
<1>1. \A a \in {"returns", "renew", "circ"}, t \in {"none", "out"}, q \in BOOLEAN :
        [path |-> a, tab |-> t, patron |-> q] \in Page
  BY DEF Page
<1>2. CASE op = "checkin"
  <2>1. Landings(op) = {[path |-> "returns", tab |-> "none", patron |-> FALSE]}
    BY <1>2 DEF Landings
  <2> QED BY <1>1, <2>1
<1>3. CASE op = "renew"
  <2>1. Landings(op) = {[path |-> "renew", tab |-> "none", patron |-> FALSE]}
    BY <1>3 DEF Landings
  <2> QED BY <1>1, <2>1
<1>4. CASE op = "checkout"
  <2>1. Landings(op) = {[path |-> "circ", tab |-> "out", patron |-> TRUE]}
    BY <1>4 DEF Landings
  <2> QED BY <1>1, <2>1
<1>5. CASE op = "patron"
  <2>1. \A l \in Landings(op) : \E q \in BOOLEAN : l = [path |-> "circ", tab |-> "out", patron |-> q]
    BY <1>5 DEF Landings
  <2> QED BY <1>1, <2>1
<1> QED BY <1>2, <1>3, <1>4, <1>5

LEMMA LoadKeeps ==
  ASSUME PageInv, KohaAnswers \/ StaffOpens
  PROVE  Keeps /\ PendingStays
<1>1. UNCHANGED <<koha, afi, field, noReader, checked>>
  BY DEF KohaAnswers, StaffOpens, world
<1>2. PICK p \in Page : Ready(p, map)
  <2>1. CASE KohaAnswers
    <3>1. nav # NoVal /\ nav \in Form \cup {NoVal}
      BY <2>1 DEF KohaAnswers, PageInv, FormsType
    <3>2. nav.op \in {"checkin", "checkout", "renew", "patron"}
      BY <3>1 DEF Form
    <3> QED BY <2>1, <3>2, LandingsArePages DEF KohaAnswers
  <2>2. CASE StaffOpens
    BY <2>2, KohaRfidAssumption DEF StaffOpens
  <2> QED BY <2>1, <2>2
<1> QED BY <1>1, <1>2, ReadyKeeps

LEMMA StaffKeeps ==
  ASSUME PageInv, StaffSwitchesTab \/ StaffMovesTags
  PROVE  Keeps /\ PendingStays
<1>1. WorldType /\ MapInv(map, checked) /\ FormsType /\ ThisScript
  BY DEF PageInv
<1>2. /\ UNCHANGED <<koha, afi, map, noReader, typed, nav, secures, checked>>
      /\ UNCHANGED <<optedOut, pollPending, timers, shown, scans>>
  BY DEF StaffSwitchesTab, StaffMovesTags, script, world
<1>3. page' \in Page
  <2>1. CASE StaffSwitchesTab
    BY <1>1, <2>1 DEF StaffSwitchesTab, FormsType, Page
  <2>2. CASE StaffMovesTags
    BY <1>1, <2>2 DEF StaffMovesTags, FormsType
  <2> QED BY <2>1, <2>2
<1>4. field' \in SUBSET Tags
  BY <1>1 DEF StaffSwitchesTab, StaffMovesTags, world, WorldType
<1>5. WorldType' /\ FormsType' /\ OneForm
  BY <1>1, <1>2, <1>3, <1>4 DEF WorldType, FormsType, OneForm
<1>6. ThisScript'
  BY <1>1, <1>2 DEF ThisScript
<1> QED BY <1>1, <1>2, <1>5, <1>6, MapUnchanged DEF Keeps, PageInv

LEMMA EmptyMap ==
  MapInv(NoEntries, [k \in Keys |-> Dedup + 1])
<1>1. Dedup + 1 \in Age(Dedup) /\ ~(Dedup + 1 < Dedup)
  BY TheNumbers, SMT DEF Numbers, Age
<1>2. ASSUME NEW k \in Keys PROVE EntryInv(k, NoVal, Dedup + 1)
  BY <1>1 DEF EntryInv
<1> QED BY <1>2 DEF MapInv, NoEntries

LEMMA ClockKeeps ==
  ASSUME PageInv, StaffResets \/ Tick
  PROVE  Keeps /\ (Tick => PendingStays)
<1>1. WorldType /\ MapInv(map, checked) /\ FormsType /\ ThisScript
  BY DEF PageInv
<1>2. /\ UNCHANGED <<koha, afi, field, noReader, page, typed, nav, secures>>
      /\ UNCHANGED <<optedOut, pollPending, timers, shown, scans>>
  BY DEF StaffResets, Tick, script, world
<1>3. WorldType' /\ FormsType' /\ OneForm
  BY <1>1, <1>2 DEF WorldType, FormsType, OneForm
<1>4. ThisScript'
  BY <1>1, <1>2 DEF ThisScript
<1>5. ASSUME StaffResets PROVE MapInv(map', checked')
  BY <1>5, EmptyMap DEF StaffResets
<1>6. ASSUME Tick PROVE MapInv(map', checked') /\ PendingStays
  <2> DEFINE m == map
             c == checked
             n == map'
             d == checked'
  <2>1. n = [k \in Keys |-> Ticked(m[k])]
    BY <1>6 DEF Tick, Ticked
  <2>2. d = [k \in Keys |-> Older(c[k], Dedup)]
    BY <1>6 DEF Tick
  <2>3. MapInv(m, c)
    BY <1>1
  <2> HIDE DEF m, c, n, d
  <2>4. /\ MapInv(n, d)
        /\ \A k \in Keys : /\ m[k] = NoVal <=> n[k] = NoVal
                           /\ m[k] # NoVal => n[k].pending = m[k].pending
    BY <2>1, <2>2, <2>3, TickKeeps
  <2>5. PendingStays
    BY <2>4, BooksAreKeys DEF PendingStays, Pending, m, n
  <2> QED BY <2>4, <2>5 DEF n, d
<1>7. MapInv(map', checked')
  BY <1>5, <1>6
<1> QED BY <1>3, <1>4, <1>6, <1>7 DEF Keeps, PageInv

-----------------------------------------------------------------------------
(***************************************************************************)
(* Two tabs, and the theorems.                                             *)
(***************************************************************************)
LEMMA ATab ==
  ASSUME FormsType, ThisScript
  PROVE  ThisTab \in TabState /\ TabScript(ThisTab)
<1>1. timers \in 0 .. Chains
  <2>1. /\ timers \in Nat /\ Cardinality(Flight(scans)) \in Nat /\ Chains \in Nat
        /\ timers + Cardinality(Flight(scans)) <= Chains
    BY ScriptFacts DEF ThisScript
  <2>2. \A a, b, c \in Nat : a + b <= c => a \in 0 .. c
    BY SMT
  <2> QED BY <2>1, <2>2
<1>2. /\ optedOut \in BOOLEAN /\ pollPending \in BOOLEAN
      /\ shown \in {"none", "error", "disabled"} /\ scans \in [Slot -> ScanRequest \cup {NoVal}]
  BY DEF ThisScript, ScriptInv, Scans
<1>3. ThisTab \in TabState
  BY <1>1, <1>2 DEF ThisTab, TabState, FormsType, Typed
<1>4. TabScript(ThisTab)
  BY DEF ThisTab, TabScript, ThisScript
<1> QED BY <1>3, <1>4

LEMMA TabFields ==
  ASSUME NEW tab \in TabState
  PROVE  /\ tab.page \in Page /\ tab.typed \in Typed /\ tab.nav \in Form \cup {NoVal}
         /\ tab.secures \in [WriteSlot -> SecureRequest \cup {NoVal}]
BY DEF TabState, Typed

LEMMA InitTypes ==
  ASSUME Init
  PROVE  TypeInv
<1>1. WorldType
  <2>1. /\ koha \in [Books -> {"in", "loan"}] /\ afi = [b \in Books |-> AfiFor(koha[b])]
        /\ field \in SUBSET Tags /\ noReader = FALSE
    BY DEF Init
  <2>2. \A v : AfiFor(v) \in {DA, D7}
    BY DEF AfiFor
  <2> QED BY <2>1, <2>2 DEF WorldType
<1>2. MapInv(map, checked)
  BY EmptyMap DEF Init
<1>3. FormsType
  <2>1. /\ page \in Pages /\ typed = Blank /\ nav = NoVal
        /\ secures = [w \in WriteSlot |-> NoVal]
    BY DEF Init
  <2>2. Blank \in Typed /\ Pages \subseteq Page
    BY KohaRfidAssumption DEF Blank, Typed
  <2> QED BY <2>1, <2>2 DEF FormsType
<1>4. ThisScript
  <2>1. /\ timers = 0 /\ shown = "none" /\ optedOut = FALSE /\ pollPending = TRUE
        /\ scans = [NoScan EXCEPT ![1] = Asked]
    BY DEF Init
  <2>2. NoScan \in Scans /\ Flight(NoScan) = {}
    BY DEF NoScan, Scans, Flight
  <2>3. Chains \in Nat /\ 1 \in Slot /\ 0 + 1 <= Chains
    BY KohaRfidAssumption, SMT DEF Slot
  <2>4. scans \in Scans /\ Flight(scans) = {} \cup {1}
    <3>1. /\ [NoScan EXCEPT ![1] = Asked] \in Scans
          /\ Flight([NoScan EXCEPT ![1] = Asked]) = Flight(NoScan) \cup {1}
      BY <2>2, <2>3, AskedType, FlightChanges, Zenon
    <3> QED BY <2>1, <2>2, <3>1, Zenon
  <2>5. Cardinality(Flight(scans)) = 1 /\ Flight(scans) # {}
    BY <2>4, FS_Singleton
  <2>6. scans[1] = Asked
    BY <2>1, <2>2, <2>3 DEF Scans
  <2> QED BY <2>1, <2>3, <2>4, <2>5, <2>6 DEF ThisScript, ScriptInv
<1>5. ASSUME other # NoVal PROVE other \in TabState /\ TabScript(other)
  <2>1. PICK p \in Pages : other = [ThisTab EXCEPT !.page = p]
    BY <1>5 DEF Init
  <2>2. ThisTab \in TabState /\ TabScript(ThisTab) /\ p \in Page
    BY <1>3, <1>4, ATab, KohaRfidAssumption
  <2>3. other \in TabState
    BY <2>1, <2>2 DEF TabState
  <2>4. TabScript(other)
    BY <2>1, <2>2 DEF TabScript, ThisTab
  <2> QED BY <2>3, <2>4
<1> QED BY <1>1, <1>2, <1>3, <1>4, <1>5 DEF TypeInv, PageInv

LEMMA CallbackKeeps ==
  ASSUME PageInv, Callback
  PROVE  Keeps
<1>1. CASE TimerFires \/ StaffRetries \/ StaffOptsOut \/ \E s \in Slot : ScanAnswers(s) \/ ScanFails(s)
  BY <1>1, PollKeeps
<1>2. CASE \E s \in Answered : Scan(s)
  BY <1>2, ScanKeeps
<1>3. CASE \E w \in WriteSlot :
             WriteSucceeds(w) \/ WriteFails(w) \/ WriteAnswered(w) \/ WriteAborted(w)
  BY <1>3, WriteKeeps
<1>4. CASE KohaHandles
  BY <1>4, KohaKeeps
<1>5. CASE KohaAnswers \/ StaffOpens
  BY <1>5, LoadKeeps
<1>6. CASE StaffSwitchesTab \/ StaffMovesTags
  BY <1>6, StaffKeeps
<1>7. CASE StaffResets \/ Tick
  BY <1>7, ClockKeeps
<1> QED BY <1>1, <1>2, <1>3, <1>4, <1>5, <1>6, <1>7 DEF Callback

LEMMA SwitchKeeps ==
  ASSUME TypeInv, SwitchTabs
  PROVE  TypeInv'
<1>1. /\ WorldType /\ MapInv(map, checked) /\ FormsType /\ ThisScript
      /\ other \in TabState /\ TabScript(other)
  BY DEF TypeInv, PageInv, SwitchTabs
<1>2. WorldType' /\ MapInv(map', checked')
  BY <1>1 DEF SwitchTabs, WorldType, world
<1>3. FormsType'
  <2>1. /\ page' = other.page /\ typed' = other.typed /\ nav' = other.nav /\ secures' = other.secures
    BY DEF SwitchTabs
  <2> QED BY <1>1, <2>1, TabFields DEF FormsType
<1>4. ThisScript'
  BY <1>1 DEF SwitchTabs, ThisScript, TabScript
<1>5. other' \in TabState /\ TabScript(other')
  BY <1>1, ATab DEF SwitchTabs
<1> QED BY <1>2, <1>3, <1>4, <1>5 DEF TypeInv, PageInv

LEMMA StutterKeeps ==
  ASSUME TypeInv, UNCHANGED vars
  PROVE  TypeInv'
<1>1. /\ UNCHANGED <<koha, afi, field, map, noReader, page, typed, nav, secures, other, checked>>
      /\ UNCHANGED <<optedOut, pollPending, timers, shown, scans>>
  BY DEF vars, world, script
<1>2. WorldType' /\ FormsType'
  BY <1>1 DEF TypeInv, PageInv, WorldType, FormsType
<1>3. ThisScript' /\ MapInv(map', checked')
  BY <1>1 DEF TypeInv, PageInv, ThisScript
<1> QED BY <1>1, <1>2, <1>3 DEF TypeInv, PageInv

LEMMA Inductive == Spec => []TypeInv
<1>1. Init => TypeInv
  BY InitTypes
<1>2. TypeInv /\ [Next]_vars => TypeInv'
  <2> SUFFICES ASSUME TypeInv, [Next]_vars PROVE TypeInv'
    OBVIOUS
  <2>1. CASE Callback /\ other' = other
    <3>1. PageInv'
      BY <2>1, CallbackKeeps DEF TypeInv, Keeps
    <3> QED BY <2>1, <3>1 DEF TypeInv
  <2>2. CASE SwitchTabs
    BY <2>2, SwitchKeeps
  <2>3. CASE UNCHANGED vars
    BY <2>3, StutterKeeps
  <2> QED BY <2>1, <2>2, <2>3 DEF Next
<1> QED BY <1>1, <1>2, PTL DEF Spec

\* Both tabs' variables, localStorage, Koha and the tags have their types,
\* and a tab has never more than Chains polls under way.
THEOREM TypeCorrect == Spec => []TypeOK
<1>1. TypeInv => TypeOK
  <2> SUFFICES ASSUME TypeInv PROVE TypeOK
    OBVIOUS
  <2>1. WorldType /\ MapInv(map, checked) /\ FormsType /\ ThisScript
    BY DEF TypeInv, PageInv
  <2>2. map \in [Keys -> Entry \cup {NoVal}] /\ checked \in [Keys -> Age(Dedup)]
    BY <2>1 DEF MapInv, EntryInv
  <2>3. ThisTab \in TabState /\ other \in TabState \cup {NoVal}
    BY <2>1, ATab DEF TypeInv
  <2>4. timers + Cardinality(InFlight) <= Chains
    BY <2>1 DEF ThisScript, ScriptInv, InFlight, Flight
  <2> QED BY <2>1, <2>2, <2>3, <2>4 DEF TypeOK, WorldType
<1> QED BY <1>1, Inductive, PTL

\* A poll is on its way, or a timer for one is set, until the librarian opts
\* out: every end of a scan, a failed one too, sets the next timer, and the
\* flag rfid_poll_pending is only set for a request in flight.
THEOREM PollingNeverStops == Spec => []PollingGoesOn
<1>1. TypeInv => PollingGoesOn
  BY DEF TypeInv, PageInv, ThisScript, ScriptInv, PollingGoesOn, InFlight, Flight
<1> QED BY <1>1, Inductive, PTL

\* A book is checked in, and a patron looked up, once per window of ten
\* seconds, from whichever tab: while the window is open its map entry has a
\* submit time of that age at most, which nothing but the reset takes away.
THEOREM OneFormPerWindow == Spec => OneSubmitPerWindow
<1>1. TypeInv /\ [Next]_vars =>
        [\A k \in Keys, op \in {"checkin", "patron"} :
           nav' # nav /\ nav' = [op |-> op, what |-> k, at |-> "sent"] /\ ~SwitchTabs
             => checked[k] >= Dedup]_vars
  <2> SUFFICES ASSUME TypeInv, [Next]_vars, ~SwitchTabs, NEW k \in Keys,
                      NEW op \in {"checkin", "patron"},
                      nav' # nav, nav' = [op |-> op, what |-> k, at |-> "sent"]
               PROVE  checked[k] >= Dedup
    OBVIOUS
  <2>1. CASE Callback
    <3>1. OneForm
      BY <2>1, CallbackKeeps DEF TypeInv, Keeps
    <3> QED BY <3>1 DEF OneForm
  <2>2. CASE UNCHANGED vars
    BY <2>2 DEF vars
  <2> QED BY <2>1, <2>2 DEF Next
<1> QED BY <1>1, Inductive, PTL DEF Spec, OneSubmitPerWindow

-----------------------------------------------------------------------------
(***************************************************************************)
(* A server that takes one request after the other.  One answer or one AFI *)
(* write is on its way, of all tabs' requests; the answer shows what the   *)
(* tags still have, and the write is the pending one.                      *)
(***************************************************************************)
Answers(sc)   == {s \in Slot : sc[s] # NoVal /\ sc[s].at = "answered"}
Writing(se)   == {w \in WriteSlot : se[w] # NoVal}
Quiet(sc, se) == Answers(sc) = {} /\ Writing(se) = {}

Single(sc, se) ==
  /\ \A s, t \in Answers(sc) : s = t
  /\ \A v, w \in Writing(se) : v = w
  /\ Answers(sc) = {} \/ Writing(se) = {}

ItemTrue(a, x) == x.content \in Books => x.security \in {NoVal, a[x.content]}

WriteTrue(a, m, v) ==
  /\ PendingIn(m, v.book) \in {NoVal, v.target}
  /\ v.at = "done" => a[v.book] = v.target

Honest(a, m, sc, se) ==
  /\ Single(sc, se)
  /\ \A s \in Answers(sc) : \A x \in sc[s].tags : ItemTrue(a, x)
  /\ \A w \in Writing(se) : WriteTrue(a, m, se[w])

OneAtATime ==
  /\ Honest(afi, map, scans, secures)
  /\ other # NoVal =>
       /\ Honest(afi, map, other.scans, other.secures)
       /\ Quiet(scans, secures) \/ Quiet(other.scans, other.secures)

\* No answer and no write is new, and a pending AFI is at most dropped.
Less(sc, d, se, e) ==
  /\ \A s \in Slot : d[s] \in {sc[s], NoVal, Asked}
  /\ \A w \in WriteSlot :
       e[w] # NoVal => /\ se[w] # NoVal
                       /\ e[w].book = se[w].book /\ e[w].target = se[w].target /\ e[w].at = se[w].at

Dropped(m, n) == \A k \in Books : PendingIn(n, k) \in {NoVal, PendingIn(m, k)}

LEMMA QuietIsHonest ==
  ASSUME NEW a, NEW m, NEW sc, NEW se, Quiet(sc, se)
  PROVE  Honest(a, m, sc, se)
BY DEF Quiet, Honest, Single

LEMMA LessIsHonest ==
  ASSUME NEW a, NEW m, NEW n, Dropped(m, n),
         NEW sc, NEW d, NEW se, NEW e, Less(sc, d, se, e),
         \A w \in Writing(se) : se[w].book \in Books
  PROVE  /\ Honest(a, m, sc, se) => Honest(a, n, d, e)
         /\ Quiet(sc, se) => Quiet(d, e)
<1>1. ASSUME NEW s \in Answers(d) PROVE s \in Answers(sc) /\ d[s] = sc[s]
  <2>1. d[s] # NoVal /\ d[s].at = "answered" /\ Asked.at = "asked"
    BY DEF Answers, Asked
  <2>2. d[s] = sc[s]
    BY <2>1 DEF Less, Answers
  <2> QED BY <2>1, <2>2 DEF Answers
<1>2. ASSUME NEW w \in Writing(e)
      PROVE  /\ w \in Writing(se)
             /\ e[w].book = se[w].book /\ e[w].target = se[w].target /\ e[w].at = se[w].at
  BY DEF Less, Writing
<1>3. Quiet(sc, se) => Quiet(d, e)
  BY <1>1, <1>2 DEF Quiet
<1>4. ASSUME Honest(a, m, sc, se) PROVE Honest(a, n, d, e)
  <2>1. Single(d, e)
    BY <1>1, <1>2, <1>4 DEF Honest, Single
  <2>2. \A s \in Answers(d) : \A x \in d[s].tags : ItemTrue(a, x)
    BY <1>1, <1>4 DEF Honest
  <2>3. ASSUME NEW w \in Writing(e) PROVE WriteTrue(a, n, e[w])
    <3>1. WriteTrue(a, m, se[w]) /\ se[w].book \in Books
      BY <1>2, <1>4 DEF Honest
    <3>2. PendingIn(n, se[w].book) \in {NoVal, se[w].target}
      BY <3>1 DEF WriteTrue, Dropped
    <3> QED BY <1>2, <3>1, <3>2 DEF WriteTrue
  <2> QED BY <2>1, <2>2, <2>3 DEF Honest
<1> QED BY <1>3, <1>4

LEMMA NothingDropped ==
  ASSUME NEW m
  PROVE  Dropped(m, m)
BY DEF Dropped

\* A callback that asks nothing new of the server and leaves the tags alone.
LEMMA LessKeeps ==
  ASSUME TypeInv, OneAtATime, Dropped(map, map'), Less(scans, scans', secures, secures'),
         afi' = afi, other' = other
  PROVE  OneAtATime'
<1>1. \A w \in Writing(secures) : secures[w].book \in Books
  BY WriteTypes DEF Writing, TypeInv, PageInv
<1>2. /\ Honest(afi, map, scans, secures) => Honest(afi, map', scans', secures')
      /\ Quiet(scans, secures) => Quiet(scans', secures')
  BY <1>1, LessIsHonest
<1>3. ASSUME other # NoVal
      PROVE  Honest(afi, map, other.scans, other.secures) =>
               Honest(afi, map', other.scans, other.secures)
  <2> DEFINE sc == other.scans
             se == other.secures
  <2>1. se \in [WriteSlot -> SecureRequest \cup {NoVal}]
    BY <1>3, TabFields DEF TypeInv
  <2>2. \A w \in Writing(se) : se[w].book \in Books
    BY <2>1 DEF Writing, SecureRequest
  <2>3. Less(sc, sc, se, se)
    BY DEF Less
  <2> HIDE DEF sc, se
  <2>4. Honest(afi, map, sc, se) => Honest(afi, map', sc, se)
    BY <2>2, <2>3, LessIsHonest
  <2> QED BY <2>4 DEF sc, se
<1> QED BY <1>2, <1>3 DEF OneAtATime

LEMMA PollIsLess ==
  ASSUME PageInv, TimerFires \/ StaffRetries \/ StaffOptsOut \/ \E s \in Slot : ScanFails(s)
  PROVE  Dropped(map, map') /\ Less(scans, scans', secures, secures') /\ afi' = afi
<1>1. map' = map /\ secures' = secures /\ afi' = afi
  BY DEF TimerFires, StaffRetries, StaffOptsOut, ScanFails, world
<1>2. scans' = scans \/ \E s \in Slot : \E v \in {NoVal, Asked} : scans' = [scans EXCEPT ![s] = v]
  <2>1. ASSUME NEW off, Poll(off)
        PROVE  scans' = scans \/ \E s \in Slot : scans' = [scans EXCEPT ![s] = Asked]
    BY <2>1 DEF Poll
  <2> QED BY <2>1 DEF TimerFires, StaffRetries, StaffOptsOut, ScanFails, InFlight
<1>3. scans \in Scans
  BY DEF PageInv, ThisScript, ScriptInv
<1>4. Less(scans, scans', secures, secures')
  BY <1>1, <1>2, <1>3 DEF Less, Scans
<1> QED BY <1>1, <1>4, NothingDropped

LEMMA WriteIsLess ==
  ASSUME PageInv, NEW w \in WriteSlot,
         WriteFails(w) \/ WriteAborted(w) \/ WriteAnswered(w), afi' = afi
  PROVE  Dropped(map, map') /\ Less(scans, scans', secures, secures')
<1>1. scans' = scans /\ secures[w] # NoVal
  BY DEF WriteFails, WriteAborted, WriteAnswered, script, Wanted
<1>2. PICK v \in {NoVal, [secures[w] EXCEPT !.live = FALSE]} : secures' = [secures EXCEPT ![w] = v]
  <2>1. CASE WriteFails(w) \/ WriteAnswered(w)
    BY <2>1 DEF WriteFails, WriteAnswered
  <2>2. CASE WriteAborted(w)
    <3>1. secures' = [secures EXCEPT ![w] =
             IF secures[w].at = "done" THEN NoVal ELSE [secures[w] EXCEPT !.live = FALSE]]
      BY <2>2 DEF WriteAborted
    <3> QED BY <3>1
  <2> QED BY <2>1, <2>2
<1>3. secures \in [WriteSlot -> SecureRequest \cup {NoVal}] /\ secures[w] \in SecureRequest
  BY <1>1 DEF PageInv, FormsType
<1>4. v # NoVal => v.book = secures[w].book /\ v.target = secures[w].target /\ v.at = secures[w].at
  BY <1>2, <1>3 DEF SecureRequest
<1>5. Less(scans, scans', secures, secures')
  BY <1>1, <1>2, <1>3, <1>4 DEF Less
<1>6. Dropped(map, map')
  <2>1. CASE map' = map
    BY <2>1, NothingDropped
  <2>2. CASE map' = ClearPending(map, secures[w].book)
    <3>1. secures[w].book \in Keys /\ map = [k \in Keys |-> map[k]]
          /\ \A k \in Keys : map[k] # NoVal => map[k] \in Entry
      BY <1>1, WriteTypes, BooksAreKeys DEF PageInv, MapInv, EntryInv
    <3>2. ASSUME NEW k \in Books PROVE PendingIn(map', k) \in {NoVal, PendingIn(map, k)}
      <4>1. CASE k # secures[w].book \/ map[k] = NoVal
        BY <2>2, <3>1, <4>1, BooksAreKeys DEF ClearPending, PendingIn
      <4>2. CASE k = secures[w].book /\ map[k] # NoVal
        <5>1. map'[k] = [map[k] EXCEPT !.pending = NoVal, !.time = 0]
          BY <2>2, <3>1, <4>2 DEF ClearPending
        <5>2. map'[k].pending = NoVal
          BY <3>1, <4>2, <5>1, BooksAreKeys DEF Entry
        <5> QED BY <5>2 DEF PendingIn
      <4> QED BY <4>1, <4>2
    <3> QED BY <3>2 DEF Dropped
  <2> QED BY <2>1, <2>2 DEF WriteFails, WriteAborted, WriteAnswered, KeepPending
<1> QED BY <1>5, <1>6

LEMMA LoadIsLess ==
  ASSUME PageInv, NEW p, Ready(p, map)
  PROVE  Dropped(map, map') /\ Less(scans, scans', secures, secures')
<1>1. Dropped(map, map')
  <2>1. map' = Cleanup(map)
    BY DEF Ready
  <2>2. \A k \in Keys : map'[k] = map[k] \/ map'[k] = NoVal
    BY <2>1 DEF Cleanup
  <2> QED BY <2>2, BooksAreKeys DEF Dropped, PendingIn
<1>2. \A s \in Slot : scans'[s] \in {NoVal, Asked}
  <2>1. scans' = NoScan \/ scans' = [NoScan EXCEPT ![1] = Asked]
    BY DEF Ready
  <2>2. \A s \in Slot : NoScan[s] = NoVal /\ [NoScan EXCEPT ![1] = Asked][s] \in {NoVal, Asked}
    BY DEF NoScan
  <2> QED BY <2>1, <2>2
<1>3. ASSUME NEW w \in WriteSlot, secures'[w] # NoVal
      PROVE  /\ secures[w] # NoVal
             /\ secures'[w].book = secures[w].book /\ secures'[w].target = secures[w].target
             /\ secures'[w].at = secures[w].at
  <2>1. secures' = [v \in WriteSlot |->
          IF secures[v] = NoVal THEN NoVal
          ELSE IF secures[v].at = "done" THEN NoVal
          ELSE [secures[v] EXCEPT !.live = FALSE]]
    BY DEF Ready
  <2>2. secures[w] # NoVal /\ secures'[w] = [secures[w] EXCEPT !.live = FALSE]
    BY <1>3, <2>1
  <2>3. secures[w] \in SecureRequest
    BY <2>2, WriteTypes DEF PageInv
  <2> QED BY <2>2, <2>3 DEF SecureRequest
<1> QED BY <1>1, <1>2, <1>3 DEF Less

LEMMA OthersAreLess ==
  ASSUME PageInv,
         KohaHandles \/ StaffSwitchesTab \/ StaffMovesTags \/ StaffResets \/ Tick
  PROVE  Dropped(map, map') /\ Less(scans, scans', secures, secures') /\ afi' = afi
<1>1. scans' = scans /\ secures' = secures /\ afi' = afi
  BY DEF KohaHandles, StaffSwitchesTab, StaffMovesTags, StaffResets, Tick, script, world
<1>2. Less(scans, scans', secures, secures')
  BY <1>1 DEF Less
<1>3. CASE KohaHandles \/ StaffSwitchesTab \/ StaffMovesTags
  <2>1. map' = map
    BY <1>3 DEF KohaHandles, StaffSwitchesTab, StaffMovesTags
  <2> QED BY <1>1, <1>2, <2>1, NothingDropped
<1>4. CASE StaffResets
  <2>1. \A k \in Keys : map'[k] = NoVal
    BY <1>4 DEF StaffResets, NoEntries
  <2> QED BY <1>1, <1>2, <2>1, BooksAreKeys DEF Dropped, PendingIn
<1>5. CASE Tick
  <2>1. map' = [k \in Keys |-> Ticked(map[k])]
    BY <1>5 DEF Tick, Ticked
  <2>2. ASSUME NEW k \in Books PROVE PendingIn(map', k) \in {NoVal, PendingIn(map, k)}
    <3>1. k \in Keys /\ map'[k] = Ticked(map[k])
      BY <2>1, BooksAreKeys
    <3>2. map[k] \in Entry \cup {NoVal}
      BY <3>1 DEF PageInv, MapInv, EntryInv
    <3>3. CASE map[k] = NoVal
      BY <3>1, <3>3 DEF PendingIn, Ticked
    <3>4. CASE map[k] \in Entry
      <4>1. Ticked(map[k]) \in Entry /\ Ticked(map[k]).pending = map[k].pending
        BY <3>4, TickedFields
      <4> QED BY <3>1, <3>4, <4>1, TheNumbers DEF PendingIn
    <3> QED BY <3>2, <3>3, <3>4
  <2>3. Dropped(map, map')
    BY <2>2 DEF Dropped
  <2> QED BY <1>1, <1>2, <2>3
<1> QED BY <1>3, <1>4, <1>5

\* The server writes a tag: the only request there is.
LEMMA WrittenIsTrue ==
  ASSUME TypeInv, OneAtATime, NEW w \in WriteSlot, secures[w] # NoVal,
         afi' = [afi EXCEPT ![secures[w].book] = secures[w].target],
         map' = map, scans' = scans, other' = other,
         \/ secures' = [secures EXCEPT ![w] = NoVal]
         \/ secures' = [secures EXCEPT ![w] = [secures[w] EXCEPT !.at = "done"]]
  PROVE  OneAtATime'
<1>1. /\ afi \in [Books -> {DA, D7}] /\ secures \in [WriteSlot -> SecureRequest \cup {NoVal}]
      /\ secures[w] \in SecureRequest /\ secures[w].book \in Books
  BY WriteTypes DEF TypeInv, PageInv, WorldType, FormsType
<1>2. /\ w \in Writing(secures) /\ Answers(scans) = {} /\ \A v \in Writing(secures) : v = w
      /\ WriteTrue(afi, map, secures[w])
  BY DEF Writing, OneAtATime, Honest, Single
<1>3. afi'[secures[w].book] = secures[w].target
  BY <1>1
<1>4. Honest(afi', map', scans', secures')
  <2>1. Answers(scans') = {}
    BY <1>2
  <2>2. ASSUME NEW v \in Writing(secures') PROVE v = w
    <3>1. v \in Writing(secures) \/ v = w
      BY <1>1 DEF Writing
    <3> QED BY <1>2, <3>1
  <2>3. ASSUME w \in Writing(secures') PROVE WriteTrue(afi', map', secures'[w])
    <3>1. secures'[w] = [secures[w] EXCEPT !.at = "done"]
      BY <1>1, <2>3 DEF Writing
    <3>2. secures'[w].book = secures[w].book /\ secures'[w].target = secures[w].target
      BY <1>1, <3>1 DEF SecureRequest
    <3> QED BY <1>2, <1>3, <3>2 DEF WriteTrue
  <2> QED BY <2>1, <2>2, <2>3 DEF Honest, Single
<1>5. ASSUME other # NoVal
      PROVE  /\ Honest(afi', map', other'.scans, other'.secures)
             /\ Quiet(other'.scans, other'.secures)
  <2>1. Quiet(other.scans, other.secures)
    BY <1>2, <1>5 DEF OneAtATime, Quiet
  <2> QED BY <2>1, QuietIsHonest
<1> QED BY <1>4, <1>5 DEF OneAtATime

\* The server answers a scan, with nothing else to do.
LEMMA AnswerIsTrue ==
  ASSUME TypeInv, OneAtATime, InOrder, NEW s \in Slot, ScanAnswers(s), other' = other
  PROVE  OneAtATime'
<1>1. /\ Answered = {} /\ OtherWaits /\ \A w \in WriteSlot : secures[w] = NoVal
      /\ afi' = afi /\ map' = map /\ secures' = secures
  BY DEF ScanAnswers, world
<1>2. PICK read \in [field -> UNION {Readings(t) : t \in field}] :
        /\ \A t \in field : read[t] \in Readings(t)
        /\ scans' = [scans EXCEPT ![s] = [at |-> "answered", tags |-> {read[t] : t \in field}]]
  BY DEF ScanAnswers
<1>3. scans \in Scans
  BY DEF TypeInv, PageInv, ThisScript, ScriptInv
<1>4. \A r \in Answers(scans') : r = s
  BY <1>1, <1>2, <1>3 DEF Answers, Answered, InFlight, Scans
<1>5. ASSUME NEW t \in field PROVE ItemTrue(afi, read[t])
  <2>1. read[t] \in Readings(t) /\ t \in Tags
    BY <1>2 DEF TypeInv, PageInv, WorldType
  <2>2. /\ read[t].content \in {t, Garbled, Empty}
        /\ read[t].security \in {IF t \in Books THEN afi[t] ELSE DA, NoVal}
    BY <2>1 DEF Readings
  <2>3. Garbled \notin Books /\ Empty \notin Books
    BY KohaRfidAssumption DEF Tags
  <2> QED BY <2>2, <2>3 DEF ItemTrue
<1>6. ASSUME NEW r \in Answers(scans'), NEW x \in scans'[r].tags PROVE ItemTrue(afi', x)
  <2>1. scans'[s] = [at |-> "answered", tags |-> {read[t] : t \in field}]
    BY <1>2, <1>3 DEF Scans
  <2>2. x \in {read[t] : t \in field}
    BY <1>4, <1>6, <2>1
  <2> QED BY <1>1, <1>5, <2>2
<1>7. Writing(secures') = {}
  BY <1>1 DEF Writing
<1>8. Honest(afi', map', scans', secures')
  BY <1>4, <1>6, <1>7 DEF Honest, Single
<1>9. ASSUME other # NoVal PROVE Quiet(other.scans, other.secures)
  <2>1. /\ \A r \in Slot : other.scans[r] \in {NoVal, Asked}
        /\ \A w \in WriteSlot : other.secures[w] = NoVal
    BY <1>1, <1>9 DEF OtherWaits
  <2>2. Asked.at = "asked"
    BY DEF Asked
  <2> QED BY <2>1, <2>2 DEF Quiet, Answers, Writing
<1> QED BY <1>8, <1>9, QuietIsHonest DEF OneAtATime

\* The write a scan asks for is the pending one, and its answer is used up.
LEMMA ScanWrites ==
  ASSUME MapInv(map, checked), NEW s, Scan(s)
  PROVE  \/ secures' = secures
         \/ \E w \in WriteSlot, b \in Books :
              /\ secures' = [secures EXCEPT ![w] =
                   [book |-> b, target |-> Pending(b), at |-> "sent", live |-> TRUE]]
              /\ PendingIn(map', b) = Pending(b)
<1>1. CASE \E x \in Chosen(scans[s].tags) : WritePending(s, x)
  <2>1. PICK x \in Chosen(scans[s].tags) : WritePending(s, x)
    BY <1>1
  <2>2. PICK w \in WriteSlot : secures' = [secures EXCEPT ![w] =
          [book |-> x.content, target |-> Pending(x.content), at |-> "sent", live |-> TRUE]]
    BY <2>1 DEF WritePending
  <2>3. x.content \in Books /\ map' = Seen(s) /\ Pending(x.content) # NoVal
    BY <2>1 DEF WritePending, IsBook
  <2>4. PendingIn(map', x.content) = Pending(x.content)
    BY <2>3, LastSeenKeeps, BooksAreKeys DEF Seen, PendingIn, Pending
  <2> QED BY <2>2, <2>3, <2>4
<1>2. CASE ~\E x \in Chosen(scans[s].tags) : WritePending(s, x)
  BY <1>2 DEF Scan, NothingToDo, PendingWritten, Skip, Checkin, Renew, Checkout, Note, Label,
              PatronCard, Idly
<1> QED BY <1>1, <1>2

LEMMA ScanIsTrue ==
  ASSUME TypeInv, OneAtATime, NEW s \in Answered, Scan(s), other' = other
  PROVE  OneAtATime'
<1>1. /\ MapInv(map, checked) /\ scans \in Scans /\ s \in Slot
      /\ secures \in [WriteSlot -> SecureRequest \cup {NoVal}]
  BY DEF TypeInv, PageInv, FormsType, ThisScript, ScriptInv, Answered, InFlight
<1>2. s \in Answers(scans) /\ (\A r \in Answers(scans) : r = s) /\ Writing(secures) = {}
  BY <1>1 DEF Answered, InFlight, Answers, OneAtATime, Honest, Single
<1>3. scans' = [scans EXCEPT ![s] = NoVal] /\ afi' = afi
  <2>1. Outcome(s)
    BY ScanOutcome DEF TypeInv, PageInv
  <2> QED BY <2>1 DEF Outcome, Done, world
<1>4. Answers(scans') = {}
  BY <1>1, <1>2, <1>3 DEF Answers, Scans
<1>5. Honest(afi', map', scans', secures')
  <2>1. CASE secures' = secures
    BY <1>2, <1>4, <2>1, QuietIsHonest DEF Quiet
  <2>2. ASSUME NEW w \in WriteSlot, NEW b \in Books,
               secures' = [secures EXCEPT ![w] =
                  [book |-> b, target |-> Pending(b), at |-> "sent", live |-> TRUE]],
               PendingIn(map', b) = Pending(b)
        PROVE  Honest(afi', map', scans', secures')
    <3>1. \A v \in Writing(secures') : v = w
      BY <1>1, <1>2, <2>2 DEF Writing
    <3>2. secures'[w] = [book |-> b, target |-> Pending(b), at |-> "sent", live |-> TRUE]
      BY <1>1, <2>2
    <3>3. WriteTrue(afi', map', secures'[w])
      BY <2>2, <3>2 DEF WriteTrue
    <3> QED BY <1>4, <3>1, <3>3 DEF Honest, Single
  <2> QED BY <1>1, <2>1, <2>2, ScanWrites
<1>6. ASSUME other # NoVal PROVE Quiet(other.scans, other.secures)
  BY <1>2, <1>6 DEF OneAtATime, Quiet
<1> QED BY <1>5, <1>6, QuietIsHonest DEF OneAtATime

LEMMA CallbackIsTrue ==
  ASSUME InOrder, TypeInv, OneAtATime, Callback, other' = other
  PROVE  OneAtATime'
<1>1. PageInv
  BY DEF TypeInv
<1>2. CASE TimerFires \/ StaffRetries \/ StaffOptsOut \/ \E s \in Slot : ScanFails(s)
  BY <1>1, <1>2, PollIsLess, LessKeeps
<1>3. ASSUME NEW s \in Slot, ScanAnswers(s) PROVE OneAtATime'
  BY <1>3, AnswerIsTrue
<1>4. ASSUME NEW s \in Answered, Scan(s) PROVE OneAtATime'
  BY <1>4, ScanIsTrue
<1>5. ASSUME NEW w \in WriteSlot, WriteSucceeds(w) PROVE OneAtATime'
  <2>1. /\ secures' = [secures EXCEPT ![w] =
             IF secures[w].live THEN [secures[w] EXCEPT !.at = "done"] ELSE NoVal]
        /\ secures[w] # NoVal /\ scans' = scans /\ map' = map
        /\ afi' = [afi EXCEPT ![secures[w].book] = secures[w].target]
    BY <1>5 DEF WriteSucceeds, Wanted, script
  <2> QED BY <2>1, WrittenIsTrue
<1>6. ASSUME NEW w \in WriteSlot, WriteFails(w) \/ WriteAborted(w) \/ WriteAnswered(w)
      PROVE  OneAtATime'
  <2>1. CASE afi' = afi
    BY <1>1, <1>6, <2>1, WriteIsLess, LessKeeps
  <2>2. CASE afi' # afi
    <3>1. /\ secures' = [secures EXCEPT ![w] = NoVal] /\ secures[w] # NoVal
          /\ scans' = scans /\ map' = map
          /\ afi' = [afi EXCEPT ![secures[w].book] = secures[w].target]
      BY <1>6, <2>2 DEF WriteFails, WriteAborted, WriteAnswered, Wanted, script, world, KeepPending
    <3> QED BY <3>1, WrittenIsTrue
  <2> QED BY <2>1, <2>2
<1>7. CASE KohaAnswers \/ StaffOpens
  <2>1. (\E p : Ready(p, map)) /\ afi' = afi
    BY <1>7 DEF KohaAnswers, StaffOpens, world
  <2> QED BY <1>1, <2>1, LoadIsLess, LessKeeps
<1>8. CASE KohaHandles \/ StaffSwitchesTab \/ StaffMovesTags \/ StaffResets \/ Tick
  BY <1>1, <1>8, OthersAreLess, LessKeeps
<1> QED BY <1>2, <1>3, <1>4, <1>5, <1>6, <1>7, <1>8 DEF Callback

LEMMA InitIsTrue ==
  ASSUME Init
  PROVE  OneAtATime
<1>1. /\ scans = [NoScan EXCEPT ![1] = Asked] /\ secures = [w \in WriteSlot |-> NoVal]
      /\ other # NoVal => other.scans = scans /\ other.secures = secures
  <2>1. other # NoVal => \E p \in Pages : other = [ThisTab EXCEPT !.page = p]
    BY DEF Init
  <2> QED BY <2>1 DEF Init, ThisTab
<1>2. \A s \in Slot : scans[s] \in {NoVal, Asked}
  BY <1>1 DEF NoScan
<1>3. Asked.at = "asked"
  BY DEF Asked
<1>4. Quiet(scans, secures)
  BY <1>1, <1>2, <1>3 DEF Quiet, Answers, Writing
<1> QED BY <1>1, <1>4, QuietIsHonest DEF OneAtATime

LEMMA SwitchIsTrue ==
  ASSUME OneAtATime, SwitchTabs
  PROVE  OneAtATime'
<1>1. /\ scans' = other.scans /\ secures' = other.secures
      /\ other'.scans = scans /\ other'.secures = secures
      /\ afi' = afi /\ map' = map /\ other # NoVal
  BY DEF SwitchTabs, ThisTab, world
<1> QED BY <1>1 DEF OneAtATime

\* What a step gives up while the window of a check-in is open, the tag has.
LEMMA NothingForgotten ==
  ASSUME TypeInv, OneAtATime, Callback, NEW b \in Books, Forgotten(b), checked[b] < Dedup
  PROVE  afi[b] = Pending(b) \/ StaffResets
<1>1. PageInv /\ Pending(b) # NoVal /\ Pending(b)' # Pending(b)
  BY DEF TypeInv, Forgotten
<1>2. ~PendingStays
  BY <1>1 DEF PendingStays
<1>3. ASSUME NEW s \in Answered, Scan(s) PROVE afi[b] = Pending(b)
  <2>1. Settled(s, b)
    BY <1>1, <1>3, ScanKeeps DEF PendingKept
  <2>2. PICK x \in scans[s].tags : x.content = b /\ x.security = Pending(b)
    BY <2>1 DEF Settled
  <2>3. s \in Answers(scans)
    BY DEF Answers, Answered, InFlight
  <2>4. ItemTrue(afi, x)
    BY <2>3 DEF OneAtATime, Honest
  <2> QED BY <1>1, <2>2, <2>4 DEF ItemTrue
<1>4. ASSUME NEW w \in WriteSlot,
             WriteSucceeds(w) \/ WriteFails(w) \/ WriteAnswered(w) \/ WriteAborted(w)
      PROVE  afi[b] = Pending(b)
  <2>1. WriteAnswered(w)
    BY <1>1, <1>2, <1>4, WriteKeeps
  <2>2. b = secures[w].book
    <3>1. \A k \in Keys \ {secures[w].book} : map'[k] = map[k]
      BY <1>1, <2>1, WriteKeeps
    <3> QED BY <1>1, <3>1, BooksAreKeys DEF Pending
  <2>3. secures[w] # NoVal /\ secures[w].at = "done"
    BY <2>1 DEF WriteAnswered
  <2>4. WriteTrue(afi, map, secures[w])
    BY <2>3 DEF OneAtATime, Honest, Writing
  <2> QED BY <1>1, <2>2, <2>3, <2>4 DEF WriteTrue, PendingIn, Pending
<1>5. ~(TimerFires \/ StaffRetries \/ StaffOptsOut \/ \E s \in Slot : ScanAnswers(s) \/ ScanFails(s))
  BY <1>1, <1>2, PollKeeps
<1>6. ~KohaHandles /\ ~(KohaAnswers \/ StaffOpens) /\ ~(StaffSwitchesTab \/ StaffMovesTags) /\ ~Tick
  BY <1>1, <1>2, KohaKeeps, LoadKeeps, StaffKeeps, ClockKeeps
<1> QED BY <1>3, <1>4, <1>5, <1>6 DEF Callback

\* When requests are answered in the order they were sent, the AFI write that
\* a check-in owes a book is kept in the map while its window lasts, whatever
\* fails and wherever the tag is, until the tag has the AFI: only the reset
\* button gives it up before.
THEOREM CheckinsAreNotForgotten == InOrder => (Spec => CheckinIsNotForgotten)
<1> SUFFICES ASSUME InOrder PROVE Spec => CheckinIsNotForgotten
  OBVIOUS
<1>1. Init => OneAtATime
  BY InitIsTrue
<1>2. TypeInv /\ OneAtATime /\ [Next]_vars => OneAtATime'
  <2> SUFFICES ASSUME TypeInv, OneAtATime, [Next]_vars PROVE OneAtATime'
    OBVIOUS
  <2>1. CASE Callback /\ other' = other
    BY <2>1, CallbackIsTrue
  <2>2. CASE SwitchTabs
    BY <2>2, SwitchIsTrue
  <2>3. CASE UNCHANGED vars
    BY <2>3 DEF vars, world, script, OneAtATime
  <2> QED BY <2>1, <2>2, <2>3 DEF Next
<1>3. TypeInv /\ OneAtATime /\ [Next]_vars =>
        [\A b \in Books :
           Forgotten(b) /\ checked[b] < Dedup => afi[b] = Pending(b) \/ StaffResets]_vars
  <2> SUFFICES ASSUME TypeInv, OneAtATime, [Next]_vars, NEW b \in Books,
                      Forgotten(b), checked[b] < Dedup
               PROVE  afi[b] = Pending(b) \/ StaffResets
    OBVIOUS
  <2>1. CASE Callback
    BY <2>1, NothingForgotten
  <2>2. map' # map
    BY DEF Forgotten, Pending
  <2>3. ~SwitchTabs /\ ~(UNCHANGED vars)
    BY <2>2 DEF SwitchTabs, vars
  <2> QED BY <2>1, <2>3 DEF Next
<1> QED BY <1>1, <1>2, <1>3, Inductive, PTL DEF Spec, CheckinIsNotForgotten
=============================================================================
