--------------------------- MODULE Rfid501Proofs ---------------------------
(***************************************************************************)
(* Proofs about the tag format: what each field's encoding decodes to, and *)
(* from these that a tag survives encoding and decoding, whatever it holds *)
(* in the ranges of the Go types.  The solver is given arithmetic and data *)
(* separately, hence the predicates Fields and InARowOf.                   *)
(***************************************************************************)
EXTENDS Rfid501, SequenceTheorems, FiniteSetTheorems, NaturalsInduction, TLAPS

\* Two numbers in one byte come apart, each modulo 16.
LEMMA NibbleSplit ==
  ASSUME NEW hi \in Int, NEW lo \in Int
  PROVE  /\ Nibbles(hi, lo) \in Byte
         /\ Nibbles(hi, lo) \div 16 = hi % 16
         /\ Nibbles(hi, lo) % 16 = lo % 16
BY SMT DEF Nibbles, Byte

\* The 12 bits of a branch, cut into eight and four, add up.
LEMMA BranchSplit ==
  ASSUME NEW b \in Int
  PROVE  16 * ((b \div 16) % 256) + (b % 16) = b % 4096
BY SMT

\* The 20 bits of a library, cut into four, eight and eight, add up.
LEMMA LibrarySplit ==
  ASSUME NEW l \in Int
  PROVE  65536 * ((l \div 65536) % 16) + 256 * ((l \div 256) % 256) + (l % 256) = l % 1048576
BY SMT

\* The range of the Go type of a tag's custom number.
Int32 == {n \in Int : -2147483648 <= n /\ n < 2147483648}

\* Four bytes make a block.
LEMMA FourBytes ==
  ASSUME NEW a \in Byte, NEW b \in Byte, NEW c \in Byte, NEW d \in Byte
  PROVE  <<a, b, c, d>> \in Block
BY SMT DEF Block

\* A number of 32 bits, negative or not, survives its four bytes.
LEMMA SignedSplit ==
  ASSUME NEW n \in Int32
  PROVE  Signed(BigEndian(n)) = n /\ BigEndian(n) \in Block
<1> DEFINE b == BigEndian(n)
<1>0. n \in Int /\ -2147483648 <= n /\ n < 2147483648
  BY SMT DEF Int32
<1>1. /\ b[1] = (n \div 16777216) % 256 /\ b[2] = (n \div 65536) % 256
      /\ b[3] = (n \div 256) % 256 /\ b[4] = n % 256
  BY <1>0, SMT DEF BigEndian
<1>2. (n \div 16777216) * 16777216 + ((n \div 65536) % 256) * 65536
        + ((n \div 256) % 256) * 256 + (n % 256) = n
  BY <1>0, SMT
<1>3. (IF b[1] >= 128 THEN b[1] - 256 ELSE b[1]) = n \div 16777216
  <2>1. CASE n >= 0
    <3>1. (n \div 16777216) % 256 = n \div 16777216 /\ n \div 16777216 < 128
      BY <1>0, <2>1, SMT
    <3> QED BY <1>0, <1>1, <3>1, SMT
  <2>2. CASE n < 0
    <3>1. (n \div 16777216) % 256 = (n \div 16777216) + 256 /\ n \div 16777216 >= -128
      BY <1>0, <2>2, SMT
    <3> QED BY <1>0, <1>1, <3>1, SMT
  <2> QED BY <1>0, <2>1, <2>2, SMT
<1>4. b \in Block
  <2>1. /\ (n \div 16777216) % 256 \in Byte /\ (n \div 65536) % 256 \in Byte
        /\ (n \div 256) % 256 \in Byte /\ n % 256 \in Byte
    BY <1>0, SMT DEF Byte
  <2> QED BY <2>1, FourBytes, SMT DEF BigEndian
<1> HIDE DEF b
<1>5. Signed(b) = n
  BY <1>0, <1>1, <1>2, <1>3, SMT DEF Signed
<1> QED BY <1>4, <1>5, SMT DEF b

\* Every byte of a padded barcode is a byte.
LEMMA PaddedByte ==
  ASSUME NEW content \in Seq(Byte), NEW k \in Int, k > 0
  PROVE  Padded(content, k) \in Byte
<1>1. CASE k <= Len(content)
  BY <1>1, SMT DEF Padded
<1>2. CASE ~(k <= Len(content))
  BY <1>2, SMT DEF Padded, Byte
<1> QED BY <1>1, <1>2

\* A block is also a sequence, as concatenation needs it.
LEMMA BlockIsSeq ==
  ASSUME NEW x \in Block
  PROVE  x \in Seq(Byte) /\ Len(x) = 4
<1>1. x \in [1 .. 4 -> Byte]
  BY DEF Block
<1>2. x \in Seq(Byte)
  <2>1. [1 .. 4 -> Byte] \in {[1 .. n -> Byte] : n \in Nat}
    BY 4 \in Nat
  <2> QED BY <1>1, <2>1, SeqDef
<1>3. Len(x) \in Nat /\ DOMAIN x = 1 .. Len(x)
  BY <1>2, LenProperties
<1>4. DOMAIN x = 1 .. 4
  BY <1>1
<1>5. 4 \in 1 .. Len(x)
  BY <1>3, <1>4
<1>6. Len(x) \in 1 .. 4
  <2>1. Len(x) \in 1 .. Len(x)
    BY <1>3, <1>5, SMT
  <2> QED BY <1>3, <1>4, <2>1
<1>7. Len(x) = 4
  BY <1>3, <1>5, <1>6, SMT
<1> QED BY <1>2, <1>7

\* A block joined to a sequence: the bytes of one, then of the other.
LEMMA Joined ==
  ASSUME NEW m \in Nat, NEW s \in Seq(Byte), Len(s) = m, NEW b \in Block
  PROVE  /\ s \o b \in Seq(Byte) /\ Len(s \o b) = m + 4
         /\ \A k \in 1 .. m + 4 : (s \o b)[k] = IF k <= m THEN s[k] ELSE b[k - m]
<1>1. b \in Seq(Byte) /\ Len(b) = 4
  BY BlockIsSeq
<1>2. /\ s \o b \in Seq(Byte)
      /\ Len(s \o b) = Len(s) + Len(b)
      /\ \A k \in 1 .. Len(s) + Len(b) :
           (s \o b)[k] = IF k <= Len(s) THEN s[k] ELSE b[k - Len(s)]
  BY <1>1, ConcatProperties, Zenon
<1> QED BY <1>1, <1>2

\* The bytes of four blocks, one block after the other.
FourOf(a, b, c, d) == a \o b \o c \o d

InARowOf(s, a, b, c, d) ==
  /\ s \in Seq(Byte) /\ Len(s) = 16
  /\ \A k \in 1 .. 4 : /\ s[k] = a[k] /\ s[k + 4] = b[k]
                      /\ s[k + 8] = c[k] /\ s[k + 12] = d[k]

\* Each byte of four blocks in a row, by block and place.
LEMMA FourBlocks ==
  ASSUME NEW a \in Block, NEW b \in Block, NEW c \in Block, NEW d \in Block,
         NEW s, s = FourOf(a, b, c, d)
  PROVE  InARowOf(s, a, b, c, d)
<1>1. a \in Seq(Byte) /\ Len(a) = 4
  BY BlockIsSeq
<1> DEFINE s2 == a \o b
           s3 == s2 \o c
           s4 == s3 \o d
<1>2. /\ s2 \in Seq(Byte) /\ Len(s2) = 8
      /\ \A k \in 1 .. 8 : s2[k] = IF k <= 4 THEN a[k] ELSE b[k - 4]
  BY <1>1, Joined
<1> HIDE DEF s2
<1>3. /\ s3 \in Seq(Byte) /\ Len(s3) = 12
      /\ \A k \in 1 .. 12 : s3[k] = IF k <= 8 THEN s2[k] ELSE c[k - 8]
  <2>1. /\ s3 \in Seq(Byte) /\ Len(s3) = 8 + 4
        /\ \A k \in 1 .. 8 + 4 : s3[k] = IF k <= 8 THEN s2[k] ELSE c[k - 8]
    BY <1>2, Joined, 8 \in Nat, Zenon
  <2>2. 8 + 4 = 12
    BY SMT
  <2> QED BY <2>1, <2>2, Zenon
<1> HIDE DEF s3
<1>4. /\ s4 \in Seq(Byte) /\ Len(s4) = 16
      /\ \A k \in 1 .. 16 : s4[k] = IF k <= 12 THEN s3[k] ELSE d[k - 12]
  <2>1. /\ s4 \in Seq(Byte) /\ Len(s4) = 12 + 4
        /\ \A k \in 1 .. 12 + 4 : s4[k] = IF k <= 12 THEN s3[k] ELSE d[k - 12]
    BY <1>3, Joined, 12 \in Nat, Zenon
  <2>2. 12 + 4 = 16
    BY SMT
  <2> QED BY <2>1, <2>2, Zenon
<1> HIDE DEF s4
<1>5. \A k \in 1 .. 4 : /\ s4[k] = a[k] /\ s4[k + 4] = b[k]
                        /\ s4[k + 8] = c[k] /\ s4[k + 12] = d[k]
  <2> SUFFICES ASSUME NEW k \in 1 .. 4
               PROVE  /\ s4[k] = a[k] /\ s4[k + 4] = b[k]
                      /\ s4[k + 8] = c[k] /\ s4[k + 12] = d[k]
    OBVIOUS
  <2>1. s4[k] = s3[k] /\ s3[k] = s2[k] /\ s2[k] = a[k]
    BY <1>2, <1>3, <1>4, SMT
  <2>2. s4[k + 4] = s3[k + 4] /\ s3[k + 4] = s2[k + 4] /\ s2[k + 4] = b[(k + 4) - 4]
    BY <1>2, <1>3, <1>4, SMTT(30)
  <2>3. s4[k + 8] = s3[k + 8] /\ s3[k + 8] = c[(k + 8) - 8]
    BY <1>3, <1>4, SMTT(30)
  <2>4. s4[k + 12] = d[(k + 12) - 12]
    BY <1>4, SMT
  <2>5. (k + 4) - 4 = k /\ (k + 8) - 8 = k /\ (k + 12) - 12 = k
    BY SMT
  <2> QED BY <2>1, <2>2, <2>3, <2>4, <2>5
<1> QED BY <1>4, <1>5, Zenon DEF s4, s3, s2, FourOf, InARowOf

\* A barcode without a zero byte is read back from its padded 16 bytes.
LEMMA BarcodeRead ==
  ASSUME NEW s \in Seq(Byte), Len(s) = 16,
         NEW content \in Seq(Byte), Len(content) <= 16,
         \A k \in 1 .. Len(content) : content[k] # 0,
         \A k \in 1 .. 16 : s[k] = Padded(content, k)
  PROVE  Barcode(s) = content
<1> DEFINE n    == Len(content)
           P(m) == (m = Len(s) \/ s[m + 1] = 0) /\ \A k \in 1 .. m : s[k] # 0
<1>1. n \in Nat /\ n <= 16
  BY LenProperties
<1>2. \A k \in 1 .. n : s[k] = content[k]
  BY <1>1, SMTT(30) DEF Padded
<1>3. n < 16 => s[n + 1] = 0
  <2> SUFFICES ASSUME n < 16 PROVE s[n + 1] = 0
    OBVIOUS
  <2>1. n + 1 \in 1 .. 16 /\ ~(n + 1 <= n)
    BY <1>1, SMT
  <2>2. s[n + 1] = Padded(content, n + 1)
    BY <2>1
  <2> QED BY <2>1, <2>2, Zenon DEF Padded
<1> HIDE DEF n
<1>4. n \in 0 .. Len(s) /\ P(n)
  <2>1. \A k \in 1 .. n : s[k] # 0
    BY <1>2 DEF n
  <2>2. n = 16 \/ s[n + 1] = 0
    BY <1>1, <1>3, SMT
  <2> QED BY <1>1, <2>1, <2>2
<1>5. ASSUME NEW m \in 0 .. Len(s), P(m)
      PROVE  m = n
  <2>1. CASE m < n
    <3>1. s[m + 1] # 0
      BY <1>1, <1>4, <2>1, SMTT(30)
    <3>2. m # Len(s)
      BY <1>1, <2>1, SMT
    <3> QED BY <1>5, <3>1, <3>2
  <2>2. CASE m > n
    <3>1. s[n + 1] # 0
      BY <1>1, <1>5, <2>2, SMT
    <3>2. n < 16
      BY <1>1, <1>5, <2>2, SMT
    <3> QED BY <1>3, <3>1, <3>2
  <2> QED BY <1>1, <2>1, <2>2, SMT
<1>6. (CHOOSE m \in 0 .. Len(s) : P(m)) = n
  BY <1>4, <1>5, Zenon
<1>7. Barcode(s) = SubSeq(s, 1, n)
  BY <1>6, Zenon DEF Barcode
<1>8. \A k \in 1 .. n : s[k] \in Byte
  <2>1. \A k \in 1 .. n : k \in 1 .. Len(s)
    BY <1>1, SMT
  <2> QED BY <2>1, ElementOfSeq, Zenon
<1>9. /\ SubSeq(s, 1, n) \in Seq(Byte)
      /\ Len(SubSeq(s, 1, n)) = n
      /\ \A k \in 1 .. n : SubSeq(s, 1, n)[k] = content[k]
  BY <1>1, <1>2, <1>8, SubSeqProperties
<1> QED BY <1>7, <1>9, SeqEqual DEF n

Fields(q, b, l) ==
  /\ 16 * q[1] + (q[2] \div 16) = b % 4096
  /\ 65536 * (q[2] % 16) + 256 * q[3] + q[4] = l % 1048576

\* Block 5 holds branch and library side by side, neither reaching into the other.
LEMMA BranchLibrarySplit ==
  ASSUME NEW b \in Int, NEW l \in Int, NEW q, q = BranchLibrary(b, l)
  PROVE  q \in Block /\ Fields(q, b, l)
<1> DEFINE h == l \div 65536
<1>1. /\ q[1] = (b \div 16) % 256 /\ q[2] = Nibbles(b, h)
      /\ q[3] = (l \div 256) % 256 /\ q[4] = l % 256
  BY SMT DEF BranchLibrary
<1>2. h \in Int
  BY SMT
<1>3. q[2] \in Byte /\ q[2] \div 16 = b % 16 /\ q[2] % 16 = h % 16
  BY <1>1, <1>2, NibbleSplit, SMT
<1>4. q[1] \in Byte /\ q[3] \in Byte /\ q[4] \in Byte
  BY <1>1, SMT DEF Byte
<1>5. q = <<q[1], q[2], q[3], q[4]>>
  BY <1>1, SMT DEF BranchLibrary
<1>6. q \in Block
  BY <1>3, <1>4, <1>5, FourBytes, SMT
<1>7. 16 * q[1] + (q[2] \div 16) = b % 4096
  BY <1>1, <1>3, BranchSplit, SMT
<1>8. 65536 * (q[2] % 16) + 256 * q[3] + q[4] = l % 1048576
  BY <1>1, <1>3, LibrarySplit, SMT
<1> QED BY <1>6, <1>7, <1>8, SMT DEF Fields

\* And it is a block.
LEMMA BranchLibraryBlock ==
  ASSUME NEW b \in Int, NEW l \in Int
  PROVE  BranchLibrary(b, l) \in Block
BY BranchLibrarySplit, SMT

(***************************************************************************)
(* What the encoder writes.                                                *)
(***************************************************************************)
LEMMA EncodedBlocks ==
  ASSUME NEW t \in TagFields, t.custom \in Int32
  PROVE  LET e == EncodeRFID501(t)
         IN  /\ e \in [BlockNo -> Block]
             /\ e[0] = <<4, Nibbles(t.set, t.total), 0, t.type>>
             /\ \A i \in 1 .. 4 : e[i] = [k \in 1 .. 4 |-> Padded(t.content, 4 * (i - 1) + k)]
             /\ e[5] = BranchLibrary(t.branch, t.library)
             /\ e[6] = BigEndian(t.custom)
<1> DEFINE e == EncodeRFID501(t)
<1>1. /\ t.set \in Int /\ t.total \in Int /\ t.type \in Byte /\ t.content \in Seq(Byte)
      /\ t.branch \in Int /\ t.library \in Int /\ t.custom \in Int
  BY DEF TagFields
<1>2. e[0] = <<4, Nibbles(t.set, t.total), 0, t.type>>
  BY SMT DEF EncodeRFID501, EncodedBlock, BlockNo
<1>3. \A i \in 1 .. 4 : e[i] = [k \in 1 .. 4 |-> Padded(t.content, 4 * (i - 1) + k)]
  BY SMT DEF EncodeRFID501, EncodedBlock, BlockNo
<1>4. /\ e[5] = BranchLibrary(t.branch, t.library) /\ e[6] = BigEndian(t.custom)
      /\ e[7] = ZeroBlock
  BY SMT DEF EncodeRFID501, EncodedBlock, BlockNo
<1>5. (\A i \in BlockNo : e[i] \in Block) => e \in [BlockNo -> Block]
  BY DEF EncodeRFID501
<1> HIDE DEF e
<1>6. e[0] \in Block
  <2>1. 4 \in Byte /\ 0 \in Byte
    BY SMT DEF Byte
  <2>2. Nibbles(t.set, t.total) \in Byte
    BY <1>1, NibbleSplit, SMTT(30)
  <2> QED BY <1>1, <1>2, <2>1, <2>2, FourBytes, Zenon
<1>7. \A i \in 1 .. 4 : e[i] \in Block
  <2> SUFFICES ASSUME NEW i \in 1 .. 4 PROVE e[i] \in Block
    OBVIOUS
  <2>1. \A k \in 1 .. 4 : 4 * (i - 1) + k \in Int /\ 4 * (i - 1) + k > 0
    BY SMT
  <2>2. \A k \in 1 .. 4 : Padded(t.content, 4 * (i - 1) + k) \in Byte
    BY <1>1, <2>1, PaddedByte, Zenon
  <2> QED BY <1>3, <2>2 DEF Block
<1>8. e[5] \in Block
  <2>1. BranchLibrary(t.branch, t.library) \in Block
    BY <1>1, BranchLibraryBlock, Zenon
  <2> QED BY <1>4, <2>1
<1>9. e[6] \in Block /\ e[7] \in Block
  <2>1. 0 \in Byte
    BY SMT DEF Byte
  <2> QED BY <1>1, <1>4, <2>1, SignedSplit, FourBytes, SMT DEF ZeroBlock
<1>10. \A i \in BlockNo : i = 0 \/ i \in 1 .. 4 \/ i = 5 \/ i = 6 \/ i = 7
  BY SMT DEF BlockNo
<1>11. \A i \in BlockNo : e[i] \in Block
  BY <1>6, <1>7, <1>8, <1>9, <1>10, Zenon
<1>12. e \in [BlockNo -> Block]
  BY <1>5, <1>11
<1> QED BY <1>2, <1>3, <1>4, <1>12, Zenon DEF e
(***************************************************************************)
(* What the decoder makes of eight whole blocks.                           *)
(***************************************************************************)
Decoding(e) ==
  [set     |-> e[0][2] \div 16,
   total   |-> e[0][2] % 16,
   type    |-> e[0][4],
   content |-> Barcode(FourOf(e[1], e[2], e[3], e[4])),
   branch  |-> 16 * e[5][1] + (e[5][2] \div 16),
   library |-> 65536 * (e[5][2] % 16) + 256 * e[5][3] + e[5][4],
   custom  |-> Signed(e[6])]

\* The branch that answers NoTag is not taken.
LEMMA Decoded ==
  ASSUME NEW e \in [BlockNo -> Block], NEW hexes, hexes = [i \in 1 .. 8 |-> e[i - 1]]
  PROVE  DecodeRFID501(hexes) = Decoding(e)
<1>1. hexes \in Seq(Block) /\ Len(hexes) = 8 /\ DOMAIN hexes = 1 .. 8
  BY SMT DEF BlockNo
<1>2. \A i \in DOMAIN hexes : hexes[i] \in Block
  BY SMT DEF BlockNo
<1>3. ~(Len(hexes) < 6)
  BY <1>1, SMT
<1>4. ~((\E i \in DOMAIN hexes : hexes[i] \notin Block) \/ Len(hexes) < 6)
  BY <1>2, <1>3, Zenon
<1>5. /\ hexes[1] = e[0] /\ hexes[2] = e[1] /\ hexes[3] = e[2] /\ hexes[4] = e[3]
      /\ hexes[5] = e[4] /\ hexes[6] = e[5] /\ hexes[7] = e[6]
  BY SMT
<1> QED BY <1>1, <1>4, <1>5, SMT DEF DecodeRFID501, FourOf, Decoding

(***************************************************************************)
(* The codec is faithful: decoding the eight blocks the encoder makes of a *)
(* tag (EncodeRFID501, DecodeRFID501) gives the tag back, each number cut  *)
(* to the width of its field and none spilled into another, for every      *)
(* barcode of up to 16 bytes without a zero byte.                          *)
(***************************************************************************)
THEOREM RoundTrip ==
  ASSUME NEW t \in TagFields, t.custom \in Int32, Len(t.content) <= 16,
         \A k \in 1 .. Len(t.content) : t.content[k] # 0
  PROVE  DecodeRFID501([i \in 1 .. 8 |-> EncodeRFID501(t)[i - 1]]) =
           [set |-> t.set % 16, total |-> t.total % 16, type |-> t.type,
            content |-> t.content, branch |-> t.branch % 4096,
            library |-> t.library % 1048576, custom |-> t.custom]
<1> DEFINE e     == EncodeRFID501(t)
           hexes == [i \in 1 .. 8 |-> e[i - 1]]
           bytes == FourOf(e[1], e[2], e[3], e[4])
<1>1. /\ t.set \in Int /\ t.total \in Int /\ t.type \in Byte /\ t.content \in Seq(Byte)
      /\ t.branch \in Int /\ t.library \in Int /\ t.custom \in Int
  BY DEF TagFields
<1>2. /\ e \in [BlockNo -> Block]
      /\ e[0] = <<4, Nibbles(t.set, t.total), 0, t.type>>
      /\ \A i \in 1 .. 4 : e[i] = [k \in 1 .. 4 |-> Padded(t.content, 4 * (i - 1) + k)]
      /\ e[5] = BranchLibrary(t.branch, t.library)
      /\ e[6] = BigEndian(t.custom)
  BY EncodedBlocks, Zenon
<1> HIDE DEF e
<1>3. Barcode(bytes) = t.content
  <2>1. e[1] \in Block /\ e[2] \in Block /\ e[3] \in Block /\ e[4] \in Block
    BY <1>2, SMT DEF BlockNo
  <2> HIDE DEF bytes
  <2>2. /\ bytes \in Seq(Byte) /\ Len(bytes) = 16
        /\ \A k \in 1 .. 4 : /\ bytes[k] = e[1][k] /\ bytes[k + 4] = e[2][k]
                            /\ bytes[k + 8] = e[3][k] /\ bytes[k + 12] = e[4][k]
    <3>1. bytes = FourOf(e[1], e[2], e[3], e[4])
      BY DEF bytes
    <3>2. InARowOf(bytes, e[1], e[2], e[3], e[4])
      BY <2>1, <3>1, FourBlocks, Zenon
    <3> QED BY <3>2 DEF InARowOf
  <2>3. \A k \in 1 .. 16 : bytes[k] = Padded(t.content, k)
    <3> SUFFICES ASSUME NEW k \in 1 .. 16 PROVE bytes[k] = Padded(t.content, k)
      OBVIOUS
    <3>1. CASE k \in 1 .. 4
      BY <1>2, <2>2, <3>1, SMT
    <3>2. CASE k - 4 \in 1 .. 4
      <4>1. bytes[(k - 4) + 4] = e[2][k - 4]
        BY <2>2, <3>2, Zenon
      <4>2. e[2][k - 4] = Padded(t.content, 4 * (2 - 1) + (k - 4))
        BY <1>2, <3>2, SMT
      <4>3. (k - 4) + 4 = k /\ 4 * (2 - 1) + (k - 4) = k
        BY SMT
      <4> QED BY <4>1, <4>2, <4>3, Zenon
    <3>3. CASE k - 8 \in 1 .. 4
      <4>1. bytes[(k - 8) + 8] = e[3][k - 8]
        BY <2>2, <3>3, Zenon
      <4>2. e[3][k - 8] = Padded(t.content, 4 * (3 - 1) + (k - 8))
        BY <1>2, <3>3, SMT
      <4>3. (k - 8) + 8 = k /\ 4 * (3 - 1) + (k - 8) = k
        BY SMT
      <4> QED BY <4>1, <4>2, <4>3, Zenon
    <3>4. CASE k - 12 \in 1 .. 4
      <4>1. bytes[(k - 12) + 12] = e[4][k - 12]
        BY <2>2, <3>4, Zenon
      <4>2. e[4][k - 12] = Padded(t.content, 4 * (4 - 1) + (k - 12))
        BY <1>2, <3>4, SMT
      <4>3. (k - 12) + 12 = k /\ 4 * (4 - 1) + (k - 12) = k
        BY SMT
      <4> QED BY <4>1, <4>2, <4>3, Zenon
    <3> QED BY <3>1, <3>2, <3>3, <3>4, SMT
  <2> QED BY <1>1, <2>2, <2>3, BarcodeRead
<1> HIDE DEF hexes
<1>4. DecodeRFID501(hexes) = Decoding(e)
  <2>1. hexes = [i \in 1 .. 8 |-> e[i - 1]]
    BY DEF hexes
  <2> QED BY <1>2, <2>1, Decoded, Zenon
<1>5. /\ e[0][2] \div 16 = t.set % 16 /\ e[0][2] % 16 = t.total % 16
      /\ e[0][4] = t.type
  <2>1. e[0][2] = Nibbles(t.set, t.total) /\ e[0][4] = t.type
    BY <1>2, SMT
  <2>2. /\ Nibbles(t.set, t.total) \div 16 = t.set % 16
        /\ Nibbles(t.set, t.total) % 16 = t.total % 16
    <3>1. \A hi, lo \in Int : /\ Nibbles(hi, lo) \div 16 = hi % 16
                              /\ Nibbles(hi, lo) % 16 = lo % 16
      BY NibbleSplit
    <3> QED BY <1>1, <3>1, SMTT(30)
  <2> QED BY <2>1, <2>2, Zenon
<1>6. /\ 16 * e[5][1] + (e[5][2] \div 16) = t.branch % 4096
      /\ 65536 * (e[5][2] % 16) + 256 * e[5][3] + e[5][4] = t.library % 1048576
  <2>1. t.branch \in Int /\ t.library \in Int /\ e[5] = BranchLibrary(t.branch, t.library)
    BY <1>1, <1>2
  <2>2. Fields(e[5], t.branch, t.library)
    BY <2>1, BranchLibrarySplit, Zenon
  <2> QED BY <2>2, SMT DEF Fields
<1>7. Signed(e[6]) = t.custom
  BY <1>2, SignedSplit, Zenon
<1>8. DecodeRFID501(hexes) =
         [set |-> t.set % 16, total |-> t.total % 16, type |-> t.type,
          content |-> t.content, branch |-> t.branch % 4096,
          library |-> t.library % 1048576, custom |-> t.custom]
  BY <1>3, <1>4, <1>5, <1>6, <1>7, SMT DEF Decoding
<1> QED BY <1>8 DEF hexes, e

-----------------------------------------------------------------------------
(***************************************************************************)
(* What a scan shows for the blocks that came back of a tag.               *)
(***************************************************************************)
LEMMA SmallestOf ==
  ASSUME NEW S \in SUBSET Nat, S # {}
  PROVE  \E i \in S : \A j \in S : i <= j
<1>1. PICK i \in S : \A j \in S : <<j, i>> \notin OpToRel(<, Nat)
  BY NatLessThanWellFounded, WFMin
<1>2. \A j \in S : ~(j < i)
  BY <1>1 DEF OpToRel
<1> QED  BY <1>2

\* A barcode ends at the first zero byte, and is of bytes.
LEMMA BarcodeType ==
  ASSUME NEW s \in Seq(Byte)
  PROVE  Barcode(s) \in Seq(Byte)
<1> DEFINE P(n) == (n = Len(s) \/ s[n + 1] = 0) /\ \A k \in 1 .. n : s[k] # 0
           Z == {n \in 0 .. Len(s) : n = Len(s) \/ s[n + 1] = 0}
<1>1. Len(s) \in Nat /\ \A k \in 1 .. Len(s) : s[k] \in Byte
  BY LenProperties, ElementOfSeq
<1>2. Z \in SUBSET Nat /\ Len(s) \in Z
  BY <1>1, SMT
<1>3. PICK n \in Z : \A j \in Z : n <= j
  BY <1>2, SmallestOf
<1>4. n \in 0 .. Len(s) /\ (n = Len(s) \/ s[n + 1] = 0)
  BY <1>3
<1>5. ASSUME NEW k \in 1 .. n PROVE s[k] # 0
  <2>1. k - 1 \in 0 .. Len(s) /\ (k - 1) + 1 = k /\ ~(n <= k - 1)
    BY <1>1, <1>4, SMT
  <2>2. k - 1 \notin Z
    BY <1>3, <2>1
  <2> QED BY <2>1, <2>2
<1>6. \E m \in 0 .. Len(s) : P(m)
  BY <1>4, <1>5
<1>7. PICK m \in 0 .. Len(s) : m = CHOOSE x \in 0 .. Len(s) : P(x)
  BY <1>6
<1>8. Barcode(s) = SubSeq(s, 1, m)
  BY <1>7, Zenon DEF Barcode
<1>9. m \in 1 - 1 .. Len(s)
  BY <1>7, SMT
<1>10. \A k \in 1 .. m : s[k] \in Byte
  BY <1>1, <1>7, SMT
<1> QED BY <1>1, <1>8, <1>10, SubSeqProperties

\* Fewer than eight blocks decode to a tag when none of them is out of place.
LEMMA PartlyDecoded ==
  ASSUME NEW m \in [BlockNo -> Block], NEW n \in 6 .. 8,
         NEW hexes, hexes = [i \in 1 .. n |-> m[i - 1]]
  PROVE  DecodeRFID501(hexes).content = Barcode(FourOf(m[1], m[2], m[3], m[4]))
<1>1. \A i \in 1 .. n : i - 1 \in BlockNo
  BY SMT DEF BlockNo
<1>2. \A i \in 1 .. n : hexes[i] \in Block
  BY <1>1
<1>3. hexes \in Seq(Block) /\ Len(hexes) = n /\ DOMAIN hexes = 1 .. n
  BY <1>1, <1>2, SMT
<1>4. ~((\E i \in DOMAIN hexes : hexes[i] \notin Block) \/ Len(hexes) < 6)
  BY <1>2, <1>3, SMT
<1>5. hexes[2] = m[1] /\ hexes[3] = m[2] /\ hexes[4] = m[3] /\ hexes[5] = m[4]
  BY SMT
<1>6. 1 < Len(hexes) /\ 2 < Len(hexes) /\ 3 < Len(hexes) /\ 4 < Len(hexes)
  BY <1>3, SMT
<1> QED BY <1>4, <1>5, <1>6, SMT DEF DecodeRFID501, FourOf

\* Blocks that come back in full or not at all: a barcode read from them is
\* the barcode on the tag.  One that is lost shortens the row or leaves a hole,
\* and the decoder refuses either.
LEMMA ContentRead ==
  ASSUME NEW m \in [BlockNo -> Block], NEW bs \in SUBSET BlockNo,
         NEW blocks, blocks = [i \in bs |-> m[i]]
  PROVE  Content(blocks) \in {Barcode(FourOf(m[1], m[2], m[3], m[4])), m[0], <<>>}
<1> DEFINE hexes == MakeBlockHexes(blocks)
           k == Cardinality(bs)
<1>1. IsFiniteSet(bs) /\ k \in Nat /\ k <= 8
  <2>1. IsFiniteSet(BlockNo) /\ Cardinality(BlockNo) = 8
    <3>1. IsFiniteSet(0 .. 7) /\ Cardinality(0 .. 7) = IF 0 > 7 THEN 0 ELSE 7 - 0 + 1
      BY FS_Interval, 0 \in Int, 7 \in Int, Zenon
    <3> QED BY <3>1, SMT DEF BlockNo
  <2> QED BY <2>1, FS_Subset, FS_CardinalityType
<1>2. hexes = [i \in 1 .. k |-> IF i - 1 \in bs THEN m[i - 1] ELSE <<>>]
  BY DEF MakeBlockHexes
<1> HIDE DEF hexes, k
<1>3. Content(blocks) = IF DecodeRFID501(hexes) # NoTag THEN DecodeRFID501(hexes).content
                        ELSE IF 0 \in bs THEN m[0] ELSE <<>>
  BY DEF Content, hexes
<1>4. CASE DecodeRFID501(hexes) = NoTag
  BY <1>3, <1>4
<1>5. CASE DecodeRFID501(hexes) # NoTag
  <2>1. ~((\E i \in DOMAIN hexes : hexes[i] \notin Block) \/ Len(hexes) < 6)
    <3> SUFFICES ASSUME (\E i \in DOMAIN hexes : hexes[i] \notin Block) \/ Len(hexes) < 6
                 PROVE  DecodeRFID501(hexes) = NoTag
      BY <1>5
    <3> QED BY SMT DEF DecodeRFID501
  <2>2. \A i \in 1 .. k : i - 1 \in bs
    <3> SUFFICES ASSUME NEW i \in 1 .. k, i - 1 \notin bs PROVE FALSE
      OBVIOUS
    <3>1. hexes[i] = <<>> /\ i \in DOMAIN hexes
      BY <1>2
    <3>2. DOMAIN <<>> = {} /\ 1 \in 1 .. 4
      BY SMT
    <3>3. <<>> \notin Block
      <4> SUFFICES ASSUME <<>> \in Block PROVE FALSE
        OBVIOUS
      <4>1. DOMAIN <<>> = 1 .. 4
        BY DEF Block
      <4> QED BY <3>2, <4>1
    <3> QED BY <2>1, <3>1, <3>3
  <2>3. hexes = [i \in 1 .. k |-> m[i - 1]]
    BY <1>2, <2>2
  <2>4. hexes \in Seq(Block) /\ Len(hexes) = k
    <3>1. \A i \in 1 .. k : m[i - 1] \in Block
      BY <2>2
    <3>2. hexes \in [1 .. k -> Block]
      BY <2>3, <3>1
    <3>3. hexes \in Seq(Block)
      BY <1>1, <3>2, SeqDef
    <3>4. Len(hexes) \in Nat /\ DOMAIN hexes = 1 .. Len(hexes) /\ DOMAIN hexes = 1 .. k
      BY <3>2, <3>3, LenProperties
    <3>5. Len(hexes) < k => k \in 1 .. k /\ k \notin 1 .. Len(hexes)
      BY <1>1, <3>4, SMT
    <3>6. k < Len(hexes) => Len(hexes) \in 1 .. Len(hexes) /\ Len(hexes) \notin 1 .. k
      BY <1>1, <3>4, SMT
    <3>7. Len(hexes) = k
      <4>1. ~(Len(hexes) < k) /\ ~(k < Len(hexes))
        BY <3>4, <3>5, <3>6
      <4>2. \A a, b \in Nat : ~(a < b) /\ ~(b < a) => a = b
        BY SMT
      <4> QED BY <1>1, <3>4, <4>1, <4>2, Zenon
    <3> QED BY <3>3, <3>7
  <2>5. k \in 6 .. 8
    BY <1>1, <2>1, <2>4, SMT
  <2> QED BY <1>3, <1>5, <2>3, <2>5, PartlyDecoded
<1> QED BY <1>4, <1>5
=============================================================================
