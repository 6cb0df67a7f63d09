------------------------------ MODULE Rfid501 ------------------------------
(***************************************************************************)
(* The 3M tag format of internal/rfid/rfid501.go: eight blocks of four     *)
(* bytes, here a function from block numbers to tuples of bytes.           *)
(*   block 0     04, set and total (a nibble each), 00, item type          *)
(*   blocks 1-4  the barcode, padded with zero bytes to 16                 *)
(*   block 5     branch (12 bits) and library (20 bits), big-endian        *)
(*   block 6     a signed number, big-endian;  block 7 zero                *)
(* A barcode is a sequence of bytes.  Go's ints may be out of the range of *)
(* their field: each is cut to it in the way the code does.                *)
(***************************************************************************)
EXTENDS Integers, Sequences, FiniteSets

CONSTANT NoTag   \* the nil of DecodeRFID501

Byte      == 0 .. 255
Block     == [1 .. 4 -> Byte]
BlockNo   == 0 .. 7
ZeroBlock == <<0, 0, 0, 0>>

TagFields == [set : Int, total : Int, type : Byte, content : Seq(Byte),
              branch : Int, library : Int, custom : Int]

BigEndian(n) == <<(n \div 16777216) % 256, (n \div 65536) % 256, (n \div 256) % 256, n % 256>>

\* Mutant of Nibbles: the low number is not masked.
Unmasked(hi, lo) == 16 * (hi % 16) + lo

Nibbles(hi, lo) == 16 * (hi % 16) + (lo % 16)

\* branch << 20 | library & 0xFFFFF, as four bytes.
BranchLibrary(b, l) ==
  <<(b \div 16) % 256, Nibbles(b, l \div 65536), (l \div 256) % 256, l % 256>>

\* The barcode's k-th byte: cut after 16, zero beyond its end.
Padded(content, k) == IF k <= Len(content) THEN content[k] ELSE 0

EncodedBlock(t, i) ==
  CASE i = 0      -> <<4, Nibbles(t.set, t.total), 0, t.type>>
    [] i \in 1..4 -> [k \in 1 .. 4 |-> Padded(t.content, 4 * (i - 1) + k)]
    [] i = 5      -> BranchLibrary(t.branch, t.library)
    [] i = 6      -> BigEndian(t.custom)
    [] i = 7      -> ZeroBlock

EncodeRFID501(t) == [i \in BlockNo |-> EncodedBlock(t, i)]

\* Barcodes that begin with 130 are books, the others of type Other.
Starts130(content) == Len(content) >= 3 /\ SubSeq(content, 1, 3) = <<49, 51, 48>>
ItemType(content)  == IF Starts130(content) THEN 1 ELSE 0

EncodeRFID501Content(content) ==
  EncodeRFID501([set |-> 1, total |-> 1, type |-> ItemType(content), content |-> content,
                 branch |-> 0, library |-> 0, custom |-> 0])

\* The generic blank is shorter than a tag: what is in blocks 3 to 7 stays.
BlankRFID501   == [i \in 0 .. 2 |-> ZeroBlock]
Blank3MRFID501 == [i \in 0 .. 6 |-> IF i < 6 THEN <<85, 85, 85, 85>> ELSE ZeroBlock]

(***************************************************************************)
(* Decoding.  ReadBlocks gives a function on the blocks that came back,    *)
(* makeBlockHexes (ops.go) a sequence of as many blocks as came back, with *)
(* an empty one where a block is missing.                                  *)
(***************************************************************************)
\* Mutant of MakeBlockHexes: the blocks in a row, whatever their numbers.
InARow(blocks) ==
  LET nth(i) == CHOOSE b \in DOMAIN blocks : Cardinality({c \in DOMAIN blocks : c < b}) = i - 1
  IN  [i \in 1 .. Cardinality(DOMAIN blocks) |-> blocks[nth(i)]]

MakeBlockHexes(blocks) ==
  [i \in 1 .. Cardinality(DOMAIN blocks) |->
     IF i - 1 \in DOMAIN blocks THEN blocks[i - 1] ELSE <<>>]

\* The bytes before the first zero, or all.
Barcode(b) ==
  SubSeq(b, 1, CHOOSE n \in 0 .. Len(b) :
                 (n = Len(b) \/ b[n + 1] = 0) /\ \A k \in 1 .. n : b[k] # 0)

Signed(b) == (IF b[1] >= 128 THEN b[1] - 256 ELSE b[1]) * 16777216
               + b[2] * 65536 + b[3] * 256 + b[4]

DecodeRFID501(hexes) ==
  LET at(i) == IF i < Len(hexes) THEN hexes[i + 1] ELSE ZeroBlock
      head  == at(0)
      brLib == at(5)
  IN  IF (\E i \in DOMAIN hexes : hexes[i] \notin Block) \/ Len(hexes) < 6
      THEN NoTag
      ELSE [set     |-> head[2] \div 16,
            total   |-> head[2] % 16,
            type    |-> head[4],
            content |-> Barcode(at(1) \o at(2) \o at(3) \o at(4)),
            branch  |-> 16 * brLib[1] + (brLib[2] \div 16),
            library |-> 65536 * (brLib[2] % 16) + 256 * brLib[3] + brLib[4],
            custom  |-> Signed(at(6))]

\* What Scan shows for the blocks of a tag: its barcode, or block 0 as it is
\* when the others came back short, or nothing.
Content(blocks) ==
  LET tag == DecodeRFID501(MakeBlockHexes(blocks))
  IN  IF tag # NoTag THEN tag.content ELSE IF 0 \in DOMAIN blocks THEN blocks[0] ELSE <<>>
=============================================================================
