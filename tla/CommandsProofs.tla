--------------------------- MODULE CommandsProofs ---------------------------
(***************************************************************************)
(* Proofs about the terminal commands, for every set of tags, every set of *)
(* command lines and every way a read or a write may break off. When the   *)
(* program command says Done, the tag holds what the command line asked    *)
(* for. That is not inductive, for it speaks of the end of the command:    *)
(* IInv says for each point of the sequence of driver calls what of it is  *)
(* on the tag already. The scan command's events rest on ScanInv, what it  *)
(* shows of a tag on SInv: a tag that no command is writing or has left    *)
(* half written decodes to its label, and a read that lost blocks to the   *)
(* whole barcode, block 0 or nothing.                                      *)
(***************************************************************************)
EXTENDS Commands, Rfid501Proofs

-----------------------------------------------------------------------------
(***************************************************************************)
(* Command lines.                                                          *)
(***************************************************************************)
Text == Seq(Byte \ {0})

LEMMA LineType ==
  ASSUME NEW c \in Commands
  PROVE  /\ c.sid \in Tags \cup {NoTag} /\ c.content \in Text
         /\ c.afi \in Int /\ c.type \in Int /\ c.set \in Int /\ c.total \in Int
         /\ c.branch \in Int /\ c.library \in Int
BY ProgramCommandAssumption DEF Command, Text

LEMMA TextBytes ==
  ASSUME NEW s \in Text
  PROVE  /\ s \in Seq(Byte) /\ Len(s) \in Nat /\ DOMAIN s = 1 .. Len(s)
         /\ \A k \in 1 .. Len(s) : s[k] \in Byte /\ s[k] # 0
<1>1. Len(s) \in Nat /\ s \in [1 .. Len(s) -> Byte \ {0}]
  BY LenProperties DEF Text
<1>2. s \in [1 .. Len(s) -> Byte]
  BY <1>1
<1>3. s \in Seq(Byte)
  BY <1>1, <1>2, SeqDef
<1> QED BY <1>1, <1>3

\* Upper case has no zero byte either.
LEMMA UpperText ==
  ASSUME NEW s \in Text
  PROVE  Upper(s) \in Text
<1>1. Len(s) \in Nat /\ DOMAIN s = 1 .. Len(s) /\ \A k \in 1 .. Len(s) : s[k] \in Byte /\ s[k] # 0
  BY TextBytes
<1>2. Upper(s) \in [1 .. Len(s) -> Byte \ {0}]
  <2> SUFFICES ASSUME NEW k \in 1 .. Len(s)
               PROVE  (IF s[k] \in 97 .. 122 THEN s[k] + -32 ELSE s[k]) \in Byte \ {0}
    BY <1>1 DEF Upper, Recased
  <2>1. s[k] \in Byte /\ s[k] # 0
    BY <1>1
  <2> DEFINE b == s[k]
  <2> HIDE DEF b
  <2>2. b \in Byte /\ b # 0 => (IF b \in 97 .. 122 THEN b + -32 ELSE b) \in Byte \ {0}
    BY SMT DEF Byte
  <2> QED BY <2>1, <2>2 DEF b
<1> QED BY <1>1, <1>2, SeqDef DEF Text

LEMMA BarcodedText ==
  ASSUME NEW c \in Commands
  PROVE  Barcoded(c) \in Text
BY LineType, UpperText DEF Barcoded

\* The item of a line that is not rejected is one the encoder is faithful to.
LEMMA ItemFields ==
  ASSUME NEW c \in Commands, ~Rejected(c)
  PROVE  /\ ItemOf(c) \in TagFields /\ ItemOf(c).custom \in Int32
         /\ Len(ItemOf(c).content) <= 16
         /\ \A k \in 1 .. Len(ItemOf(c).content) : ItemOf(c).content[k] # 0
<1>1. /\ Barcoded(c) \in Seq(Byte) /\ Len(Barcoded(c)) \in Nat
      /\ \A k \in 1 .. Len(Barcoded(c)) : Barcoded(c)[k] # 0
  BY BarcodedText, TextBytes
<1>2. Len(Barcoded(c)) <= 16
  BY <1>1, SMT DEF Rejected
<1>3. (IF c.type % 256 # 0 THEN c.type % 256 ELSE ItemType(Barcoded(c))) \in Byte
  BY LineType, SMT DEF ItemType, Byte
<1>4. 0 \in Int32
  BY SMT DEF Int32
<1> QED BY <1>1, <1>2, <1>3, <1>4, LineType DEF ItemOf, TagFields

-----------------------------------------------------------------------------
(***************************************************************************)
(* The driver calls of a command.                                          *)
(***************************************************************************)
Image(c) ==
  IF c.blank3M THEN Blank3MRFID501
  ELSE IF SaysBlank(c) THEN BlankRFID501 ELSE EncodeRFID501(ItemOf(c))

AutoCall(c)  == Afi(IF SaysBlank(c) THEN AfiUnsecure ELSE AutoAfi(Barcoded(c)))
AskedCall(c) == Afi(c.afi % 256)

LEMMA Joins ==
  ASSUME NEW x, NEW y, NEW z
  PROVE  /\ <<x>> \o <<>> = <<x>> /\ <<x>> \o <<y>> = <<x, y>>
         /\ <<x, y>> \o <<>> = <<x, y>> /\ <<x, y>> \o <<z>> = <<x, y, z>>
<1> DEFINE S == {x, y, z}
<1>1. <<x>> \in Seq(S) /\ <<x, y>> \in Seq(S) /\ y \in S /\ z \in S
  BY SMT
<1>2. Append(<<x>>, y) = <<x, y>> /\ Append(<<x, y>>, z) = <<x, y, z>>
  <2>1. \A s \in Seq(S), e \in S : /\ Append(s, e) \in Seq(S) /\ Len(Append(s, e)) = Len(s) + 1
                                   /\ \A i \in 1 .. Len(s) : Append(s, e)[i] = s[i]
                                   /\ Append(s, e)[Len(s) + 1] = e
    BY AppendProperties
  <2>2. <<x>> \in Seq(S) /\ <<x, y>> \in Seq(S) /\ <<x, y, z>> \in Seq(S) /\ y \in S /\ z \in S
    BY SMT
  <2> HIDE DEF S
  <2>3. Append(<<x>>, y) = <<x, y>>
    <3>1. /\ Append(<<x>>, y) \in Seq(S) /\ Len(Append(<<x>>, y)) = Len(<<x>>) + 1
          /\ \A i \in 1 .. Len(<<x>>) : Append(<<x>>, y)[i] = <<x>>[i]
          /\ Append(<<x>>, y)[Len(<<x>>) + 1] = y
      BY <2>1, <2>2, Zenon
    <3>2. /\ Len(Append(<<x>>, y)) = Len(<<x, y>>)
          /\ \A i \in 1 .. Len(Append(<<x>>, y)) : Append(<<x>>, y)[i] = <<x, y>>[i]
      BY <3>1, SMT
    <3> QED BY <2>2, <3>1, <3>2, SeqEqual, Zenon
  <2>4. Append(<<x, y>>, z) = <<x, y, z>>
    <3>1. /\ Append(<<x, y>>, z) \in Seq(S) /\ Len(Append(<<x, y>>, z)) = Len(<<x, y>>) + 1
          /\ \A i \in 1 .. Len(<<x, y>>) : Append(<<x, y>>, z)[i] = <<x, y>>[i]
          /\ Append(<<x, y>>, z)[Len(<<x, y>>) + 1] = z
      BY <2>1, <2>2, Zenon
    <3>2. /\ Len(Append(<<x, y>>, z)) = Len(<<x, y, z>>)
          /\ \A i \in 1 .. Len(Append(<<x, y>>, z)) : Append(<<x, y>>, z)[i] = <<x, y, z>>[i]
      BY <3>1, SMT
    <3> QED BY <2>2, <3>1, <3>2, SeqEqual, Zenon
  <2> QED BY <2>3, <2>4
<1>3. <<x>> \o <<>> = <<x>> /\ <<x, y>> \o <<>> = <<x, y>>
  BY SMT
<1> HIDE DEF S
<1>4. Append(<<x>>, y) = <<x>> \o <<y>> /\ Append(<<x, y>>, z) = <<x, y>> \o <<z>>
  BY <1>1, AppendIsConcat, Zenon
<1> QED BY <1>2, <1>3, <1>4, Zenon

LEMMA CallsShape ==
  ASSUME NEW c \in Commands, Programming(c) # <<>>
  PROVE  Calls(c) = IF c.blank3M
                    THEN IF c.afi = 0 THEN <<Blocks(Image(c))>>
                         ELSE <<Blocks(Image(c)), AskedCall(c)>>
                    ELSE IF c.afi = 0 THEN <<Blocks(Image(c)), AutoCall(c)>>
                         ELSE <<Blocks(Image(c)), AutoCall(c), AskedCall(c)>>
<1>1. Programming(c) = IF c.blank3M THEN <<Blocks(Image(c))>>
                       ELSE <<Blocks(Image(c)), AutoCall(c)>>
  BY Zenon DEF Programming, Image, AutoCall
<1>2. Override(c) = IF c.afi = 0 THEN <<>> ELSE <<AskedCall(c)>>
  BY Zenon DEF Override, AskedCall
<1>3. \A x, y, z : /\ <<x>> \o <<>> = <<x>> /\ <<x>> \o <<y>> = <<x, y>>
                   /\ <<x, y>> \o <<>> = <<x, y>> /\ <<x, y>> \o <<z>> = <<x, y, z>>
  BY Joins
<1> QED BY <1>1, <1>2, <1>3, Zenon DEF Calls

LEMMA SomeCalls ==
  ASSUME NEW c \in Commands, Programming(c) # <<>>
  PROVE  Calls(c) # <<>>
BY CallsShape, SMT

LEMMA ImageType ==
  ASSUME NEW c \in Commands, ~Rejected(c)
  PROVE  DOMAIN Image(c) \subseteq BlockNo /\ \A i \in DOMAIN Image(c) : Image(c)[i] \in Block
<1>1. ZeroBlock \in Block /\ <<85, 85, 85, 85>> \in Block
  <2>1. 0 \in Byte /\ 85 \in Byte
    BY SMT DEF Byte
  <2> QED BY <2>1, FourBytes, SMT DEF ZeroBlock
<1>2. CASE c.blank3M
  BY <1>1, <1>2, SMT DEF Image, Blank3MRFID501, BlockNo
<1>3. CASE ~c.blank3M /\ SaysBlank(c)
  BY <1>1, <1>3, SMT DEF Image, BlankRFID501, BlockNo
<1>4. CASE ~c.blank3M /\ ~SaysBlank(c)
  <2>1. EncodeRFID501(ItemOf(c)) \in [BlockNo -> Block]
    BY ItemFields, EncodedBlocks, Zenon
  <2> QED BY <1>4, <2>1, Zenon DEF Image
<1> QED BY <1>2, <1>3, <1>4

OnTag(c, m) == \A i \in DOMAIN Image(c) : m[i] = Image(c)[i]

\* A tag that begins with a zero byte of barcode has an empty one.
LEMMA EmptyBarcode ==
  ASSUME NEW s \in Seq(Byte), Len(s) = 16, s[1] = 0
  PROVE  Barcode(s) = <<>>
<1> DEFINE P(n) == (n = Len(s) \/ s[n + 1] = 0) /\ \A k \in 1 .. n : s[k] # 0
<1>1. 0 \in 0 .. Len(s) /\ P(0)
  BY SMT
<1>2. ASSUME NEW n \in 0 .. Len(s), P(n)
      PROVE  n = 0
  <2>1. 1 \notin 1 .. n
    BY <1>2
  <2> QED BY <2>1, SMT
<1>3. (CHOOSE n \in 0 .. Len(s) : P(n)) = 0
  BY <1>1, <1>2, Zenon
<1>4. Barcode(s) = SubSeq(s, 1, 0)
  BY <1>3, Zenon DEF Barcode
<1>5. SubSeq(s, 1, 0) = <<>>
  BY SMT
<1> QED BY <1>4, <1>5

\* The whole image on a tag decodes to what the command line asks for.
LEMMA ImageDecodes ==
  ASSUME NEW c \in Commands, ~Rejected(c),
         NEW m \in [BlockNo -> Block], OnTag(c, m),
         NEW hexes, hexes = [i \in 1 .. 8 |-> m[i - 1]]
  PROVE  IF c.blank3M \/ SaysBlank(c) THEN DecodeRFID501(hexes).content = Given(c)
         ELSE DecodeRFID501(hexes) = Asked(c)
<1> DEFINE bytes == FourOf(m[1], m[2], m[3], m[4])
<1>1. DecodeRFID501(hexes) = Decoding(m)
  BY Decoded, Zenon
<1>2. DecodeRFID501(hexes).content = Barcode(bytes)
  BY <1>1 DEF Decoding
<1>3. m[1] \in Block /\ m[2] \in Block /\ m[3] \in Block /\ m[4] \in Block
  BY SMT DEF BlockNo
<1> HIDE DEF bytes
<1>4. InARowOf(bytes, m[1], m[2], m[3], m[4])
  <2>1. bytes = FourOf(m[1], m[2], m[3], m[4])
    BY DEF bytes
  <2> QED BY <1>3, <2>1, FourBlocks, Zenon
<1>5. /\ bytes \in Seq(Byte) /\ Len(bytes) = 16
      /\ \A k \in 1 .. 4 : /\ bytes[k] = m[1][k] /\ bytes[k + 4] = m[2][k]
                          /\ bytes[k + 8] = m[3][k] /\ bytes[k + 12] = m[4][k]
  BY <1>4 DEF InARowOf
<1>6. CASE c.blank3M
  <2> DEFINE full == [k \in 1 .. 16 |-> 85]
  <2>1. \A i \in 1 .. 4 : m[i] = <<85, 85, 85, 85>>
    <3>1. Image(c) = Blank3MRFID501
      BY <1>6 DEF Image
    <3>2. \A i \in 0 .. 6 : m[i] = Blank3MRFID501[i]
      BY <3>1, SMT DEF OnTag, Blank3MRFID501
    <3>3. \A i \in 1 .. 4 : i \in 0 .. 6 /\ Blank3MRFID501[i] = <<85, 85, 85, 85>>
      BY SMT DEF Blank3MRFID501
    <3> QED BY <3>2, <3>3, Zenon
  <2>2. \A i, k \in 1 .. 4 : m[i][k] = 85
    BY <2>1, SMT
  <2>3. \A k \in 1 .. 16 : bytes[k] = 85
    <3> SUFFICES ASSUME NEW k \in 1 .. 16 PROVE bytes[k] = 85
      OBVIOUS
    <3>1. CASE k \in 1 .. 4
      BY <1>5, <2>2, <3>1, SMT
    <3>2. CASE k - 4 \in 1 .. 4
      BY <1>5, <2>2, <3>2, (k - 4) + 4 = k, SMTT(30)
    <3>3. CASE k - 8 \in 1 .. 4
      BY <1>5, <2>2, <3>3, (k - 8) + 8 = k, SMTT(30)
    <3>4. CASE k - 12 \in 1 .. 4
      BY <1>5, <2>2, <3>4, (k - 12) + 12 = k, SMTT(30)
    <3> QED BY <3>1, <3>2, <3>3, <3>4, SMT
  <2>4. full \in Seq(Byte) /\ Len(full) = 16
    BY SMT DEF Byte
  <2>5. \A k \in 1 .. 16 : full[k] # 0 /\ bytes[k] = Padded(full, k)
    BY <2>3, <2>4, SMT DEF Padded
  <2>6. Barcode(bytes) = full
    <3> HIDE DEF full
    <3>1. /\ Len(full) <= 16 /\ \A k \in 1 .. Len(full) : full[k] # 0
          /\ \A k \in 1 .. 16 : bytes[k] = Padded(full, k)
      BY <2>4, <2>5, SMT
    <3> QED BY <1>5, <2>4, <3>1, BarcodeRead, Zenon
  <2> QED BY <1>2, <1>6, <2>6 DEF Given
<1>7. CASE ~c.blank3M /\ SaysBlank(c)
  <2>1. m[1] = ZeroBlock
    BY <1>7, SMT DEF OnTag, Image, BlankRFID501
  <2>2. bytes[1] = 0
    BY <1>5, <2>1, SMT DEF ZeroBlock
  <2>3. Barcode(bytes) = <<>>
    BY <1>5, <2>2, EmptyBarcode
  <2> QED BY <1>2, <1>7, <2>3 DEF Given
<1>8. CASE ~c.blank3M /\ ~SaysBlank(c)
  <2>1. Image(c) = EncodeRFID501(ItemOf(c)) /\ Image(c) \in [BlockNo -> Block]
    BY <1>8, ItemFields, EncodedBlocks, Zenon DEF Image
  <2>2. m = EncodeRFID501(ItemOf(c))
    BY <2>1 DEF OnTag
  <2>3. DecodeRFID501(hexes) =
          [set |-> ItemOf(c).set % 16, total |-> ItemOf(c).total % 16, type |-> ItemOf(c).type,
           content |-> ItemOf(c).content, branch |-> ItemOf(c).branch % 4096,
           library |-> ItemOf(c).library % 1048576, custom |-> ItemOf(c).custom]
    BY <2>2, ItemFields, RoundTrip, SMT
  <2>4. DecodeRFID501(hexes) = Asked(c)
    BY <2>3 DEF Asked, ItemOf
  <2> QED BY <1>8, <2>4
<1> QED BY <1>6, <1>7, <1>8

-----------------------------------------------------------------------------
(***************************************************************************)
(* How far a command is: `todo' the driver calls to come, m and a what the *)
(* tag holds.  A command that writes no AFI leaves the one there was.      *)
(***************************************************************************)
AfiDone(c, a) ==
  /\ c.afi # 0 => a = c.afi % 256
  /\ c.afi = 0 /\ ~c.blank3M => Afi(a) = AutoCall(c)

Stage(c, todo, m, a) ==
  \/ todo = Calls(c)
  \/ /\ OnTag(c, m)
     /\ \/ todo = <<AutoCall(c), AskedCall(c)>> /\ ~c.blank3M /\ c.afi # 0
        \/ todo = <<AutoCall(c)>> /\ ~c.blank3M /\ c.afi = 0
        \/ todo = <<AskedCall(c)>> /\ c.afi # 0
        \/ todo = <<>> /\ AfiDone(c, a)

TodosOf(c) ==
  {Calls(c), <<AutoCall(c), AskedCall(c)>>, <<AutoCall(c)>>, <<AskedCall(c)>>, <<>>}

LEMMA StageTodo ==
  ASSUME NEW c, NEW todo, NEW m, NEW a, Stage(c, todo, m, a)
  PROVE  todo \in TodosOf(c)
BY DEF Stage, TodosOf

LEMMA Overlaid ==
  ASSUME NEW c \in Commands, ~Rejected(c), NEW m \in [BlockNo -> Block]
  PROVE  OnTag(c, Overlay(Image(c), m))
BY ImageType DEF OnTag, Overlay

\* The first call to come is a block write with the whole image, or one AFI
\* of the two; after it the command is at its next stage.
LEMMA StageStep ==
  ASSUME NEW c \in Commands, ~Rejected(c), Programming(c) # <<>>,
         NEW todo, NEW m \in [BlockNo -> Block], NEW a,
         Stage(c, todo, m, a), todo # <<>>
  PROVE  \/ /\ Head(todo) = Blocks(Image(c))
            /\ Stage(c, Tail(todo), Overlay(Image(c), m), a)
         \/ /\ Head(todo) \in {AutoCall(c), AskedCall(c)}
            /\ Stage(c, Tail(todo), m, Head(todo).val)
<1>1. \A x, y, z : /\ Head(<<x>>) = x /\ Tail(<<x>>) = <<>>
                   /\ Head(<<x, y>>) = x /\ Tail(<<x, y>>) = <<y>>
                   /\ Head(<<x, y, z>>) = x /\ Tail(<<x, y, z>>) = <<y, z>>
  BY SMT
<1>2. CASE todo = Calls(c)
  <2>1. OnTag(c, Overlay(Image(c), m))
    BY Overlaid
  <2>2. CASE c.blank3M /\ c.afi = 0
    <3>1. todo = <<Blocks(Image(c))>>
      BY <1>2, <2>2, CallsShape
    <3> QED BY <1>1, <2>1, <2>2, <3>1, Zenon DEF Stage, AfiDone
  <2>3. CASE c.blank3M /\ c.afi # 0
    <3>1. todo = <<Blocks(Image(c)), AskedCall(c)>>
      BY <1>2, <2>3, CallsShape
    <3> QED BY <1>1, <2>1, <2>3, <3>1, Zenon DEF Stage
  <2>4. CASE ~c.blank3M /\ c.afi = 0
    <3>1. todo = <<Blocks(Image(c)), AutoCall(c)>>
      BY <1>2, <2>4, CallsShape
    <3> QED BY <1>1, <2>1, <2>4, <3>1, Zenon DEF Stage
  <2>5. CASE ~c.blank3M /\ c.afi # 0
    <3>1. todo = <<Blocks(Image(c)), AutoCall(c), AskedCall(c)>>
      BY <1>2, <2>5, CallsShape
    <3> QED BY <1>1, <2>1, <2>5, <3>1, ZenonT(30) DEF Stage
  <2> QED BY <2>2, <2>3, <2>4, <2>5
<1>3. CASE OnTag(c, m) /\ todo = <<AutoCall(c), AskedCall(c)>> /\ ~c.blank3M /\ c.afi # 0
  BY <1>1, <1>3, Zenon DEF Stage
<1>4. CASE OnTag(c, m) /\ todo = <<AutoCall(c)>> /\ ~c.blank3M /\ c.afi = 0
  <2>1. Head(todo) = AutoCall(c) /\ Tail(todo) = <<>>
    BY <1>1, <1>4
  <2>2. Afi(AutoCall(c).val) = AutoCall(c)
    BY DEF AutoCall, Afi
  <2> QED BY <1>4, <2>1, <2>2, Zenon DEF Stage, AfiDone
<1>5. CASE OnTag(c, m) /\ todo = <<AskedCall(c)>> /\ c.afi # 0
  <2>1. Head(todo) = AskedCall(c) /\ Tail(todo) = <<>>
    BY <1>1, <1>5
  <2>2. AskedCall(c).val = c.afi % 256
    BY DEF AskedCall, Afi
  <2> QED BY <1>5, <2>1, <2>2, Zenon DEF Stage, AfiDone
<1> QED BY <1>2, <1>3, <1>4, <1>5 DEF Stage

-----------------------------------------------------------------------------
(***************************************************************************)
(* The invariant.                                                          *)
(***************************************************************************)
Todos == {<<>>} \cup UNION {TodosOf(c) : c \in Commands}

TagsType == mem \in [Tags -> [BlockNo -> Block]] /\ afi \in [Tags -> Byte]

ProgType ==
  prog \in [at : {"ended", "open", "writing"}, cmd : Commands \cup {NoTag}, todo : Todos]

IInv ==
  /\ TagsType /\ ProgType
  /\ prog.at # "ended" => prog.cmd \in Commands /\ ~Rejected(prog.cmd)
  /\ prog.at = "open" => prog.todo = Calls(prog.cmd)
  /\ prog.at = "writing" =>
       /\ Programming(prog.cmd) # <<>>
       /\ Stage(prog.cmd, prog.todo, mem[prog.cmd.sid], afi[prog.cmd.sid])

LEMMA CallBytes ==
  ASSUME NEW c \in Commands
  PROVE  AutoCall(c).val \in Byte /\ AskedCall(c).val \in Byte
<1>1. AfiSecure \in Byte /\ AfiUnsecure \in Byte
  BY SMT DEF AfiSecure, AfiUnsecure, Byte
<1>2. c.afi % 256 \in Byte
  BY LineType, SMT DEF Byte
<1> QED BY <1>1, <1>2 DEF AutoCall, AskedCall, Afi, AutoAfi

LEMMA OverlayType ==
  ASSUME NEW v, \A i \in DOMAIN v : v[i] \in Block, NEW m \in [BlockNo -> Block]
  PROVE  Overlay(v, m) \in [BlockNo -> Block]
BY DEF Overlay

LEMMA RemnantType ==
  ASSUME NEW v, \A i \in DOMAIN v : v[i] \in Block, NEW t \in Tags, NEW n, TagsType
  PROVE  Remnant(t, v, n) \in [BlockNo -> Block]
<1>1. \A i \in DOMAIN Upto(v, n) : Upto(v, n)[i] \in Block
  BY DEF Upto
<1>2. mem[t] \in [BlockNo -> Block]
  BY DEF TagsType
<1> QED BY <1>1, <1>2, OverlayType DEF Remnant

LEMMA InitIInv == Init => IInv
<1> SUFFICES ASSUME Init PROVE IInv
  OBVIOUS
<1>1. \A s \in Seq(Byte) : EncodeRFID501Content(s) \in [BlockNo -> Block]
  <2> SUFFICES ASSUME NEW s \in Seq(Byte) PROVE EncodeRFID501Content(s) \in [BlockNo -> Block]
    OBVIOUS
  <2> DEFINE t == [set |-> 1, total |-> 1, type |-> ItemType(s), content |-> s,
                   branch |-> 0, library |-> 0, custom |-> 0]
  <2>1. ItemType(s) \in Byte /\ 0 \in Int32
    BY SMT DEF ItemType, Byte, Int32
  <2>2. t \in TagFields /\ t.custom \in Int32
    BY <2>1 DEF TagFields
  <2> HIDE DEF t
  <2>3. EncodeRFID501(t) \in [BlockNo -> Block]
    BY <2>2, EncodedBlocks, Zenon
  <2> QED BY <2>3 DEF EncodeRFID501Content, t
<1>2. TagsType
  <2>1. \A s \in Barcodes : s \in Seq(Byte)
    BY CommandsAssumption, TextBytes DEF Text
  <2> QED BY <1>1, <2>1, CommandsAssumption DEF Init, TagsType
<1>3. prog = Ended
  BY DEF Init, ProgramInit
<1> QED BY <1>2, <1>3 DEF IInv, ProgType, Ended, Todos

\* In the middle of its writes the command is at a call of its own.
LEMMA AtCall ==
  ASSUME IInv, prog.at = "writing", prog.todo # <<>>
  PROVE  /\ prog.cmd \in Commands /\ ~Rejected(prog.cmd) /\ prog.cmd.sid \in Tags
         /\ mem[prog.cmd.sid] \in [BlockNo -> Block]
         /\ \/ /\ Head(prog.todo) = Blocks(Image(prog.cmd))
               /\ Stage(prog.cmd, Tail(prog.todo),
                        Overlay(Image(prog.cmd), mem[prog.cmd.sid]), afi[prog.cmd.sid])
            \/ /\ Head(prog.todo) \in {AutoCall(prog.cmd), AskedCall(prog.cmd)}
               /\ Stage(prog.cmd, Tail(prog.todo), mem[prog.cmd.sid], Head(prog.todo).val)
<1> DEFINE c == prog.cmd
<1>1. c \in Commands /\ ~Rejected(c) /\ Programming(c) # <<>>
      /\ Stage(c, prog.todo, mem[c.sid], afi[c.sid])
  BY DEF IInv
<1>2. c.sid \in Tags
  BY <1>1, LineType DEF Rejected
<1>3. mem[c.sid] \in [BlockNo -> Block]
  BY <1>2 DEF IInv, TagsType
<1> HIDE DEF c
<1>4. \/ /\ Head(prog.todo) = Blocks(Image(c))
         /\ Stage(c, Tail(prog.todo), Overlay(Image(c), mem[c.sid]), afi[c.sid])
      \/ /\ Head(prog.todo) \in {AutoCall(c), AskedCall(c)}
         /\ Stage(c, Tail(prog.todo), mem[c.sid], Head(prog.todo).val)
  BY <1>1, <1>3, StageStep
<1> QED BY <1>1, <1>2, <1>3, <1>4 DEF c

LEMMA WritesKeepIInv ==
  ASSUME IInv, ProgramWrites
  PROVE  IInv'
<1> DEFINE c == prog.cmd
           t == prog.cmd.sid
<1>1. /\ prog.at = "writing" /\ prog.todo # <<>> /\ Wrote(Head(prog.todo))
      /\ prog' = [prog EXCEPT !.todo = Tail(@)]
  BY DEF ProgramWrites
<1>2. /\ c \in Commands /\ ~Rejected(c) /\ t \in Tags /\ mem[t] \in [BlockNo -> Block]
      /\ \/ /\ Head(prog.todo) = Blocks(Image(c))
            /\ Stage(c, Tail(prog.todo), Overlay(Image(c), mem[t]), afi[t])
         \/ /\ Head(prog.todo) \in {AutoCall(c), AskedCall(c)}
            /\ Stage(c, Tail(prog.todo), mem[t], Head(prog.todo).val)
  BY <1>1, AtCall
<1>3. /\ prog \in [at : {"ended", "open", "writing"}, cmd : Commands \cup {NoTag}, todo : Todos]
      /\ TagsType /\ Programming(c) # <<>>
  BY <1>1 DEF IInv, ProgType
<1>4. prog'.at = "writing" /\ prog'.cmd = c /\ prog'.todo = Tail(prog.todo)
  BY <1>1, <1>3
<1>5. ASSUME Head(prog.todo) = Blocks(Image(c)),
             Stage(c, Tail(prog.todo), Overlay(Image(c), mem[t]), afi[t])
      PROVE  TagsType' /\ Stage(c, prog'.todo, mem'[t], afi'[t])
  <2>1. mem' = [mem EXCEPT ![t] = Overlay(Image(c), @)] /\ afi' = afi
    BY <1>1, <1>5 DEF Wrote, Blocks
  <2>2. Overlay(Image(c), mem[t]) \in [BlockNo -> Block]
    BY <1>2, ImageType, OverlayType
  <2>3. TagsType' /\ mem'[t] = Overlay(Image(c), mem[t]) /\ afi'[t] = afi[t]
    BY <1>2, <1>3, <2>1, <2>2 DEF TagsType
  <2>4. Stage(c, prog'.todo, mem'[t], afi'[t])
    BY <1>4, <1>5, <2>3
  <2> QED BY <2>3, <2>4
<1>6. ASSUME Head(prog.todo) \in {AutoCall(c), AskedCall(c)},
             Stage(c, Tail(prog.todo), mem[t], Head(prog.todo).val)
      PROVE  TagsType' /\ Stage(c, prog'.todo, mem'[t], afi'[t])
  <2>1. Head(prog.todo).call = "afi" /\ Head(prog.todo).val \in Byte
    BY <1>2, <1>6, CallBytes DEF AutoCall, AskedCall, Afi
  <2>2. afi' = [afi EXCEPT ![t] = Head(prog.todo).val] /\ mem' = mem
    BY <1>1, <2>1 DEF Wrote
  <2>3. TagsType' /\ mem'[t] = mem[t] /\ afi'[t] = Head(prog.todo).val
    BY <1>2, <1>3, <2>1, <2>2 DEF TagsType
  <2>4. Stage(c, prog'.todo, mem'[t], afi'[t])
    BY <1>4, <1>6, <2>3
  <2> QED BY <2>3, <2>4
<1>7. TagsType' /\ Stage(c, prog'.todo, mem'[t], afi'[t])
  BY <1>2, <1>5, <1>6
<1>8. prog'.todo \in TodosOf(c)
  BY <1>7, StageTodo
<1>9. ProgType'
  BY <1>1, <1>2, <1>3, <1>4, <1>8 DEF ProgType, Todos
<1> QED BY <1>2, <1>3, <1>4, <1>7, <1>9 DEF IInv

\* What a write that fails leaves on the tag are still blocks and bytes.
LEMMA BreakingOffKeepsTypes ==
  ASSUME IInv, ProgramBreaksOff
  PROVE  TagsType'
<1>1. TagsType
  BY DEF IInv
<1>2. CASE prog.todo = <<>>
  BY <1>1, <1>2 DEF ProgramBreaksOff, TagsType
<1>3. CASE prog.todo # <<>>
  <2> DEFINE t == prog.cmd.sid
             call == Head(prog.todo)
  <2>1. prog.at = "writing" /\ MayHaveWritten(call)
    BY <1>3 DEF ProgramBreaksOff
  <2>2. /\ prog.cmd \in Commands /\ ~Rejected(prog.cmd) /\ t \in Tags
        /\ call = Blocks(Image(prog.cmd)) \/ call \in {AutoCall(prog.cmd), AskedCall(prog.cmd)}
    BY <1>3, <2>1, AtCall
  <2> HIDE DEF call
  <2>3. CASE call = Blocks(Image(prog.cmd))
    <3>1. PICK n : mem' = [mem EXCEPT ![t] = Remnant(t, Image(prog.cmd), n)] /\ afi' = afi
      BY <2>1, <2>3 DEF MayHaveWritten, Blocks
    <3>2. Remnant(t, Image(prog.cmd), n) \in [BlockNo -> Block]
      BY <1>1, <2>2, ImageType, RemnantType
    <3> QED BY <1>1, <3>1, <3>2 DEF TagsType
  <2>4. CASE call \in {AutoCall(prog.cmd), AskedCall(prog.cmd)}
    <3>1. call.call = "afi" /\ call.val \in Byte
      BY <2>2, <2>4, CallBytes DEF AutoCall, AskedCall, Afi
    <3>2. mem' = mem /\ afi' \in {afi} \cup {[afi EXCEPT ![t] = call.val]}
      BY <2>1, <3>1 DEF MayHaveWritten
    <3> QED BY <1>1, <3>1, <3>2 DEF TagsType
  <2> QED BY <2>2, <2>3, <2>4
<1> QED BY <1>2, <1>3

LEMMA StepIInv == IInv /\ [Next]_vars => IInv'
<1> SUFFICES ASSUME IInv, [Next]_vars PROVE IInv'
  OBVIOUS
<1> USE DEF IInv
<1>1. ASSUME mem' = mem, afi' = afi, prog' = prog
      PROVE  IInv'
  BY <1>1 DEF TagsType, ProgType
<1>2. ASSUME prog' = Ended, TagsType'
      PROVE  IInv'
  BY <1>2 DEF ProgType, Ended, Todos
<1>3. CASE RunProgram
  <2>1. mem' = mem /\ afi' = afi /\ TagsType'
    BY <1>3 DEF RunProgram, tags, TagsType
  <2>2. CASE prog' = Ended
    BY <1>2, <2>1, <2>2
  <2>3. CASE prog' # Ended
    <3>1. PICK c \in Commands :
            ~Rejected(c) /\ prog' = [at |-> "open", cmd |-> c, todo |-> Calls(c)]
      BY <1>3, <2>3 DEF RunProgram
    <3>2. Calls(c) \in Todos
      BY DEF Todos, TodosOf
    <3> QED BY <2>1, <3>1, <3>2 DEF ProgType
  <2> QED BY <2>2, <2>3
<1>4. CASE OpenForProgram
  <2>1. mem' = mem /\ afi' = afi /\ TagsType' /\ prog.at = "open"
    BY <1>4 DEF OpenForProgram, TagsType
  <2>2. CASE prog' = Ended
    BY <1>2, <2>1, <2>2
  <2>3. CASE prog' # Ended
    <3>1. prog' = [prog EXCEPT !.at = "writing"] /\ Programming(prog.cmd) # <<>>
      BY <1>4, <2>3 DEF OpenForProgram
    <3>2. /\ prog'.at = "writing" /\ prog'.cmd = prog.cmd /\ prog'.todo = Calls(prog.cmd)
          /\ ProgType'
      BY <2>1, <3>1 DEF ProgType
    <3>3. Stage(prog.cmd, Calls(prog.cmd), mem'[prog.cmd.sid], afi'[prog.cmd.sid])
      BY DEF Stage
    <3> QED BY <2>1, <3>1, <3>2, <3>3
  <2> QED BY <2>2, <2>3
<1>5. CASE ProgramWrites
  BY <1>5, WritesKeepIInv
<1>6. CASE ProgramBreaksOff
  BY <1>2, <1>6, BreakingOffKeepsTypes DEF ProgramBreaksOff
<1>7. CASE ProgramDone
  BY <1>2, <1>7 DEF ProgramDone, TagsType
<1>8. CASE ScanStep /\ UNCHANGED progVars
  <2>1. mem' = mem /\ afi' = afi
    BY <1>8 DEF ScanStep, ScanRound, RunScan, Signal, OpenForScan, InventoryFinds,
                InventoryFails, ReadTag, Report, Wake, tags
  <2> QED BY <1>1, <1>8, <2>1 DEF progVars
<1>9. CASE MoveTags
  BY <1>1, <1>9 DEF MoveTags, progVars
<1>10. CASE UNCHANGED vars
  BY <1>1, <1>10 DEF vars, tags, progVars
<1> QED BY <1>3, <1>4, <1>5, <1>6, <1>7, <1>8, <1>9, <1>10 DEF Next, ProgramStep

\* At the end of its calls everything asked for is on the tag.
LEMMA IInvIsEnough == IInv => DoneMeansProgrammed
<1> SUFFICES ASSUME IInv, AllDone PROVE DoneMeansProgrammed
  BY DEF DoneMeansProgrammed
<1> DEFINE c == prog.cmd
           m == mem[c.sid]
           a == afi[c.sid]
<1>1. /\ c \in Commands /\ ~Rejected(c) /\ Programming(c) # <<>>
      /\ Stage(c, <<>>, m, a) /\ TagsType
  BY DEF IInv, AllDone
<1>2. m \in [BlockNo -> Block]
  BY <1>1, LineType DEF Rejected, TagsType
<1> HIDE DEF c, m, a
<1>3. Calls(c) # <<>>
  BY <1>1, SomeCalls
<1>4. OnTag(c, m) /\ AfiDone(c, a)
  BY <1>1, <1>3, SMT DEF Stage
<1>5. IF c.blank3M \/ SaysBlank(c)
      THEN DecodeRFID501([i \in 1 .. 8 |-> m[i - 1]]).content = Given(c)
      ELSE DecodeRFID501([i \in 1 .. 8 |-> m[i - 1]]) = Asked(c)
  BY <1>1, <1>2, <1>4, ImageDecodes, Zenon
<1>6. c.afi = 0 /\ ~c.blank3M =>
        a = IF SaysBlank(c) THEN AfiUnsecure ELSE AutoAfi(Barcoded(c))
  BY <1>4, SMT DEF AfiDone, AutoCall, Afi
<1> QED BY <1>4, <1>5, <1>6 DEF DoneMeansProgrammed, AfiDone, c, m, a

(***************************************************************************)
(* "Done" means done (cmd/program/main.go, rfidops.Program), whatever the  *)
(* command line, the tag's earlier contents and the failures before.       *)
(***************************************************************************)
THEOREM ProgramIsFaithful == Spec => []DoneMeansProgrammed
  BY InitIInv, StepIInv, IInvIsEnough, PTL DEF Spec

-----------------------------------------------------------------------------
(***************************************************************************)
(* The scan command: what it has told its reader is what it remembers.     *)
(***************************************************************************)
ScanInv ==
  /\ DOMAIN scan = {"at", "loop", "sig", "done", "prev", "todo", "items"}
  /\ scan.at # "ended" => announced = scan.prev

LEMMA InitScanInv == Init => ScanInv
  BY DEF Init, ScanInit, NoScan, ScanInv

LEMMA StepScanInv == ScanInv /\ [Next]_vars => ScanInv'
<1> SUFFICES ASSUME ScanInv, [Next]_vars PROVE ScanInv'
  OBVIOUS
<1> USE DEF ScanInv
<1>1. ASSUME scan' = scan, announced' = announced PROVE ScanInv'
  BY <1>1
<1>2. CASE ProgramStep /\ UNCHANGED scanVars
  BY <1>1, <1>2 DEF scanVars
<1>3. CASE RunScan
  BY <1>3 DEF RunScan, NoScan
<1>4. CASE Signal
  BY <1>4 DEF Signal, NoScan
<1>5. CASE OpenForScan
  BY <1>5 DEF OpenForScan, NoScan
<1>6. CASE InventoryFinds
  BY <1>6 DEF InventoryFinds, Noticed
<1>7. CASE InventoryFails
  BY <1>7 DEF InventoryFails, Noticed, AfterError
<1>8. CASE ReadTag
  BY <1>8 DEF ReadTag
<1>9. CASE Report
  <2>1. announced = scan.prev /\ announced' = (announced \cup Entered) \ Left
    BY <1>9 DEF Report
  <2>2. announced' = Current
    BY <2>1 DEF Entered, Left
  <2>3. CASE scan.loop
    BY <1>9, <2>2, <2>3 DEF Report, GoesOn
  <2>4. CASE ~scan.loop
    BY <1>9, <2>4 DEF Report, GoesOn, NoScan
  <2> QED BY <2>3, <2>4
<1>10. CASE Wake
  BY <1>10 DEF Wake, NoScan
<1>11. CASE MoveTags
  BY <1>1, <1>11 DEF MoveTags, scanVars
<1>12. CASE UNCHANGED vars
  BY <1>1, <1>12 DEF vars, scanVars
<1> QED BY <1>2, <1>3, <1>4, <1>5, <1>6, <1>7, <1>8, <1>9, <1>10, <1>11, <1>12
        DEF Next, ScanStep, ScanRound

(***************************************************************************)
(* The printed events tell a consistent story (cmd/scan/main.go): each     *)
(* entry is of a tag that was out, each departure of one that was in.      *)
(***************************************************************************)
THEOREM EventsAreConsistent == Spec => EventsAlternate
<1>1. ScanInv /\ [Next]_vars =>
        [ owner = "scan" /\ Report =>
            /\ Entered \cap announced = {}
            /\ Left \subseteq announced
            /\ announced' = Current ]_vars
  <2> SUFFICES ASSUME ScanInv, Report
               PROVE  /\ Entered \cap announced = {}
                      /\ Left \subseteq announced
                      /\ announced' = Current
    OBVIOUS
  <2>1. announced = scan.prev /\ announced' = (announced \cup Entered) \ Left
    BY DEF ScanInv, Report
  <2> QED BY <2>1 DEF Entered, Left
<1> QED BY <1>1, InitScanInv, StepScanInv, PTL DEF Spec, EventsAlternate

-----------------------------------------------------------------------------
(***************************************************************************)
(* What a scan shows.  A command that writes has the port, so no scan has  *)
(* items then; LabelOK leaves out the tag it is at, whose blocks are in    *)
(* between two barcodes, and at the end of the command Stage brings it     *)
(* back.  ItemsOK says of the items in hand what they were read from.      *)
(***************************************************************************)
OnIt(m) == Barcode(FourOf(m[1], m[2], m[3], m[4]))

ScanState ==
  [at : {"ended", "open", "top", "reading", "sleep"}, loop : BOOLEAN, sig : BOOLEAN,
   done : BOOLEAN, prev : SUBSET Tags, todo : SUBSET Tags, items : SUBSET ScanItem]

PortOK ==
  /\ owner \in {NoOne, "program", "scan"}
  /\ prog.at = "writing" <=> owner = "program"
  /\ scan.at \in {"top", "reading", "sleep"} <=> owner = "scan"

LabelOK ==
  /\ label = [t \in Tags |-> label[t]]
  /\ \A t \in Tags : \/ prog.at = "writing" /\ prog.cmd.sid = t
                     \/ label[t] = Uncertain
                     \/ OnIt(mem[t]) = label[t]

ItemsOK ==
  /\ scan.items # {} => scan.at = "reading"
  /\ \A x \in scan.items : /\ x.content \in {OnIt(mem[x.sid]), mem[x.sid][0], <<>>}
                           /\ x.security \in {afi[x.sid], Unread}

SInv ==
  /\ field \in SUBSET Tags /\ announced \in SUBSET Tags /\ tears \in 0 .. MaxTears
  /\ scan \in ScanState
  /\ PortOK /\ LabelOK /\ ItemsOK

LEMMA EncodedBarcode ==
  ASSUME NEW s \in Text, Len(s) <= 16
  PROVE  OnIt(EncodeRFID501Content(s)) = s
<1> DEFINE t == [set |-> 1, total |-> 1, type |-> ItemType(s), content |-> s,
                 branch |-> 0, library |-> 0, custom |-> 0]
           e == EncodeRFID501(t)
<1>1. s \in Seq(Byte) /\ \A k \in 1 .. Len(s) : s[k] # 0
  BY TextBytes
<1>2. ItemType(s) \in Byte /\ 0 \in Int32
  BY SMT DEF ItemType, Byte, Int32
<1>3. t \in TagFields /\ t.custom \in Int32 /\ t.content = s
  BY <1>1, <1>2 DEF TagFields
<1>4. EncodeRFID501Content(s) = e
  BY DEF EncodeRFID501Content
<1> HIDE DEF t
<1>5. e \in [BlockNo -> Block]
  BY <1>3, EncodedBlocks, Zenon
<1>6. DecodeRFID501([i \in 1 .. 8 |-> e[i - 1]]).content = s
  <2>1. Len(t.content) <= 16 /\ \A k \in 1 .. Len(t.content) : t.content[k] # 0
    BY <1>1, <1>3
  <2>2. DecodeRFID501([i \in 1 .. 8 |-> EncodeRFID501(t)[i - 1]]) =
          [set |-> t.set % 16, total |-> t.total % 16, type |-> t.type,
           content |-> t.content, branch |-> t.branch % 4096,
           library |-> t.library % 1048576, custom |-> t.custom]
    BY <1>3, <2>1, RoundTrip, SMT
  <2> QED BY <1>3, <2>2
<1> HIDE DEF e
<1>7. DecodeRFID501([i \in 1 .. 8 |-> e[i - 1]]) = Decoding(e)
  BY <1>5, Decoded, Zenon
<1> QED BY <1>4, <1>6, <1>7 DEF Decoding, OnIt

LEMMA BlocksInARow ==
  ASSUME NEW m \in [BlockNo -> Block]
  PROVE  OnIt(m) \in Seq(Byte) /\ m[0] \in Seq(Byte)
<1>1. m[0] \in Block /\ m[1] \in Block /\ m[2] \in Block /\ m[3] \in Block /\ m[4] \in Block
  BY SMT DEF BlockNo
<1>2. FourOf(m[1], m[2], m[3], m[4]) \in Seq(Byte)
  BY <1>1, FourBlocks, ZenonT(30) DEF InARowOf
<1> QED BY <1>1, <1>2, BarcodeType, BlockIsSeq, Zenon DEF OnIt

\* A command that is done has put on the tag the barcode its line gives it.
LEMMA GivenIsOnIt ==
  ASSUME IInv, AllDone
  PROVE  OnIt(mem[prog.cmd.sid]) = Given(prog.cmd)
<1> DEFINE c == prog.cmd
           m == mem[c.sid]
           hexes == [i \in 1 .. 8 |-> m[i - 1]]
<1>1. /\ c \in Commands /\ ~Rejected(c) /\ Programming(c) # <<>>
      /\ Stage(c, <<>>, m, afi[c.sid]) /\ TagsType
  BY DEF IInv, AllDone
<1>2. m \in [BlockNo -> Block]
  BY <1>1, LineType DEF Rejected, TagsType
<1> HIDE DEF c, m, hexes
<1>3. Calls(c) # <<>>
  BY <1>1, SomeCalls
<1>4. OnTag(c, m)
  BY <1>1, <1>3, SMT DEF Stage
<1>5. IF c.blank3M \/ SaysBlank(c) THEN DecodeRFID501(hexes).content = Given(c)
      ELSE DecodeRFID501(hexes) = Asked(c)
  BY <1>1, <1>2, <1>4, ImageDecodes, Zenon DEF hexes
<1>6. DecodeRFID501(hexes) = Decoding(m)
  BY <1>2, Decoded, Zenon DEF hexes
<1>7. DecodeRFID501(hexes).content = Given(c)
  BY <1>5 DEF Asked, Given
<1>8. OnIt(m) = Given(c)
  BY <1>6, <1>7 DEF Decoding, OnIt
<1> QED BY <1>8 DEF c, m

LEMMA InitSInv == Init => SInv
<1> SUFFICES ASSUME Init PROVE SInv
  OBVIOUS
<1> USE CommandsAssumption, ProgramCommandAssumption
<1>1. scan = NoScan /\ announced = {} /\ prog = Ended /\ tears = 0 /\ owner = NoOne
  BY DEF Init, ProgramInit, ScanInit
<1>2. scan \in ScanState /\ scan.items = {} /\ scan.at = "ended"
  BY <1>1 DEF NoScan, ScanState
<1>3. PortOK
  BY <1>1, <1>2 DEF PortOK, Ended
<1>4. ASSUME NEW t \in Tags PROVE OnIt(mem[t]) = label[t]
  <2>1. label[t] \in Barcodes /\ mem[t] = EncodeRFID501Content(label[t])
    BY DEF Init
  <2> QED BY <2>1, EncodedBarcode DEF Text
<1>5. LabelOK
  BY <1>4 DEF LabelOK, Init
<1> QED BY <1>1, <1>2, <1>3, <1>5 DEF SInv, ItemsOK, Init

\* Steps of the program command.  Only ProgramWrites and ProgramBreaksOff
\* change a tag, the one of the command, and no scan has the port then.
LEMMA ProgramStepKeepsSInv ==
  ASSUME IInv, SInv, IInv', ProgramStep, UNCHANGED scanVars
  PROVE  SInv'
<1> USE DEF SInv
<1>1. scan' = scan /\ announced' = announced
  BY DEF scanVars
<1>2. prog \in [at : {"ended", "open", "writing"}, cmd : Commands \cup {NoTag}, todo : Todos]
  BY DEF IInv, ProgType
<1>3. ASSUME UNCHANGED <<mem, afi, owner, label, tears>>, field' = field,
             prog'.at = "writing" <=> prog.at = "writing",
             prog'.at = "writing" => prog'.cmd = prog.cmd
      PROVE  SInv'
  BY <1>1, <1>3 DEF PortOK, LabelOK, ItemsOK
<1>4. CASE RunProgram
  <2>1. prog'.at # "writing" /\ prog.at # "writing"
    BY <1>4 DEF RunProgram, Ended
  <2> QED BY <1>3, <1>4, <2>1 DEF RunProgram, tags
<1>5. CASE OpenForProgram
  <2>1. CASE prog' = Ended /\ UNCHANGED owner
    <3>1. prog'.at # "writing" /\ prog.at # "writing"
      BY <1>5, <2>1 DEF OpenForProgram, Ended
    <3> QED BY <1>3, <1>5, <2>1, <3>1 DEF OpenForProgram
  <2>2. CASE ~(prog' = Ended /\ UNCHANGED owner)
    <3>1. /\ prog.at = "open" /\ owner = NoOne /\ owner' = "program"
          /\ prog' = [prog EXCEPT !.at = "writing"]
          /\ UNCHANGED <<mem, afi, field, label, tears>>
      BY <1>5, <2>2 DEF OpenForProgram
    <3>2. prog'.at = "writing"
      BY <1>2, <3>1
    <3>3. PortOK'
      BY <1>1, <3>1, <3>2, CommandsAssumption DEF PortOK
    <3>4. LabelOK'
      BY <3>1 DEF LabelOK
    <3> QED BY <1>1, <3>1, <3>3, <3>4 DEF ItemsOK
  <2> QED BY <2>1, <2>2
<1>6. ASSUME prog.at = "writing" PROVE scan.items = {} /\ scan.at \notin {"top", "reading", "sleep"}
  <2>1. owner = "program"
    BY <1>6 DEF PortOK
  <2> QED BY <2>1 DEF PortOK, ItemsOK
<1>7. ASSUME prog.at = "writing", prog.todo # <<>>,
             MayHaveWritten(Head(prog.todo)) \/ Wrote(Head(prog.todo))
      PROVE  \A t \in Tags \ {prog.cmd.sid} : mem'[t] = mem[t]
  <2>1. mem = [t \in Tags |-> mem[t]]
    BY DEF IInv, TagsType
  <2>2. \/ mem' = mem
        \/ \E v : mem' = [mem EXCEPT ![prog.cmd.sid] = v]
    BY <1>7 DEF MayHaveWritten, Wrote
  <2> QED BY <2>1, <2>2
<1>8. CASE ProgramWrites
  <2>1. /\ prog.at = "writing" /\ prog.todo # <<>> /\ Wrote(Head(prog.todo))
        /\ prog' = [prog EXCEPT !.todo = Tail(@)]
        /\ UNCHANGED <<field, owner, label, tears>>
    BY <1>8 DEF ProgramWrites
  <2>2. prog'.at = "writing" /\ prog'.cmd = prog.cmd
    BY <1>2, <2>1
  <2>3. PortOK'
    BY <1>1, <2>1, <2>2 DEF PortOK
  <2>4. LabelOK'
    BY <1>7, <2>1, <2>2 DEF LabelOK
  <2>5. ItemsOK'
    BY <1>1, <1>6, <2>1 DEF ItemsOK
  <2> QED BY <1>1, <2>1, <2>3, <2>4, <2>5
<1>9. ASSUME prog' = Ended, owner' = NoOne, prog.at = "writing"
      PROVE  PortOK' /\ ItemsOK' /\ scan' \in ScanState
  <2>1. prog'.at # "writing"
    BY <1>9 DEF Ended
  <2>2. scan'.items = {} /\ scan'.at \notin {"top", "reading", "sleep"}
    BY <1>1, <1>6, <1>9
  <2> QED BY <1>1, <1>9, <2>1, <2>2, CommandsAssumption DEF PortOK, ItemsOK
<1>10. CASE ProgramBreaksOff
  <2>1. /\ prog.at = "writing" /\ prog' = Ended /\ owner' = NoOne
        /\ label' = [label EXCEPT ![prog.cmd.sid] = Uncertain] /\ field' = field
        /\ prog.todo = <<>> => UNCHANGED <<mem, afi, tears>>
        /\ prog.todo # <<>> => MayHaveWritten(Head(prog.todo))
    BY <1>10 DEF ProgramBreaksOff
  <2>2. tears' \in 0 .. MaxTears
    <3>1. 0 \notin Stops /\ 8 \notin Stops
      BY ProgramCommandAssumption, SMT
    <3>2. ASSUME NEW n \in {0, 8} \cup (IF tears < MaxTears THEN Stops ELSE {}), n \in Stops
          PROVE  tears < MaxTears
      BY <3>1, <3>2
    <3>3. tears' = tears \/ (tears < MaxTears /\ tears' = tears + 1)
      BY <2>1, <3>2 DEF MayHaveWritten
    <3> QED BY <3>3, ProgramCommandAssumption, SMT
  <2>3. \A t \in Tags \ {prog.cmd.sid} : mem'[t] = mem[t]
    BY <1>7, <2>1
  <2>4. LabelOK'
    <3>1. label = [t \in Tags |-> label[t]]
      BY DEF LabelOK
    <3>2. \A t \in Tags : label'[t] = IF t = prog.cmd.sid THEN Uncertain ELSE label[t]
      BY <2>1, <3>1
    <3>3. label' = [t \in Tags |-> label'[t]]
      BY <2>1, <3>1
    <3> QED BY <2>3, <3>2, <3>3 DEF LabelOK
  <2> QED BY <1>1, <1>9, <2>1, <2>2, <2>4
<1>11. CASE ProgramDone
  <2>1. /\ AllDone /\ prog.at = "writing" /\ prog' = Ended /\ owner' = NoOne
        /\ label' = [label EXCEPT ![prog.cmd.sid] = Given(prog.cmd)]
        /\ UNCHANGED <<mem, afi, field, tears>>
    BY <1>11 DEF ProgramDone, AllDone
  <2>2. OnIt(mem[prog.cmd.sid]) = Given(prog.cmd)
    BY <2>1, GivenIsOnIt
  <2>3. LabelOK'
    <3>1. label = [t \in Tags |-> label[t]]
      BY DEF LabelOK
    <3>2. \A t \in Tags : label'[t] = IF t = prog.cmd.sid THEN Given(prog.cmd) ELSE label[t]
      BY <2>1, <3>1
    <3>3. label' = [t \in Tags |-> label'[t]]
      BY <2>1, <3>1
    <3> QED BY <2>1, <2>2, <3>2, <3>3 DEF LabelOK
  <2> QED BY <1>1, <1>9, <2>1, <2>3
<1> QED BY <1>4, <1>5, <1>8, <1>10, <1>11 DEF ProgramStep

\* Whatever comes back of a tag's blocks, what is shown for it is whole.
LEMMA AnswerShown ==
  ASSUME NEW t \in Tags, mem[t] \in [BlockNo -> Block], NEW blocks \in Answers(t)
  PROVE  Content(blocks) \in {OnIt(mem[t]), mem[t][0], <<>>}
<1>1. PICK bs \in SUBSET BlockNo : blocks = [i \in bs |-> mem[t][i]]
  <2>1. CASE t \in field
    BY <2>1, BlockTagsAssumption DEF Answers
  <2>2. CASE t \notin field
    <3>1. <<>> = [i \in {} |-> mem[t][i]]
      BY SMT
    <3> QED BY <2>2, <3>1 DEF Answers
  <2> QED BY <2>1, <2>2
<1> QED BY <1>1, ContentRead, Zenon DEF OnIt

LEMMA ReadKeepsSInv ==
  ASSUME IInv, SInv, ReadTag, UNCHANGED progVars
  PROVE  SInv'
<1> USE DEF SInv
<1>0. PICK t \in scan.todo, blocks \in UNION {Answers(u) : u \in Tags} :
        /\ blocks \in Answers(t)
        /\ \E a \in {Unread} \cup (IF t \in field THEN {afi[t]} ELSE {}) :
             scan' = [scan EXCEPT !.todo = @ \ {t}, !.items = @ \cup
                        {[sid |-> t, security |-> a, content |-> Content(blocks)]}]
  BY DEF ReadTag
<1>1. PICK a \in {Unread} \cup (IF t \in field THEN {afi[t]} ELSE {}) :
        scan' = [scan EXCEPT !.todo = @ \ {t}, !.items = @ \cup
                   {[sid |-> t, security |-> a, content |-> Content(blocks)]}]
  BY <1>0
<1> DEFINE x == [sid |-> t, security |-> a, content |-> Content(blocks)]
<1>2. scan.at = "reading" /\ UNCHANGED <<mem, afi, field, owner, announced>>
  BY DEF ReadTag, tags
<1>3. t \in Tags /\ mem[t] \in [BlockNo -> Block] /\ afi[t] \in Byte
  BY DEF ScanState, IInv, TagsType
<1>4. x.content \in {OnIt(mem[t]), mem[t][0], <<>>} /\ x.security \in {afi[t], Unread}
  BY <1>0, <1>1, <1>3, AnswerShown
<1>5. x \in ScanItem
  <2>1. <<>> \in Seq(Byte)
    BY EmptySeq
  <2>2. x.content \in Seq(Byte)
    BY <1>3, <1>4, <2>1, BlocksInARow
  <2>3. x.sid \in Tags /\ x.security \in Byte \cup {Unread}
    BY <1>3, <1>4
  <2> QED BY <2>2, <2>3 DEF ScanItem
<1>6. x.sid = t
  OBVIOUS
<1> HIDE DEF x
<1>7. scan' = [scan EXCEPT !.todo = @ \ {t}, !.items = @ \cup {x}]
  BY <1>1 DEF x
<1>8. scan' \in ScanState /\ scan'.at = scan.at /\ scan'.items = scan.items \cup {x}
  BY <1>5, <1>7 DEF ScanState
<1>9. PortOK' /\ LabelOK'
  BY <1>2, <1>8 DEF PortOK, LabelOK, progVars
<1>10. ItemsOK'
  BY <1>2, <1>4, <1>6, <1>8 DEF ItemsOK
<1> QED BY <1>2, <1>8, <1>9, <1>10 DEF progVars

LEMMA ScanStepKeepsSInv ==
  ASSUME IInv, SInv, ScanStep, UNCHANGED progVars
  PROVE  SInv'
<1> USE DEF SInv
<1>1. mem' = mem /\ afi' = afi /\ field' = field
  BY DEF ScanStep, ScanRound, RunScan, Signal, OpenForScan, InventoryFinds,
         InventoryFails, ReadTag, Report, Wake, tags
<1>2. prog' = prog /\ label' = label /\ tears' = tears /\ LabelOK'
  BY <1>1 DEF progVars, LabelOK
<1>3. NoScan \in ScanState /\ NoScan.items = {} /\ NoScan.at = "ended"
  BY DEF NoScan, ScanState
<1>4. ASSUME scan' \in ScanState, announced' \in SUBSET Tags,
             scan'.items = {} \/ (scan'.items = scan.items /\ scan'.at = scan.at),
             \/ /\ owner' = owner
                /\ scan'.at \in {"top", "reading", "sleep"} <=>
                     scan.at \in {"top", "reading", "sleep"}
             \/ owner' = NoOne /\ owner = "scan" /\ scan'.at = "ended"
             \/ owner = NoOne /\ owner' = "scan" /\ scan'.at = "top"
      PROVE  SInv'
  <2>1. PortOK'
    BY <1>2, <1>4, CommandsAssumption DEF PortOK
  <2>2. ItemsOK'
    BY <1>1, <1>4 DEF ItemsOK
  <2> QED BY <1>1, <1>2, <1>4, <2>1, <2>2
<1>5. CASE RunScan
  <2>1. PICK loop \in BOOLEAN : scan' = [NoScan EXCEPT !.at = "open", !.loop = loop]
    BY <1>5 DEF RunScan
  <2>2. scan' \in ScanState /\ scan'.items = {} /\ scan'.at = "open"
    BY <2>1 DEF NoScan, ScanState
  <2> QED BY <1>4, <1>5, <2>2 DEF RunScan, tags
<1>6. CASE Signal
  <2>1. CASE scan.at = "open"
    BY <1>3, <1>4, <1>6, <2>1 DEF Signal, tags
  <2>2. CASE scan.at # "open"
    <3>1. scan' = [scan EXCEPT !.sig = TRUE]
      BY <1>6, <2>2 DEF Signal
    <3>2. scan' \in ScanState /\ scan'.items = scan.items /\ scan'.at = scan.at
      BY <3>1 DEF ScanState
    <3> QED BY <1>4, <1>6, <3>2 DEF Signal, tags
  <2> QED BY <2>1, <2>2
<1>7. CASE OpenForScan
  <2>1. scan.items = {} /\ scan.at = "open" /\ announced' = announced
    BY <1>7 DEF OpenForScan, ItemsOK
  <2>2. CASE scan' = NoScan /\ UNCHANGED owner
    BY <1>3, <1>4, <2>1, <2>2
  <2>3. CASE owner = NoOne /\ scan' = [scan EXCEPT !.at = "top"] /\ owner' = "scan"
    <3>1. scan' \in ScanState /\ scan'.items = {} /\ scan'.at = "top"
      BY <2>1, <2>3 DEF ScanState
    <3> QED BY <1>4, <2>1, <2>3, <3>1
  <2> QED BY <1>7, <2>2, <2>3 DEF OpenForScan
<1>8. Noticed \in ScanState /\ Noticed.items = scan.items
  BY DEF Noticed, ScanState
<1>9. CASE InventoryFinds
  <2>1. scan' = [Noticed EXCEPT !.at = "reading", !.todo = field] /\ scan.at = "top"
    BY <1>9 DEF InventoryFinds
  <2>2. scan' \in ScanState /\ scan'.items = {} /\ scan'.at = "reading"
    BY <1>8, <2>1 DEF ScanState, ItemsOK
  <2> QED BY <1>4, <1>9, <2>1, <2>2 DEF InventoryFinds, tags
<1>10. CASE InventoryFails
  <2>1. scan' = [Noticed EXCEPT !.at = "sleep"] /\ scan.at = "top"
    BY <1>10 DEF InventoryFails, AfterError
  <2>2. scan' \in ScanState /\ scan'.items = {} /\ scan'.at = "sleep"
    BY <1>8, <2>1 DEF ScanState, ItemsOK
  <2> QED BY <1>4, <1>10, <2>1, <2>2 DEF InventoryFails, tags
<1>11. CASE ReadTag
  BY <1>11, ReadKeepsSInv
<1>12. CASE Report
  <2>1. scan.at = "reading" /\ owner = "scan" /\ Current \in SUBSET Tags
    BY <1>12 DEF Report, PortOK, ScanState, ScanItem, Current
  <2>2. announced' \in SUBSET Tags
    BY <1>12, <2>1 DEF Report, Entered
  <2>3. CASE scan.loop
    <3>1. scan' = [scan EXCEPT !.at = "sleep", !.prev = Current, !.items = {}] /\ owner' = owner
      BY <1>12, <2>3 DEF Report, GoesOn
    <3>2. scan' \in ScanState /\ scan'.items = {} /\ scan'.at = "sleep"
      BY <2>1, <3>1 DEF ScanState
    <3> QED BY <1>4, <2>1, <2>2, <3>1, <3>2
  <2>4. CASE ~scan.loop
    BY <1>3, <1>4, <1>12, <2>1, <2>2, <2>4 DEF Report, GoesOn
  <2> QED BY <2>3, <2>4
<1>13. CASE Wake
  <2>1. scan.at = "sleep" /\ owner = "scan" /\ scan.items = {} /\ announced' = announced
    BY <1>13 DEF Wake, PortOK, ItemsOK
  <2>2. CASE scan.done
    BY <1>3, <1>4, <1>13, <2>1, <2>2 DEF Wake
  <2>3. CASE ~scan.done
    <3>1. scan' = [scan EXCEPT !.at = "top"] /\ owner' = owner
      BY <1>13, <2>3 DEF Wake
    <3>2. scan' \in ScanState /\ scan'.items = {} /\ scan'.at = "top"
      BY <2>1, <3>1 DEF ScanState
    <3> QED BY <1>4, <2>1, <3>1, <3>2
  <2> QED BY <2>2, <2>3
<1> QED BY <1>5, <1>6, <1>7, <1>9, <1>10, <1>11, <1>12, <1>13 DEF ScanStep, ScanRound

LEMMA StepSInv == IInv /\ SInv /\ IInv' /\ [Next]_vars => SInv'
<1> SUFFICES ASSUME IInv, SInv, IInv', [Next]_vars PROVE SInv'
  OBVIOUS
<1>1. CASE ProgramStep /\ UNCHANGED scanVars
  BY <1>1, ProgramStepKeepsSInv
<1>2. CASE ScanStep /\ UNCHANGED progVars
  BY <1>2, ScanStepKeepsSInv
<1>3. CASE MoveTags
  BY <1>3 DEF MoveTags, SInv, PortOK, LabelOK, ItemsOK, progVars, scanVars
<1>4. CASE UNCHANGED vars
  BY <1>4 DEF vars, tags, SInv, PortOK, LabelOK, ItemsOK, progVars, scanVars
<1> QED BY <1>1, <1>2, <1>3, <1>4 DEF Next

LEMMA SInvIsEnough == IInv /\ SInv => TypeOK /\ ShownIsProgrammed
<1> SUFFICES ASSUME IInv, SInv PROVE TypeOK /\ ShownIsProgrammed
  OBVIOUS
<1> USE DEF SInv
<1>1. /\ prog.at \in {"ended", "open", "writing"}
      /\ scan.at \in {"ended", "open", "top", "reading", "sleep"}
      /\ scan.items \subseteq ScanItem /\ scan.prev \cup scan.todo \cup announced \subseteq Tags
  BY DEF IInv, ProgType, ScanState
<1>2. TypeOK
  BY <1>1 DEF TypeOK, IInv, TagsType, PortOK
<1>3. ASSUME NEW x \in scan.items, label[x.sid] # Uncertain
      PROVE  /\ x.content \in {label[x.sid], mem[x.sid][0], <<>>}
             /\ x.security \in {afi[x.sid], Unread}
  <2>1. scan.at = "reading" /\ x.sid \in Tags
    BY <1>1 DEF ItemsOK, ScanItem
  <2>2. prog.at # "writing"
    BY <2>1 DEF PortOK
  <2>3. OnIt(mem[x.sid]) = label[x.sid]
    BY <1>3, <2>1, <2>2 DEF LabelOK
  <2> QED BY <2>3 DEF ItemsOK
<1> QED BY <1>2, <1>3 DEF ShownIsProgrammed

(***************************************************************************)
(* The two commands' states are well formed, and never have the port both  *)
(* (cmd/program/main.go, cmd/scan/main.go).                                *)
(***************************************************************************)
THEOREM TypeCorrect == Spec => []TypeOK
  BY InitIInv, StepIInv, InitSInv, StepSInv, SInvIsEnough, PTL DEF Spec

(***************************************************************************)
(* A scan shows of a tag the whole barcode it was given, or block 0, or    *)
(* nothing, and never a mixture (rfidops.Scan, makeBlockHexes and          *)
(* DecodeRFID501), whatever blocks are lost and whatever was on the tag.   *)
(***************************************************************************)
THEOREM ScansShowWhatWasProgrammed == Spec => []ShownIsProgrammed
  BY InitIInv, StepIInv, InitSInv, StepSInv, SInvIsEnough, PTL DEF Spec
=============================================================================
