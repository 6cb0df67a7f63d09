-------------------------- MODULE TagMemoryProofs --------------------------
(***************************************************************************)
(* What a write may do to a tag leaves a tag: facts about TagMemory used   *)
(* by the proofs about the driver and about the server.                    *)
(***************************************************************************)
EXTENDS TagMemory, TLAPS

LEMMA SetAfiType ==
  ASSUME NEW m \in Memory, NEW t \in Tags, NEW a \in Afis
  PROVE  /\ SetAfi(m, t, a) \in Memory
         /\ SetAfi(m, t, a).afi[t] = a
  BY DEF SetAfi, Memory

LEMMA SetDataType ==
  ASSUME NEW m \in Memory, NEW t \in Tags, NEW d \in Contents
  PROVE  /\ SetData(m, t, d) \in Memory
         /\ SetData(m, t, d).data[t] = d
  BY DEF SetData, Memory

LEMMA AfiWritesType ==
  ASSUME NEW m \in Memory, NEW f \in SUBSET Tags, NEW t, NEW a \in Afis
  PROVE  AfiWrites(m, f, t, a) \subseteq Memory
  BY SetAfiType DEF AfiWrites

LEMMA DataWritesType ==
  ASSUME NEW m \in Memory, NEW f \in SUBSET Tags, NEW t, NEW d \in Datas
  PROVE  DataWrites(m, f, t, d) \subseteq Memory
  BY SetDataType DEF DataWrites, Contents
=============================================================================
