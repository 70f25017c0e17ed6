----------------------------- MODULE MCDecoder -----------------------------
(***************************************************************************)
(* DccDecoder in a locomotive at short address 3, with packets that give   *)
(* it a long address, a consist, a lock, a life as an accessory decoder    *)
(* and the way back.                                                       *)
(***************************************************************************)
EXTENDS DccDecoder

FactoryCvs ==
  [cv \in {1, 8, 11, 15, 16, 17, 18, 19, 29, 513, 521, 541} |->
     CASE cv = 1 -> 3 [] cv = 8 -> 13 [] cv = 11 -> 1 [] cv = 17 -> 195
       [] cv = 18 -> 232 [] cv = 513 -> 2 [] OTHER -> 0]

Instruct(op, cv, value) == [op |-> op, cv |-> cv, value |-> value]
Drive                   == [op |-> "DRIVE"]

To(type, address, instruction) ==
  [valid |-> TRUE, type |-> type, address |-> address,
   instruction |-> instruction, service |-> NoService]

Reset == To("RESET", 0, [op |-> "OTHER"])

\* A service-mode packet also has the bytes of one to short address 124.
Service(instruction) ==
  [To("SHORT", 124, [op |-> "OTHER"]) EXCEPT !.service = instruction]

\* With the long address, short 3 is the consist.
MixedPackets ==
  {To("SHORT", 3, Drive),
   [To("SHORT", 3, Drive) EXCEPT !.valid = FALSE],
   To("SHORT", 3, Instruct("WRITE", 541, 128)),
   To("LONG", 1000, Instruct("CONSIST", 19, 131)),
   To("ACCESSORY", 8, Instruct("BIT", 541, 7)),
   Reset,
   Service(Instruct("WRITE", 16, 1))}

\* Unlock, a long address with bits that must not be stored, factory reset.
FewWrites == {<<16, 0>>, <<29, 98>>, <<8, 8>>}
=============================================================================
