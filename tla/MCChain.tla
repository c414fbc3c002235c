------------------------------ MODULE MCChain ------------------------------
(***************************************************************************)
(* Small block trees for ChainDatabase.  Every block is "<branch><height>";*)
(* the tables give parent and producer.                                    *)
(***************************************************************************)
EXTENDS ChainDatabase, TLC

Ancestors(prev) ==
    LET anc[b \in DOMAIN prev \cup {"0"}] ==
            IF b = "0" THEN {"0"} ELSE {b} \cup anc[prev[b]]
    IN  anc

Heights(prev) == LET anc == Ancestors(prev)
                 IN  [b \in DOMAIN anc |-> Cardinality(anc[b]) - 1]

\* Three witnesses; a1 a2 a3 a4, with b3 b4 b5 from a2 and c2 c3 from a1.
TreePrev == "a1" :> "0" @@ "a2" :> "a1" @@ "a3" :> "a2" @@ "a4" :> "a3"
         @@ "b3" :> "a2" @@ "b4" :> "b3" @@ "b5" :> "b4"
         @@ "c2" :> "a1" @@ "c3" :> "c2"
TreeAncestors == Ancestors(TreePrev)
TreeNum == Heights(TreePrev)
TreeBlocks == DOMAIN TreePrev
ThreeWitnesses == {"A", "B", "C"}
TreeProducer == "a1" :> "A" @@ "a2" :> "B" @@ "a3" :> "C" @@ "a4" :> "A"
             @@ "b3" :> "A" @@ "b4" :> "B" @@ "b5" :> "C"
             @@ "c2" :> "C" @@ "c3" :> "A"
TreeSkipped == [b \in TreeBlocks |-> CASE b = "b3" -> {"C"} [] b = "c2" -> {"B"}
                                       [] OTHER -> {}]
TreeSchedule == [b \in TreeBlocks \cup {"0"} |-> ThreeWitnesses]

(***************************************************************************)
(* A partition: D alone makes d2 d3 d4 on top of a1 while A, B and C make  *)
(* a2 a3 a4 a5.                                                            *)
(***************************************************************************)
PartPrev == "a1" :> "0" @@ "a2" :> "a1" @@ "a3" :> "a2" @@ "a4" :> "a3" @@ "a5" :> "a4"
         @@ "d2" :> "a1" @@ "d3" :> "d2" @@ "d4" :> "d3"
PartAncestors == Ancestors(PartPrev)
PartNum == Heights(PartPrev)
PartBlocks == DOMAIN PartPrev
FourWitnesses == {"A", "B", "C", "D"}
PartProducer == "a1" :> "C" @@ "a2" :> "A" @@ "a3" :> "B" @@ "a4" :> "C" @@ "a5" :> "A"
             @@ "d2" :> "D" @@ "d3" :> "D" @@ "d4" :> "D"
PartSkipped == [b \in PartBlocks |-> CASE b = "d2" -> {} [] b = "a2" -> {"D"}
                    [] b \in {"d3", "d4"} -> {"A", "B", "C"} [] OTHER -> {}]
PartSchedule == [b \in PartBlocks \cup {"0"} |-> FourWitnesses]
============================================================================
