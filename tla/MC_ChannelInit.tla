--------------------------- MODULE MC_ChannelInit ---------------------------
(* ChannelInit with the slots of the code: tables filled to the last slot  *)
(* with analogue modules, the widest ones, and tables that mix kinds,      *)
(* empty slots and codes that the scan does not know.                      *)
EXTENDS ChannelInit

Table(c) ==
  [s \in Slots |-> IF s = 0 THEN c[1] ELSE IF s = 1 THEN c[2]
                   ELSE IF s = ModuleMax - 1 THEN c[3] ELSE "NONE"]

Mixes == {Table(c) : c \in {"DI", "AO", "NONE"} \X {"AI", "DI", "OTHER"}
                             \X {"DO", "AO", "NONE"}}

Filled == {[s \in Slots |-> IF s < ModuleMax THEN t ELSE last] :
             t \in {"AI", "AO"}, last \in {"NONE", "DONE"}}

Tables == Mixes \cup Filled
=============================================================================
