----------------------------- MODULE MC_Startup -----------------------------
(* Startup with three module slots, and tables whose layouts differ in     *)
(* every way the board could be mistaken about: in the modules, in their   *)
(* order, and by a slot that becomes empty.                                *)
EXTENDS Startup

Table(c) == [s \in Slots |-> IF s < ModuleMax THEN c[s + 1] ELSE "NONE"]

Tables == {Table(c) : c \in {<<"DO", "NONE", "DI">>, <<"NONE", "DO", "AI">>,
                             <<"DI", "OTHER", "DONE">>}}
=============================================================================
