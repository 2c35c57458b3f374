----------------------------- MODULE MC_KwDriver -----------------------------
(* KwDriver as driver.c configures the library, without any recovery, and  *)
(* as the library could be: with link recovery, and with both kinds.       *)
EXTENDS KwDriver

DriverOnly == { {} }

DriverOrRepairing == { {}, {"LINK"}, {"LINK", "PROTOCOL"} }
=============================================================================
