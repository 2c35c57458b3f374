------------------------------ MODULE BootImage ------------------------------
(***************************************************************************)
(* What PcosImageFile promises about the image a cold boot loads.  Images  *)
(* become the boot image in the order in which they were downloaded.  One  *)
(* that is made persistent puts an end to its predecessor at once, unless  *)
(* the file system refuses, and may still fail to take its place; one that *)
(* was replaced or withdrawn never comes back.                             *)
(***************************************************************************)
EXTENDS Naturals

CONSTANT Version

VARIABLES boot,     \* the version a cold boot loads, or 0
          offered,  \* the versions made persistent so far
          pending   \* the newest of them may still take its place

Init == boot = 0 /\ offered = {} /\ pending = FALSE

Offer ==
  /\ ~pending /\ pending' = TRUE
  /\ \E v \in Version : /\ \A w \in offered : w < v
                        /\ offered' = offered \cup {v}
  /\ boot' \in {0, boot}

Install ==
  /\ pending /\ pending' = FALSE
  /\ boot' \in offered /\ \A w \in offered : w <= boot'
  /\ UNCHANGED offered

(* The rename fails, or the process is killed before it. *)
Abandon == pending /\ pending' = FALSE /\ UNCHANGED <<boot, offered>>

Withdraw == ~pending /\ boot' = 0 /\ UNCHANGED <<offered, pending>>

Next == Offer \/ Install \/ Abandon \/ Withdraw

Spec == Init /\ [][Next]_<<boot, offered, pending>>
=============================================================================
