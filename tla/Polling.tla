------------------------------- MODULE Polling -------------------------------
(***************************************************************************)
(* What the master promises the thread that polls through it.  Requests    *)
(* are taken in turn, none is skipped and none is taken twice.  A turn     *)
(* fills the buffer of its own request or leaves everything alone; what it *)
(* stores comes from the slave that was asked, as long as the line is      *)
(* trusted, and from one that some alike request asks when it no longer    *)
(* is.  Trust in the line, once lost, does not return.                     *)
(***************************************************************************)
EXTENDS Naturals, Sequences

CONSTANTS
  Schedule,  \* the requests, each with the slave it asks and its buffer
  Alike      \* for each request, the slaves whose replies could be taken
             \* for the reply to it

VARIABLES step,    \* the request whose turn it is
          dest,    \* the slave whose data each buffer holds, or 0
          trusted

Init == /\ step = 1 /\ trusted = TRUE
        /\ dest = [d \in {Schedule[i].dest : i \in 1 .. Len(Schedule)} |-> 0]

Stored(slave) == dest' = [dest EXCEPT ![Schedule[step].dest] = slave]

Turn ==
  /\ step' = IF step = Len(Schedule) THEN 1 ELSE step + 1
  /\ \/ UNCHANGED dest
     \/ Stored(Schedule[step].slave)
     \/ ~trusted /\ \E slave \in Alike[step] : Stored(slave)

Pause == UNCHANGED <<step, dest>>

Next == (Turn \/ Pause) /\ trusted' \in {trusted, FALSE}

Spec == Init /\ [][Next]_<<step, dest, trusted>>
=============================================================================
