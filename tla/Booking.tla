-------------------------------- MODULE Booking --------------------------------
(***************************************************************************)
(* What keeping account of a broker's executions promises.  The broker       *)
(* executes shares when it likes; we book them later, some or all at a time, *)
(* never a share twice, never one that was not executed, and take nothing    *)
(* back but by starting over.                                                *)
(***************************************************************************)
EXTENDS Naturals

CONSTANT Orders

VARIABLES
  executed,   \* shares of each order the broker has executed
  booked      \* shares of each order we count

vars == <<executed, booked>>

Nothing == [o \in Orders |-> 0]

Init == executed = Nothing /\ booked = Nothing

Execute ==
  /\ executed' \in [Orders -> Nat]
  /\ \A o \in Orders : executed[o] <= executed'[o]
  /\ UNCHANGED booked

Book ==
  /\ booked' \in [Orders -> Nat]
  /\ \A o \in Orders : booked[o] <= booked'[o] /\ booked'[o] <= executed[o]
  /\ UNCHANGED executed

StartOver ==
  /\ booked' = Nothing
  /\ UNCHANGED executed

Next == Execute \/ Book \/ StartOver

Spec == Init /\ [][Next]_vars
=============================================================================
