-------------------------------- MODULE Trees --------------------------------
(***************************************************************************)
(* Walking down a forest that is given by a parent function.               *)
(***************************************************************************)
EXTENDS FiniteSets

(* S holds, with each of its members, the visible children of the member.  *)
ClosedBelow(up, S, visible) == \A x \in visible : up[x] \in S => x \in S

(* What WITH RECURSIVE get_children selects: d and what lies below it,     *)
(* walking down through visible rows only.  It is the least set of visible *)
(* rows that contains d and is closed below.                               *)
Below(up, d, visible) ==
    { x \in visible :
        \A S \in SUBSET visible :
            (d \in S /\ ClosedBelow(up, S, visible)) => x \in S }

=============================================================================
