--------------------------- MODULE MCAppController ---------------------------
(***************************************************************************)
(* Small instances of AppController: the tree at the start.                *)
(***************************************************************************)
EXTENDS AppController

CONSTANTS b, c, g

(* A base with nothing below it.                                           *)
BaseOnly ==
    [parent |-> [d \in Dirs |-> NoDir],
     born   |-> [d \in Dirs |-> IF d = b THEN 1 ELSE 0]]

=============================================================================
