------------------------ MODULE MCOfficialCompletion ------------------------
(***************************************************************************)
(* Small instances of OfficialCompletion for TLC.                          *)
(***************************************************************************)
EXTENDS OfficialCompletion

CONSTANTS c1, c2, c3, c4, c5, c6, h1, h2, b1, b2

Good(head) == [head |-> head, base |-> b1, verified |-> TRUE, active |-> TRUE,
               valid |-> TRUE, current |-> TRUE]

\* Two calls for the same head with different packages, a third for another head.
SoundPackages ==
  [c \in Calls |-> IF c = c3 THEN Good(h2) ELSE Good(h1)]

\* Two sound packages for the same head and one of each unfit kind.
MixedPackages ==
  [c \in Calls |->
     CASE c = c1 -> [Good(h1) EXCEPT !.valid = FALSE]
       [] c = c2 -> [Good(h1) EXCEPT !.current = FALSE]
       [] c = c3 -> [Good(h1) EXCEPT !.active = FALSE]
       [] c = c4 -> [Good(h1) EXCEPT !.verified = FALSE]
       [] OTHER -> Good(h1)]
=============================================================================
