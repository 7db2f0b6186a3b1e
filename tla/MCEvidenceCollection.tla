------------------------- MODULE MCEvidenceCollection -------------------------
(***************************************************************************)
(* Small instances of EvidenceCollection for TLC.                          *)
(***************************************************************************)
EXTENDS EvidenceCollection

CONSTANTS n1, n2

Listed(e, k) ==
  [i \in 1..k |->
     [id    |-> i,
      state |-> IF e = "checks" /\ i = 2 THEN "failure" ELSE "success",
      label |-> CASE e = "checks" -> (IF i = 3 THEN n2 ELSE n1)
                  [] e = "inline" -> 1
                  [] OTHER        -> None]]

Contents(c, i, r, l) ==
  [e \in Endpoints |->
     Listed(e, CASE e = "checks" -> c [] e = "issue" -> i
                 [] e = "review" -> r [] OTHER -> l)]

\* Lists within a page, lists of several pages, and lists at and over the limit of
\* two pages of two; one long list at a time.
SmallLists ==
  {Contents(3, 0, 1, 1), Contents(4, 1, 0, 0), Contents(5, 0, 0, 0),
   Contents(0, 3, 1, 2), Contents(0, 4, 0, 0), Contents(0, 5, 0, 0),
   Contents(1, 0, 1, 3), Contents(1, 1, 2, 2)}
=============================================================================
