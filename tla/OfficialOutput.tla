--------------------------- MODULE OfficialOutput ---------------------------
(***************************************************************************)
(* What publication promises of the official output path, without the      *)
(* directories and renames that bring it about.                            *)
(*                                                                         *)
(* A candidate is exposed at most once.  It gains standing by being        *)
(* committed while it is exposed, and loses it only to a later commit.  A  *)
(* bundle taken off the path is either kept on the shelf, from where it    *)
(* can come back, or gone for good, and the one with standing is never the *)
(* one that goes.                                                          *)
(***************************************************************************)
EXTENDS TLAPS

CONSTANTS
  Bundles,   \* the bundles that can be official
  Nothing    \* no bundle

VARIABLES
  official,  \* the bundle a validator of the official path would accept
  standing,  \* the bundle committed last
  shelf,     \* the bundles moved aside
  fresh      \* the candidates not exposed yet

vars == <<official, standing, shelf, fresh>>

TypeOK ==
  /\ official \in Bundles \cup {Nothing}
  /\ standing \in Bundles \cup {Nothing}
  /\ shelf \subseteq Bundles
  /\ fresh \subseteq Bundles

Init ==
  /\ official \in Bundles \cup {Nothing}
  /\ standing = official
  /\ shelf = {}
  /\ fresh \in SUBSET (Bundles \ {official})

\* A call publishes its candidate.
Expose(b) ==
  /\ official = Nothing
  /\ b \in fresh
  /\ official' = b
  /\ fresh' = fresh \ {b}
  /\ UNCHANGED <<standing, shelf>>

\* A call gives up before it published anything.
Drop(b) ==
  /\ b \in fresh
  /\ fresh' = fresh \ {b}
  /\ UNCHANGED <<official, standing, shelf>>

Commit ==
  /\ official # Nothing
  /\ standing' = official
  /\ UNCHANGED <<official, shelf, fresh>>

Shelve ==
  /\ official # Nothing
  /\ official' = Nothing
  /\ shelf' = shelf \cup {official}
  /\ UNCHANGED <<standing, fresh>>

Reinstate(b) ==
  /\ official = Nothing
  /\ b \in shelf
  /\ official' = b
  /\ shelf' = shelf \ {b}
  /\ UNCHANGED <<standing, fresh>>

\* A candidate that was not committed is rolled back.
Withdraw ==
  /\ official \notin {Nothing, standing}
  /\ official' = Nothing
  /\ UNCHANGED <<standing, shelf, fresh>>

\* A bundle on the shelf that another one has superseded is deleted.
Forget(b) ==
  /\ b \in shelf \ {standing}
  /\ shelf' = shelf \ {b}
  /\ UNCHANGED <<official, standing, fresh>>

Next ==
  \/ Commit \/ Shelve \/ Withdraw
  \/ \E b \in Bundles : Expose(b) \/ Drop(b) \/ Reinstate(b) \/ Forget(b)

Spec == Init /\ [][Next]_vars

\* The bundle with standing is at the official path or can still get there:
\* nothing a failing review does loses it.  (The promise behind restore() and
\* the backup that publish() takes.)
StandingKept == standing # Nothing => standing \in shelf \cup {official}

\* No sequence of publications, rollbacks and cleanups loses the bundle
\* committed last.  With the refinement, the publisher inherits it.
THEOREM StandingIsKept == Spec => []StandingKept
<1>1. Init => StandingKept
  BY DEF Init, StandingKept
<1>2. StandingKept /\ [Next]_vars => StandingKept'
  BY DEF StandingKept, Next, vars, Expose, Drop, Commit, Shelve, Reinstate, Withdraw, Forget
<1>. QED
  BY <1>1, <1>2, PTL DEF Spec
=============================================================================
