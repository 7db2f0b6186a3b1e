--------------------------- MODULE MCMergeGovernance ---------------------------
(***************************************************************************)
(* Small instances of MergeGovernance for TLC.                             *)
(***************************************************************************)
EXTENDS MergeGovernance

CONSTANTS h1, h2, ann, bob, cyd, bot, unit, sequence, team, rs

Asks(n, d, o, c) == [reviews |-> n > 0, count |-> n, dismiss |-> d, owner |-> o, checks |-> c]

Branch(rule, bypass, admins) == [rule |-> rule, bypass |-> bypass, admins |-> admins]

OneRuleset(rule, bypass, active, target) ==
  [rule |-> rule, bypass |-> bypass, active |-> active, target |-> target]

With(b, r) == [protection |-> b, rulesets |-> [x \in Rulesets |-> r]]

Strong == Asks(1, TRUE, TRUE, {sequence})
Strict == Asks(2, TRUE, TRUE, {unit})

\* Every source alone and combined, what each may lack, and every way a ruleset
\* may name the branch.
SomeSettings ==
  {With(Branch(Strong, {}, TRUE), None),
   With(Branch(Strong, {}, TRUE), OneRuleset(Strict, {}, TRUE, "named")),
   With(Branch(Asks(1, FALSE, TRUE, {}), {}, TRUE),
        OneRuleset(Asks(1, TRUE, FALSE, {sequence}), {}, TRUE, "named")),
   With(Branch(Strong, {}, TRUE), OneRuleset(Strong, {team}, TRUE, "named")),
   With(Branch(Strong, {}, FALSE), None),
   With(Branch(Strong, None, TRUE), None),
   With(Branch(Strong, {}, TRUE), OneRuleset(Strict, {team}, TRUE, "pattern")),
   With(Branch(Asks(1, FALSE, TRUE, {sequence}), {}, TRUE), OneRuleset(Strong, {}, TRUE, "spared")),
   With(Branch(Asks(1, FALSE, TRUE, {sequence}), {}, TRUE), OneRuleset(Strong, {}, TRUE, "elsewhere")),
   With(Branch(Asks(1, FALSE, TRUE, {sequence}), {}, TRUE), OneRuleset(Strong, {}, FALSE, "named")),
   With(Branch(Asks(0, FALSE, FALSE, {}), None, TRUE), None),
   With(None, OneRuleset(Strong, {}, TRUE, "named"))}

\* What the settings may be changed to.
OtherSettings ==
  {With(Branch(Strong, {}, TRUE), OneRuleset(Strict, {}, TRUE, "named")),
   With(Branch(Asks(1, FALSE, TRUE, {}), {}, TRUE), None)}

Says(p, s) == [by |-> p, state |-> s, commit |-> h1]
Ran(c, s)  == [check |-> c, head |-> h1, state |-> s]

\* Under full protection every state of the reviews and checks: what suffices for
\* one approval, what suffices for two and both checks, opinions that must not
\* count, an opinion and a check that were changed.  Under other settings what
\* suffices for all of them.
Enough == [members |-> {cyd}, reviews |-> <<Says(bob, "APPROVED"), Says(cyd, "APPROVED")>>,
           runs |-> <<Ran(sequence, "passed"), Ran(unit, "passed")>>]

OtherStates ==
  {[members |-> {}, reviews |-> <<Says(bob, "APPROVED")>>, runs |-> <<Ran(sequence, "passed")>>],
   [members |-> {ann}, reviews |-> <<Says(ann, "APPROVED"), Says(bot, "APPROVED")>>,
    runs |-> <<Ran(sequence, "passed"), Ran(unit, "passed")>>],
   [members |-> {bob}, reviews |-> <<Says(bob, "APPROVED"), Says(bob, "CHANGES_REQUESTED")>>,
    runs |-> <<Ran(sequence, "failed"), Ran(sequence, "passed")>>]}

SomeWorlds ==
  {[head |-> h1, settings |-> s, members |-> a.members, reviews |-> a.reviews, runs |-> a.runs] :
     s \in SomeSettings, a \in {Enough}} \cup
  {[head |-> h1, settings |-> s, members |-> a.members, reviews |-> a.reviews, runs |-> a.runs] :
     s \in OtherSettings \cup {With(Branch(Strong, {}, TRUE), None)}, a \in OtherStates}
=============================================================================
