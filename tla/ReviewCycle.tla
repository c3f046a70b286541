---------------------------- MODULE ReviewCycle ----------------------------
(***************************************************************************)
(* What a casefile promises its readers, whoever acts and in whatever      *)
(* order: text is revised only between reviews, a submission carries one   *)
(* author, and what is released is the very edition that was submitted.    *)
(***************************************************************************)
EXTENDS Naturals

CONSTANTS Users, NoUser

VARIABLES
  phase,    \* where the casefile stands
  author,   \* who submitted the edition in review or released, or NoUser
  edition   \* number of the newest text

vars == <<phase, author, edition>>

Init == phase = "waiting" /\ author = NoUser /\ edition = 0

\* The machine draft arrives.
Deliver ==
  /\ phase = "waiting" /\ phase' = "drafting"
  /\ edition' = 1 /\ UNCHANGED author

Revise ==
  /\ phase = "drafting" /\ edition' = edition + 1
  /\ UNCHANGED <<phase, author>>

\* A submission may carry edits of its own, which make one more edition.
Submit(u) ==
  /\ phase = "drafting" /\ phase' = "in_review"
  /\ author' = u /\ edition' \in {edition, edition + 1}

\* Withdrawn or returned for changes: the text is copied into a new draft.
SendBack ==
  /\ phase = "in_review" /\ phase' = "drafting"
  /\ author' = NoUser /\ edition' = edition + 1

\* The edition under review is released as it was submitted.
Release ==
  /\ phase = "in_review" /\ phase' = "released"
  /\ UNCHANGED <<author, edition>>

Reopen ==
  /\ phase = "released" /\ phase' = "drafting"
  /\ author' = NoUser /\ edition' = edition + 1

Purge ==
  /\ phase # "purged" /\ phase' = "purged"
  /\ author' = NoUser /\ edition' = 0

Next ==
  \/ Deliver \/ Revise \/ SendBack \/ Release \/ Reopen \/ Purge
  \/ \E u \in Users : Submit(u)

Spec == Init /\ [][Next]_vars
=============================================================================
