---------------------------- MODULE EventFusionMC ----------------------------
(***************************************************************************)
(* Instances of EventFusion for TLC.                                       *)
(***************************************************************************)
EXTENDS EventFusion, TLC

CONSTANTS base, move, other   \* two announcements and a document
CONSTANTS quiz, generic       \* event types

\* The first two share a source object; the third does not say when it was published
Contexts == base :> {1} @@ move :> {1} @@ other :> {2}
Stamps == base :> 1 @@ move :> 2 @@ other :> 0
Numbers == <<1, 2>>

Dated(title, type, day, hour, change) ==
  [title |-> title, type |-> type, value |-> <<day, hour>>, change |-> change]

Menu ==
  base  :> {Dated(1, quiz, 1, 9, "NONE")} @@
  move  :> {Dated(1, generic, 2, 9, "MOVE"), NoDraft} @@
  other :> {Dated(1, quiz, 1, 0, "NONE"), Dated(2, quiz, 1, 9, "NONE")}

\* Every input is about one assessment
OneAssessment == [Menu EXCEPT ![other] = {Dated(1, quiz, 1, 0, "NONE")}]

Asserted == {<<2, 9>>}
=============================================================================
