----------------------------- MODULE Submission -----------------------------
(***************************************************************************)
(* What a form of this application promises: one request at a time, one    *)
(* effect on the server per request, and after a request that was not      *)
(* reported as failed the form is done.  A request whose answer was lost   *)
(* is reported as failed although it was executed; the user may send the   *)
(* form again.                                                             *)
(***************************************************************************)
EXTENDS Naturals

VARIABLES
    phase,    \* "editing", "sent", "stored": executed but not answered, "done"
    stored,   \* how often the server has executed the form
    told      \* how often the user was told that it failed

vars == <<phase, stored, told>>

Init == phase = "editing" /\ stored = 0 /\ told = 0

Send == phase = "editing" /\ phase' = "sent" /\ UNCHANGED <<stored, told>>

Store == phase = "sent" /\ phase' = "stored" /\ stored' = stored + 1 /\ UNCHANGED told

Succeed == phase = "stored" /\ phase' = "done" /\ UNCHANGED <<stored, told>>

Fail ==
    /\ phase \in {"sent", "stored"}
    /\ phase' = "editing" /\ told' = told + 1
    /\ UNCHANGED stored

Next == Send \/ Store \/ Succeed \/ Fail

Spec == Init /\ [][Next]_vars

\* Nothing is executed twice without a failure that was reported in between.
NoSilentDuplicate == stored <= told + 1
=============================================================================
