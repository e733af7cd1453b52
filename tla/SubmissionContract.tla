------------------------- MODULE SubmissionContract -------------------------
(***************************************************************************)
(* What a session promises about its submission, whoever races whom: it is *)
(* sealed at most once, its content never changes afterwards, it is        *)
(* announced to the webhooks at most once and with exactly that content,   *)
(* at the seal or, when it was withheld, at its release.  Nothing is       *)
(* promised once the session is erased: ResponseSession shows what the     *)
(* code lets happen then.                                                  *)
(***************************************************************************)
CONSTANTS Contents, Announcers, NoContent

VARIABLES
    phase,      \* "open", "sealed" or "erased"
    sealed,     \* the sealed content
    announced   \* who announced which content

vars == <<phase, sealed, announced>>

Init == phase = "open" /\ sealed = NoContent /\ announced = {}

\* The respondent submits; the event goes out with the seal or is withheld.
Seal ==
    /\ phase = "open"
    /\ phase' = "sealed"
    /\ \E c \in Contents :
         /\ sealed' = c
         /\ \/ announced' = {}
            \/ \E by \in Announcers : announced' = {[by |-> by, content |-> c]}

\* An administrator releases a withheld submission.
Release ==
    /\ phase = "sealed"
    /\ announced = {}
    /\ \E by \in Announcers : announced' = {[by |-> by, content |-> sealed]}
    /\ UNCHANGED <<phase, sealed>>

Erase ==
    /\ phase' = "erased"
    /\ phase # "erased"
    /\ sealed' = NoContent
    /\ announced' = {}

Next == Seal \/ Release \/ Erase

Spec == Init /\ [][Next]_vars
=============================================================================
