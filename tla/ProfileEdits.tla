----------------------------- MODULE ProfileEdits -----------------------------
(***************************************************************************)
(* What the bot promises about a user's profile: it is replaced only by a  *)
(* complete questionnaire, and otherwise one field changes at a time.      *)
(***************************************************************************)
EXTENDS Naturals

CONSTANTS
    Asked,           \* fields that the questionnaire needs
    Field,           \* fields of a profile
    Value, Empty, Absent

VARIABLES
    profile,
    writer,          \* who wrote it last
    excused          \* the bot saves something it has not made from the stored profile

vars == <<profile, writer, excused>>

Profile  == [Field -> Value \cup {Empty}]
Complete == {p \in Profile : \A f \in Asked : p[f] # Empty}

Init == profile \in Profile \cup {Absent} /\ writer = "nobody" /\ excused = FALSE

\* The web application, or the user's API key.
EditedElsewhere == writer' = "web" /\ profile' \in Profile \cup {Absent}

Questionnaire == profile' \in Complete

OneField ==
    /\ profile # Absent /\ profile' # Absent
    /\ \E f \in Field : \A g \in Field \ {f} : profile'[g] = profile[g]

Removal == profile' = Absent

EditedByBot ==
    writer' = "bot" /\ (Questionnaire \/ OneField \/ Removal \/ (excused /\ profile' \in Profile))

Next == (EditedElsewhere \/ EditedByBot \/ UNCHANGED <<profile, writer>>) /\ excused' \in BOOLEAN

Spec == Init /\ [][Next]_vars
=============================================================================
