----------------------------- MODULE MCSettings -----------------------------
(* What administrators change, each on its own: prices, providers and      *)
(* routes on two replicas with two providers, the second stored first; and *)
(* the catalogue of releases.                                              *)
EXTENDS Settings, Releases

CONSTANTS a, b

VARIABLE question

MCPreference == [c \in {a, b} |-> IF c = a THEN 1 ELSE 2]

On(id) == [status |-> "on", id |-> id]

(* Both providers in use; a single one that no enabled route names, which  *)
(* may have been created again since the backup.                           *)
InUse == [pricing |-> 0, providers |-> [c \in {a, b} |-> On(0)],
          route |-> [primary |-> a, fallback |-> b, enabled |-> TRUE]]

Alone(id) == [pricing |-> 0, providers |-> [c \in {a, b} |-> IF c = a THEN On(id) ELSE Absent],
              route |-> [primary |-> a, fallback |-> "", enabled |-> FALSE]]

Starting(rows, archived, count) == [rows |-> rows, archived |-> archived, changes |-> count]

MCInstances ==
    {Starting(InUse, InUse, [pricing |-> 2, failure |-> 1]),
     Starting(InUse, InUse, [update |-> 1]),
     Starting(InUse, InUse, [route |-> 1]),
     Starting(Alone(0), Alone(0), [save |-> 1]),
     Starting(Alone(0), Alone(0), [delete |-> 1, failure |-> 1]),
     Starting(Alone(0), Alone(0), [update |-> 1, delete |-> 1]),
     Starting(Alone(1), Alone(0), [delete |-> 1, restore |-> 1]),
     Starting(Alone(0), Alone(0), [pricing |-> 1, restore |-> 1]),
     Starting(Alone(0), Alone(0), [restore |-> 1, failure |-> 1])}

Init == /\ InitSettings /\ InitReleases
        /\ question \in {"settings", "releases"}
        /\ question = "releases" => changes = [pricing |-> 2, failure |-> 1]

NextOfSettings == question = "settings" /\ NextSettings /\ UNCHANGED <<question, releaseVars>>

NextOfReleases == question = "releases" /\ NextReleases /\ UNCHANGED <<question, settingsVars>>

Fairness ==
    /\ WF_settingsVars(question = "settings" /\ ExpireRevision)
    /\ WF_settingsVars(question = "settings" /\ \E i \in Replicas, w \in Admins : GoOn(i, w))
    /\ \A i \in Replicas : WF_settingsVars(question = "settings" /\ GoOn(i, "gateway"))

Spec == /\ Init
        /\ [][NextOfSettings \/ NextOfReleases]_<<question, settingsVars, releaseVars>>
        /\ Fairness
=============================================================================
