------------------------------ MODULE MCAccess ------------------------------
(* Three instances in one run, for the sake of its size.  WebInstance is     *)
(* about logins and resets: of keys and desktops one of each is left, in   *)
(* use.  DesktopInstance is about keys, devices and desktop sessions: the  *)
(* web sessions and resets of the account have been used up before.  And   *)
(* SyncInstance is about the account the environment names.                *)
EXTENDS Accounts, TLC

UsedUp(row) == [row EXCEPT !.status = "revoked"]

OneDesktop(k1, d1, s1) ==
    /\ keys = [k \in Keys |-> IF k = k1 THEN "active" ELSE "revoked"]
    /\ devices = [f \in Devices |-> IF f = d1 THEN [NoDevice EXCEPT !.status = "active", !.key = k1]
                                    ELSE NoDevice]
    /\ desktops = [s \in Desktops |->
          IF s = s1
          THEN [NoDesktop EXCEPT !.status = "live", !.key = k1, !.device = d1]
          ELSE [NoDesktop EXCEPT !.status = "revoked", !.key = k1, !.device = d1, !.revoked = TRUE]]

WebInstance ==
    /\ user = [NewUser EXCEPT !.syncs = MaxSyncs]
    /\ handlers = [h \in Handlers |-> NoHandler]
    /\ \E k \in Keys, f \in Devices, s \in Desktops : OneDesktop(k, f, s)
    /\ sessions = [w \in Sessions |-> NoSession]
    /\ tokens = [t \in Tokens |-> [status |-> "none", changes |-> 0]]
    /\ credentials = [c \in Credentials |-> "none"]
    /\ resets = [r \in Resets |-> [status |-> "none", credential |-> {}, changes |-> 0]]

DesktopInstance ==
    /\ InitDesktop
    /\ user = [NewUser EXCEPT !.endings = MaxEndings]
    /\ handlers = [h \in Handlers |-> NoHandler]
    /\ sessions = [w \in Sessions |-> UsedUp(NoSession)]
    /\ tokens = [t \in Tokens |-> [status |-> "consumed", changes |-> 0]]
    /\ credentials = [c \in Credentials |-> "revoked"]
    /\ resets = [r \in Resets |-> [status |-> "revoked", credential |-> {}, changes |-> 0]]

(* The account of the environment, with a temporary password handed out.   *)
SyncInstance ==
    /\ user = [NewUser EXCEPT !.reset = TRUE]
    /\ handlers = [h \in Handlers |-> NoHandler]
    /\ \E k \in Keys, f \in Devices, s \in Desktops : OneDesktop(k, f, s)
    /\ sessions = [w \in Sessions |-> NoSession]
    /\ tokens = [t \in Tokens |-> [status |-> "consumed", changes |-> 0]]
    /\ \E c \in Credentials :
          credentials = [i \in Credentials |-> IF i = c THEN "live" ELSE "revoked"]
    /\ resets = [r \in Resets |-> [status |-> "none", credential |-> {}, changes |-> 0]]

MCInit == WebInstance \/ DesktopInstance \/ SyncInstance

MCSpec == MCInit /\ [][NextAccess]_accessVars

MCSymmetry ==
    UNION {Permutations(S) : S \in {Handlers, Keys, Devices, Desktops, Sessions}}
=============================================================================
