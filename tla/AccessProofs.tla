---------------------------- MODULE AccessProofs -----------------------------
(***************************************************************************)
(* What the accounts, the keys, devices and desktop sessions, the          *)
(* catalogue of releases, and last the credit a member sees in memory and  *)
(* in the database promise, for every number of requests and rows.  Each   *)
(* theorem is proved from the types and an invariant of its own, of which  *)
(* one lemma shows that every action keeps it.                             *)
(***************************************************************************)
EXTENDS Accounts, Releases, MCMember, AmountProofs, FiniteSetTheorems, TLAPS

D == INSTANCE DirectCreditProofs

-----------------------------------------------------------------------------
(* Types *)

Users == [active : BOOLEAN, deleted : BOOLEAN, reset : BOOLEAN,
          role : {"member", "super_admin"}, endings : Nat, unended : BOOLEAN,
          syncs : Nat, overtaken : BOOLEAN]

DeviceRows == [status : {"none", "active", "revoked"}, key : Keys \union {{}},
               contested : BOOLEAN, crowded : BOOLEAN]

DesktopRows == [status : {"none", "live", "revoked"}, key : Keys \union {{}},
                device : Devices \union {{}}, revoked : BOOLEAN, contested : BOOLEAN]

SessionRows == [status : {"none", "live", "revoked"}, since : Nat]
TokenRows == [status : {"none", "live", "consumed"}, changes : Nat]
ResetRows == [status : {"none", "open", "consumed", "revoked"},
              credential : Credentials \union {{}}, changes : Nat]

(* The locals of a request, by where it is. *)
Locals ==
    [step : {"idle", "entering", "issuing password", "ending access", "ending sessions"}]
    \union [step : {"exchanging"}, credential : Credentials]
    \union [step : {"confirming"}, token : Tokens]
    \union [step : {"reading credential", "completing"}, reset : Resets]
    \union [step : {"updating"}, status : {"active", "suspended"}]
    \union [step : {"replacing"}, previous : SUBSET Keys]
    \union [step : {"claiming", "checking", "issuing"}, key : Keys, device : Devices]
    \union [step : {"revoking", "rotating"}, session : Desktops]

AccessTypeOK ==
    /\ user \in Users
    /\ keys \in [Keys -> {"none", "active", "revoked"}]
    /\ devices \in [Devices -> DeviceRows]
    /\ desktops \in [Desktops -> DesktopRows]
    /\ handlers \in [Handlers -> Locals]
    /\ sessions \in [Sessions -> SessionRows]
    /\ tokens \in [Tokens -> TokenRows]
    /\ credentials \in [Credentials -> {"none", "live", "used", "revoked"}]
    /\ resets \in [Resets -> ResetRows]

(* Withdrawn rows are rows.                                                *)
LEMMA WithoutTypes ==
    ASSUME AccessTypeOK
    PROVE  /\ \A S : DesktopsWithout(S) \in [Desktops -> DesktopRows]
           /\ \A S : DevicesWithout(S) \in [Devices -> DeviceRows]
           /\ \A S : CredentialsWithout(S) \in [Credentials -> {"none", "live", "used", "revoked"}]
           /\ \A S : ResetsWithout(S) \in [Resets -> ResetRows]
<1>1. \A S : DesktopsWithout(S) \in [Desktops -> DesktopRows]
  BY DEF AccessTypeOK, DesktopsWithout, DesktopRows, Refreshing
<1>2. \A S : DevicesWithout(S) \in [Devices -> DeviceRows]
  BY DEF AccessTypeOK, DevicesWithout, DeviceRows, Activating, Refreshing
<1>3. \A S : CredentialsWithout(S) \in [Credentials -> {"none", "live", "used", "revoked"}]
  BY DEF AccessTypeOK, CredentialsWithout
<1>4. \A S : ResetsWithout(S) \in [Resets -> ResetRows]
  BY DEF AccessTypeOK, ResetsWithout, ResetRows
<1>5. QED
  BY <1>1, <1>2, <1>3, <1>4

(* One handler goes to another place.                                      *)
LEMMA Going ==
    ASSUME handlers \in [Handlers -> Locals], NEW h \in Handlers, NEW next \in Locals,
           GoTo(h, next)
    PROVE  handlers' \in [Handlers -> Locals]
  BY DEF GoTo

(* So does one that finishes.                                              *)
LEMMA Finishing ==
    ASSUME handlers \in [Handlers -> Locals], NEW h \in Handlers, Finish(h)
    PROVE  handlers' \in [Handlers -> Locals]
<1>1. NoHandler \in Locals
  BY DEF NoHandler, Locals
<1>2. QED
  BY <1>1, Going DEF Finish


(* The account's row with one more ending, and as the environment has it.  *)
LEMMA UserForms ==
    ASSUME user \in Users
    PROVE  /\ UserEnded \in Users
           /\ \A role \in {"member", "super_admin"}, reset \in BOOLEAN :
                 AccountWritten(role, reset) \in Users
<1>1. user.endings + 1 \in Nat /\ user.syncs + 1 \in Nat
  BY DEF Users
<1>2. UserEnded \in Users
  BY <1>1 DEF Users, UserEnded
<1>3. ASSUME NEW role \in {"member", "super_admin"}, NEW reset \in BOOLEAN
      PROVE  AccountWritten(role, reset) \in Users
  BY <1>1 DEF Users, AccountWritten
<1>4. QED
  BY <1>2, <1>3

(* Rows that have changed the password.                                    *)
LEMMA SpentTypes ==
    /\ \A row \in TokenRows : [row EXCEPT !.status = "consumed", !.changes = @ + 1] \in TokenRows
    /\ \A row \in ResetRows : [row EXCEPT !.status = "consumed", !.changes = @ + 1] \in ResetRows
<1>1. ASSUME NEW row \in TokenRows
      PROVE  [row EXCEPT !.status = "consumed", !.changes = @ + 1] \in TokenRows
  <2>1. row.changes + 1 \in Nat
    BY DEF TokenRows
  <2> QED
    BY <2>1 DEF TokenRows
<1>2. ASSUME NEW row \in ResetRows
      PROVE  [row EXCEPT !.status = "consumed", !.changes = @ + 1] \in ResetRows
  <2>1. row.changes + 1 \in Nat
    BY DEF ResetRows
  <2> QED
    BY <2>1 DEF ResetRows
<1>3. QED
  BY <1>1, <1>2

(* Every action keeps the types.                                           *)
LEMMA TypeStep ==
    ASSUME AccessTypeOK, NextAccess
    PROVE  AccessTypeOK'
<1>1. ASSUME NEW k \in Keys, CreateKey(k), UNCHANGED webVars
      PROVE  AccessTypeOK'
  <2>1. keys' \in [Keys -> {"none", "active", "revoked"}]
    BY <1>1 DEF AccessTypeOK, CreateKey
  <2> QED
    BY <1>1, <2>1 DEF AccessTypeOK, CreateKey, webVars, desktopVars
<1>2. ASSUME NEW k \in Keys, RevokeKey(k), UNCHANGED webVars
      PROVE  AccessTypeOK'
  <2>1. keys' \in [Keys -> {"none", "active", "revoked"}]
    BY <1>2 DEF AccessTypeOK, RevokeKey
  <2>2. devices' \in [Devices -> DeviceRows]
    BY <1>2, WithoutTypes DEF AccessTypeOK, RevokeKey, DeviceRows
  <2> QED
    BY <1>2, <2>1, <2>2 DEF AccessTypeOK, RevokeKey, webVars, desktopVars
<1>3. ASSUME NEW f \in Devices, RevokeDevice(f), UNCHANGED webVars
      PROVE  AccessTypeOK'
  <2>1. devices' \in [Devices -> DeviceRows]
    BY <1>3, WithoutTypes DEF AccessTypeOK, RevokeDevice, DeviceRows
  <2>2. desktops' \in [Desktops -> DesktopRows]
    BY <1>3, WithoutTypes DEF AccessTypeOK, RevokeDevice, DesktopRows
  <2> QED
    BY <1>3, <2>1, <2>2 DEF AccessTypeOK, RevokeDevice, webVars, desktopVars
<1>4. ASSUME NEW h \in Handlers, ListKeys(h), UNCHANGED webVars
      PROVE  AccessTypeOK'
  <2>1. [step |-> "replacing", previous |-> ActiveKeys] \in Locals
    BY <1>4 DEF AccessTypeOK, Locals, ActiveKeys
  <2>2. handlers' \in [Handlers -> Locals]
    BY <1>4, <2>1, Going DEF AccessTypeOK, ListKeys
  <2> QED
    BY <1>4, <2>2 DEF AccessTypeOK, ListKeys, webVars, desktopVars
<1>5. ASSUME NEW h \in Handlers, ClaimDevice(h), UNCHANGED webVars
      PROVE  AccessTypeOK'
  <2>1. [handlers[h] EXCEPT !.step = "checking"] \in Locals
    BY <1>5 DEF AccessTypeOK, Locals, ClaimDevice, At
  <2>2. handlers' \in [Handlers -> Locals]
    BY <1>5, <2>1, Going DEF AccessTypeOK, ClaimDevice
  <2>3. devices' \in [Devices -> DeviceRows]
    <3> DEFINE k == handlers[h].key
               f == handlers[h].device
    <3>1. k \in Keys /\ f \in Devices
      BY <1>5 DEF AccessTypeOK, Locals, ClaimDevice, At
    <3>2. ASSUME NEW row \in DeviceRows, NEW crowded \in BOOLEAN
          PROVE  /\ [row EXCEPT !.status = "active", !.key = k, !.crowded = crowded] \in DeviceRows
                 /\ [row EXCEPT !.crowded = TRUE] \in DeviceRows
      <4>1. [row EXCEPT !.status = "active", !.key = k, !.crowded = crowded] \in DeviceRows
        BY <3>1 DEF DeviceRows
      <4>2. [row EXCEPT !.crowded = TRUE] \in DeviceRows
        BY DEF DeviceRows
      <4> QED
        BY <4>1, <4>2
    <3>3. PICK crowded \in BOOLEAN : devices' = [d \in Devices |->
                  IF d = f THEN [devices[f] EXCEPT !.status = "active", !.key = k, !.crowded = crowded]
                  ELSE IF crowded /\ devices[d].key = k
                  THEN [devices[d] EXCEPT !.crowded = TRUE] ELSE devices[d]]
      BY <1>5 DEF ClaimDevice
    <3> QED
      BY <3>1, <3>2, <3>3 DEF AccessTypeOK
  <2> QED
    BY <1>5, <2>2, <2>3 DEF AccessTypeOK, ClaimDevice, webVars, desktopVars
<1>6. ASSUME NEW h \in Handlers, CheckKey(h), UNCHANGED webVars
      PROVE  AccessTypeOK'
  <2>1. [handlers[h] EXCEPT !.step = "issuing"] \in Locals
    BY <1>6 DEF AccessTypeOK, Locals, CheckKey, At
  <2>2. handlers' \in [Handlers -> Locals]
    BY <1>6, <2>1, Going, Finishing DEF AccessTypeOK, CheckKey
  <2> QED
    BY <1>6, <2>2 DEF AccessTypeOK, CheckKey, webVars, desktopVars
<1>7. ASSUME NEW h \in Handlers, RevokeStored(h), UNCHANGED webVars
      PROVE  AccessTypeOK'
  <2>1. handlers' \in [Handlers -> Locals]
    BY <1>7, Finishing DEF AccessTypeOK, RevokeStored
  <2>2. desktops' \in [Desktops -> DesktopRows]
    BY <1>7, WithoutTypes DEF AccessTypeOK, RevokeStored, DesktopRows
  <2> QED
    BY <1>7, <2>1, <2>2 DEF AccessTypeOK, RevokeStored, webVars, desktopVars
<1>8. ASSUME NEW h \in Handlers, PersistSession(h), UNCHANGED webVars
      PROVE  AccessTypeOK'
  <2>1. handlers' \in [Handlers -> Locals]
    BY <1>8, Finishing DEF AccessTypeOK, PersistSession
  <2>2. desktops' \in [Desktops -> DesktopRows]
    <3>1. handlers[h].session \in Desktops
      BY <1>8 DEF AccessTypeOK, Locals, PersistSession, At
    <3>2. [desktops[handlers[h].session] EXCEPT !.status = "live"] \in DesktopRows
      BY <3>1 DEF AccessTypeOK, DesktopRows
    <3> QED
      BY <1>8, <3>1, <3>2 DEF AccessTypeOK, PersistSession
  <2> QED
    BY <1>8, <2>1, <2>2 DEF AccessTypeOK, PersistSession, webVars, desktopVars
<1>9. ASSUME NEW h \in Handlers, Abandon(h), UNCHANGED webVars
      PROVE  AccessTypeOK'
  <2>1. handlers' \in [Handlers -> Locals]
    BY <1>9, Finishing DEF AccessTypeOK, Abandon
  <2> QED
    BY <1>9, <2>1 DEF AccessTypeOK, Abandon, webVars, desktopVars
<1>10. ASSUME NEW h \in Handlers, NEW k \in Keys, ReplaceKeys(h, k), UNCHANGED webVars
      PROVE  AccessTypeOK'
  <2>1. handlers' \in [Handlers -> Locals]
    BY <1>10, Finishing DEF AccessTypeOK, ReplaceKeys
  <2>2. keys' \in [Keys -> {"none", "active", "revoked"}]
    BY <1>10 DEF AccessTypeOK, ReplaceKeys
  <2>3. devices' \in [Devices -> DeviceRows]
    BY <1>10, WithoutTypes DEF AccessTypeOK, ReplaceKeys, DeviceRows
  <2>4. desktops' \in [Desktops -> DesktopRows]
    BY <1>10, WithoutTypes DEF AccessTypeOK, ReplaceKeys, DesktopRows
  <2> QED
    BY <1>10, <2>1, <2>2, <2>3, <2>4 DEF AccessTypeOK, ReplaceKeys, webVars, desktopVars
<1>11. ASSUME NEW h \in Handlers, NEW k \in Keys, NEW f \in Devices, ReadLicense(h, k,
              f), UNCHANGED webVars
      PROVE  AccessTypeOK'
  <2>1. [step |-> IF f \in ActiveDevices(k) THEN "checking" ELSE "claiming", key |-> k, device |-> f] \in Locals
    BY <1>11 DEF AccessTypeOK, Locals
  <2>2. handlers' \in [Handlers -> Locals]
    BY <1>11, <2>1, Going DEF AccessTypeOK, ReadLicense
  <2> QED
    BY <1>11, <2>2 DEF AccessTypeOK, ReadLicense, webVars, desktopVars
<1>12. ASSUME NEW h \in Handlers, NEW s \in Desktops, IssueSession(h, s), UNCHANGED webVars
      PROVE  AccessTypeOK'
  <2>1. handlers' \in [Handlers -> Locals]
    BY <1>12, Finishing DEF AccessTypeOK, IssueSession
  <2>2. desktops' \in [Desktops -> DesktopRows]
    BY <1>12 DEF AccessTypeOK, IssueSession, DesktopRows, NoDesktop, Locals, At
  <2> QED
    BY <1>12, <2>1, <2>2 DEF AccessTypeOK, IssueSession, webVars, desktopVars
<1>13. ASSUME NEW h \in Handlers, NEW s \in Desktops, RefuseSession(h, s), UNCHANGED webVars
      PROVE  AccessTypeOK'
  <2>1. [step |-> "revoking", session |-> s] \in Locals
    BY <1>13 DEF AccessTypeOK, Locals
  <2>2. handlers' \in [Handlers -> Locals]
    BY <1>13, <2>1, Going DEF AccessTypeOK, RefuseSession
  <2> QED
    BY <1>13, <2>2 DEF AccessTypeOK, RefuseSession, webVars, desktopVars
<1>14. ASSUME NEW h \in Handlers, NEW s \in Desktops, ReadSession(h, s), UNCHANGED webVars
      PROVE  AccessTypeOK'
  <2>1. [step |-> "rotating", session |-> s] \in Locals
    BY <1>14 DEF AccessTypeOK, Locals
  <2>2. handlers' \in [Handlers -> Locals]
    BY <1>14, <2>1, Going DEF AccessTypeOK, ReadSession
  <2> QED
    BY <1>14, <2>2 DEF AccessTypeOK, ReadSession, webVars, desktopVars
<1>15. ASSUME DeleteMember
      PROVE  AccessTypeOK'
  <2>1. user' \in Users
    <3>1. ASSUME NEW late \in BOOLEAN
          PROVE  [UserEnded EXCEPT !.active = FALSE, !.deleted = TRUE, !.reset = FALSE,
                                   !.overtaken = late] \in Users
      BY UserForms DEF AccessTypeOK, Users
    <3>2. (\E o \in Handlers : At(o, "updating")) \in BOOLEAN
      OBVIOUS
    <3> QED
      BY <1>15, <3>1, <3>2 DEF DeleteMember
  <2>2. keys' \in [Keys -> {"none", "active", "revoked"}]
    BY <1>15 DEF AccessTypeOK, DeleteMember
  <2>3. devices' \in [Devices -> DeviceRows]
    BY <1>15, WithoutTypes DEF AccessTypeOK, DeleteMember, DeviceRows, SuspendAccess
  <2>4. desktops' \in [Desktops -> DesktopRows]
    BY <1>15, WithoutTypes DEF AccessTypeOK, DeleteMember, DesktopRows, SuspendAccess,
       EndAllSessions
  <2>5. sessions' \in [Sessions -> SessionRows]
    BY <1>15 DEF AccessTypeOK, DeleteMember, SessionRows, SuspendAccess, EndAllSessions,
       EndWebSessions
  <2>6. tokens' \in [Tokens -> TokenRows]
    BY <1>15 DEF AccessTypeOK, DeleteMember, TokenRows
  <2>7. credentials' \in [Credentials -> {"none", "live", "used", "revoked"}]
    BY <1>15, WithoutTypes DEF AccessTypeOK, DeleteMember, SuspendAccess
  <2>8. resets' \in [Resets -> ResetRows]
    BY <1>15, WithoutTypes DEF AccessTypeOK, DeleteMember, ResetRows, SuspendAccess
  <2> QED
    BY <1>15, <2>1, <2>2, <2>3, <2>4, <2>5, <2>6, <2>7, <2>8 DEF AccessTypeOK,
       DeleteMember, webVars, desktopVars
<1>16. ASSUME NEW w \in Sessions, Logout(w)
      PROVE  AccessTypeOK'
  <2>1. sessions' \in [Sessions -> SessionRows]
    BY <1>16 DEF AccessTypeOK, Logout, SessionRows
  <2> QED
    BY <1>16, <2>1 DEF AccessTypeOK, Logout, webVars, desktopVars
<1>17. ASSUME NEW t \in Tokens, RequestPasswordReset(t)
      PROVE  AccessTypeOK'
  <2>1. tokens' \in [Tokens -> TokenRows]
    BY <1>17 DEF AccessTypeOK, RequestPasswordReset, TokenRows
  <2> QED
    BY <1>17, <2>1 DEF AccessTypeOK, RequestPasswordReset, webVars, desktopVars
<1>18. ASSUME NEW h \in Handlers, ReadLogin(h)
      PROVE  AccessTypeOK'
  <2>1. [step |-> "entering"] \in Locals /\ \A c \in Credentials : [step |-> "exchanging", credential |-> c] \in Locals
    BY DEF Locals
  <2>2. handlers' \in [Handlers -> Locals]
    BY <1>18, <2>1, Going DEF AccessTypeOK, ReadLogin
  <2> QED
    BY <1>18, <2>2 DEF AccessTypeOK, ReadLogin, webVars, desktopVars
<1>19. ASSUME NEW h \in Handlers, ReadTarget(h)
      PROVE  AccessTypeOK'
  <2>1. [step |-> "issuing password"] \in Locals
    BY <1>19 DEF AccessTypeOK, Locals
  <2>2. handlers' \in [Handlers -> Locals]
    BY <1>19, <2>1, Going DEF AccessTypeOK, ReadTarget
  <2> QED
    BY <1>19, <2>2 DEF AccessTypeOK, ReadTarget, webVars, desktopVars
<1>20. ASSUME NEW h \in Handlers, ReadCredential(h)
      PROVE  AccessTypeOK'
  <2>1. [handlers[h] EXCEPT !.step = "completing"] \in Locals
    BY <1>20 DEF AccessTypeOK, Locals, ReadCredential, At
  <2>2. handlers' \in [Handlers -> Locals]
    BY <1>20, <2>1, Going, Finishing DEF AccessTypeOK, ReadCredential
  <2> QED
    BY <1>20, <2>2 DEF AccessTypeOK, ReadCredential, webVars, desktopVars
<1>21. ASSUME NEW h \in Handlers, ConfirmPasswordReset(h)
      PROVE  AccessTypeOK'
  <2>1. handlers' \in [Handlers -> Locals]
    BY <1>21, Finishing DEF AccessTypeOK, ConfirmPasswordReset
  <2>2. user' \in Users
    BY <1>21, UserForms DEF AccessTypeOK, ConfirmPasswordReset, Users
  <2>3. desktops' \in [Desktops -> DesktopRows]
    BY <1>21, WithoutTypes DEF AccessTypeOK, ConfirmPasswordReset, DesktopRows,
       EndAllSessions
  <2>4. sessions' \in [Sessions -> SessionRows]
    BY <1>21 DEF AccessTypeOK, ConfirmPasswordReset, SessionRows, EndAllSessions,
       EndWebSessions
  <2>5. tokens' \in [Tokens -> TokenRows]
    <3> DEFINE t == handlers[h].token
               spent == [tokens[t] EXCEPT !.status = "consumed", !.changes = @ + 1]
    <3>1. t \in Tokens
      BY <1>21 DEF AccessTypeOK, Locals, ConfirmPasswordReset, At
    <3>2. spent \in TokenRows
      BY <3>1, SpentTypes DEF AccessTypeOK
    <3>3. tokens' = tokens \/ tokens' = [tokens EXCEPT ![t] = spent]
      BY <1>21, <3>1 DEF ConfirmPasswordReset, AccessTypeOK, TokenRows
    <3> QED
      BY <3>1, <3>2, <3>3 DEF AccessTypeOK
  <2> QED
    BY <1>21, <2>1, <2>2, <2>3, <2>4, <2>5 DEF AccessTypeOK, ConfirmPasswordReset,
       webVars, desktopVars
<1>22. ASSUME NEW h \in Handlers, Suspend(h)
      PROVE  AccessTypeOK'
  <2>1. handlers' \in [Handlers -> Locals]
    BY <1>22, Finishing DEF AccessTypeOK, Suspend
  <2>2. user' \in Users
    BY <1>22, UserForms DEF AccessTypeOK, Suspend, Users
  <2>3. devices' \in [Devices -> DeviceRows]
    BY <1>22, WithoutTypes DEF AccessTypeOK, Suspend, DeviceRows, SuspendAccess
  <2>4. desktops' \in [Desktops -> DesktopRows]
    BY <1>22, WithoutTypes DEF AccessTypeOK, Suspend, DesktopRows, SuspendAccess,
       EndAllSessions
  <2>5. sessions' \in [Sessions -> SessionRows]
    BY <1>22 DEF AccessTypeOK, Suspend, SessionRows, SuspendAccess, EndAllSessions,
       EndWebSessions
  <2>6. credentials' \in [Credentials -> {"none", "live", "used", "revoked"}]
    BY <1>22, WithoutTypes DEF AccessTypeOK, Suspend, SuspendAccess
  <2>7. resets' \in [Resets -> ResetRows]
    BY <1>22, WithoutTypes DEF AccessTypeOK, Suspend, ResetRows, SuspendAccess
  <2> QED
    BY <1>22, <2>1, <2>2, <2>3, <2>4, <2>5, <2>6, <2>7 DEF AccessTypeOK, Suspend,
       webVars, desktopVars
<1>23. ASSUME NEW h \in Handlers, Reactivate(h)
      PROVE  AccessTypeOK'
  <2>1. handlers' \in [Handlers -> Locals]
    BY <1>23, Finishing DEF AccessTypeOK, Reactivate
  <2>2. user' \in Users
    BY <1>23 DEF AccessTypeOK, Reactivate, Users
  <2> QED
    BY <1>23, <2>1, <2>2 DEF AccessTypeOK, Reactivate, webVars, desktopVars
<1>24. ASSUME NEW h \in Handlers, SyncAccount(h)
      PROVE  AccessTypeOK'
  <2>1. [step |-> "ending access"] \in Locals
    BY <1>24 DEF AccessTypeOK, Locals
  <2>2. handlers' \in [Handlers -> Locals]
    BY <1>24, <2>1, Going DEF AccessTypeOK, SyncAccount
  <2>3. user' \in Users
    BY <1>24, UserForms DEF AccessTypeOK, SyncAccount, Users
  <2> QED
    BY <1>24, <2>2, <2>3 DEF AccessTypeOK, SyncAccount, webVars, desktopVars
<1>25. ASSUME NEW h \in Handlers, NEW role \in {"member", "super_admin"}, SeedAccount(h, role)
      PROVE  AccessTypeOK'
  <2>1. [step |-> "ending sessions"] \in Locals
    BY <1>25 DEF AccessTypeOK, Locals
  <2>2. handlers' \in [Handlers -> Locals]
    BY <1>25, <2>1, Going DEF AccessTypeOK, SeedAccount
  <2>3. user' \in Users
    BY <1>25, UserForms DEF AccessTypeOK, SeedAccount, Users
  <2> QED
    BY <1>25, <2>2, <2>3 DEF AccessTypeOK, SeedAccount, webVars, desktopVars
<1>26. ASSUME NEW h \in Handlers, EndAccess(h)
      PROVE  AccessTypeOK'
  <2>1. handlers' \in [Handlers -> Locals]
    BY <1>26, Finishing DEF AccessTypeOK, EndAccess
  <2>2. user' \in Users
    BY <1>26 DEF AccessTypeOK, EndAccess, Users
  <2>3. desktops' \in [Desktops -> DesktopRows]
    BY <1>26, WithoutTypes DEF AccessTypeOK, EndAccess, DesktopRows, EndAllSessions
  <2>4. sessions' \in [Sessions -> SessionRows]
    BY <1>26 DEF AccessTypeOK, EndAccess, SessionRows, EndAllSessions, EndWebSessions
  <2>5. tokens' \in [Tokens -> TokenRows]
    BY <1>26 DEF AccessTypeOK, EndAccess, TokenRows
  <2>6. credentials' \in [Credentials -> {"none", "live", "used", "revoked"}]
    BY <1>26, WithoutTypes DEF AccessTypeOK, EndAccess
  <2>7. resets' \in [Resets -> ResetRows]
    BY <1>26, WithoutTypes DEF AccessTypeOK, EndAccess, ResetRows
  <2> QED
    BY <1>26, <2>1, <2>2, <2>3, <2>4, <2>5, <2>6, <2>7 DEF AccessTypeOK, EndAccess,
       webVars, desktopVars
<1>27. ASSUME NEW h \in Handlers, EndSessions(h)
      PROVE  AccessTypeOK'
  <2>1. handlers' \in [Handlers -> Locals]
    BY <1>27, Finishing DEF AccessTypeOK, EndSessions
  <2>2. user' \in Users
    BY <1>27 DEF AccessTypeOK, EndSessions, Users
  <2>3. sessions' \in [Sessions -> SessionRows]
    BY <1>27 DEF AccessTypeOK, EndSessions, SessionRows, EndWebSessions
  <2> QED
    BY <1>27, <2>1, <2>2, <2>3 DEF AccessTypeOK, EndSessions, webVars, desktopVars
<1>28. ASSUME NEW h \in Handlers, NEW w \in Sessions, CreateSession(h, w)
      PROVE  AccessTypeOK'
  <2>1. handlers' \in [Handlers -> Locals]
    BY <1>28, Finishing DEF AccessTypeOK, CreateSession
  <2>2. sessions' \in [Sessions -> SessionRows]
    BY <1>28 DEF AccessTypeOK, CreateSession, SessionRows, Users
  <2> QED
    BY <1>28, <2>1, <2>2 DEF AccessTypeOK, CreateSession, webVars, desktopVars
<1>29. ASSUME NEW h \in Handlers, NEW w \in Sessions, CompleteReset(h, w)
      PROVE  AccessTypeOK'
  <2>1. handlers' \in [Handlers -> Locals]
    BY <1>29, Finishing DEF AccessTypeOK, CompleteReset
  <2>2. user' \in Users
    <3>1. [UserEnded EXCEPT !.reset = FALSE] \in Users
      BY UserForms DEF AccessTypeOK, Users
    <3> QED
      BY <1>29, <3>1 DEF AccessTypeOK, CompleteReset
  <2>3. desktops' \in [Desktops -> DesktopRows]
    BY <1>29, WithoutTypes DEF AccessTypeOK, CompleteReset, DesktopRows
  <2>4. sessions' \in [Sessions -> SessionRows]
    BY <1>29 DEF AccessTypeOK, CompleteReset, SessionRows, Users
  <2>5. credentials' \in [Credentials -> {"none", "live", "used", "revoked"}]
    BY <1>29, WithoutTypes DEF AccessTypeOK, CompleteReset
  <2>6. resets' \in [Resets -> ResetRows]
    <3> DEFINE mine == handlers[h].reset
               others == ResetsWithout({mine})
               spent == [others[mine] EXCEPT !.status = "consumed", !.changes = @ + 1]
    <3>1. mine \in Resets /\ others \in [Resets -> ResetRows]
      BY <1>29, WithoutTypes DEF AccessTypeOK, Locals, CompleteReset, At
    <3>2. spent \in ResetRows
      BY <3>1, SpentTypes
    <3>3. resets' = resets \/ resets' = [others EXCEPT ![mine] = spent]
      BY <1>29, <3>1 DEF CompleteReset, ResetRows
    <3> QED
      BY <3>1, <3>2, <3>3 DEF AccessTypeOK
  <2> QED
    BY <1>29, <2>1, <2>2, <2>3, <2>4, <2>5, <2>6 DEF AccessTypeOK, CompleteReset,
       webVars, desktopVars
<1>30. ASSUME NEW h \in Handlers, NEW r \in Resets, ExchangeCredential(h, r)
      PROVE  AccessTypeOK'
  <2>1. handlers' \in [Handlers -> Locals]
    BY <1>30, Finishing DEF AccessTypeOK, ExchangeCredential
  <2>2. credentials' \in [Credentials -> {"none", "live", "used", "revoked"}]
    BY <1>30 DEF AccessTypeOK, ExchangeCredential, Locals, At
  <2>3. resets' \in [Resets -> ResetRows]
    <3>1. handlers[h].credential \in Credentials
      BY <1>30 DEF AccessTypeOK, Locals, ExchangeCredential, At
    <3>2. [status |-> "open", credential |-> handlers[h].credential, changes |-> 0] \in ResetRows
      BY <3>1 DEF ResetRows
    <3> QED
      BY <1>30, <3>2 DEF AccessTypeOK, ExchangeCredential
  <2> QED
    BY <1>30, <2>1, <2>2, <2>3 DEF AccessTypeOK, ExchangeCredential, webVars, desktopVars
<1>31. ASSUME NEW h \in Handlers, NEW r \in Resets, ReadReset(h, r)
      PROVE  AccessTypeOK'
  <2>1. [step |-> "reading credential", reset |-> r] \in Locals
    BY <1>31 DEF AccessTypeOK, Locals
  <2>2. handlers' \in [Handlers -> Locals]
    BY <1>31, <2>1, Going DEF AccessTypeOK, ReadReset
  <2> QED
    BY <1>31, <2>2 DEF AccessTypeOK, ReadReset, webVars, desktopVars
<1>32. ASSUME NEW h \in Handlers, NEW t \in Tokens, ReadToken(h, t)
      PROVE  AccessTypeOK'
  <2>1. [step |-> "confirming", token |-> t] \in Locals
    BY <1>32 DEF AccessTypeOK, Locals
  <2>2. handlers' \in [Handlers -> Locals]
    BY <1>32, <2>1, Going DEF AccessTypeOK, ReadToken
  <2> QED
    BY <1>32, <2>2 DEF AccessTypeOK, ReadToken, webVars, desktopVars
<1>33. ASSUME NEW h \in Handlers, NEW c \in Credentials, IssueTemporaryPassword(h, c)
      PROVE  AccessTypeOK'
  <2>1. handlers' \in [Handlers -> Locals]
    BY <1>33, Finishing DEF AccessTypeOK, IssueTemporaryPassword
  <2>2. user' \in Users
    BY <1>33, UserForms DEF AccessTypeOK, IssueTemporaryPassword, Users
  <2>3. desktops' \in [Desktops -> DesktopRows]
    BY <1>33, WithoutTypes DEF AccessTypeOK, IssueTemporaryPassword, DesktopRows,
       EndAllSessions
  <2>4. sessions' \in [Sessions -> SessionRows]
    BY <1>33 DEF AccessTypeOK, IssueTemporaryPassword, SessionRows, EndAllSessions,
       EndWebSessions
  <2>5. credentials' \in [Credentials -> {"none", "live", "used", "revoked"}]
    BY <1>33, WithoutTypes DEF AccessTypeOK, IssueTemporaryPassword
  <2>6. resets' \in [Resets -> ResetRows]
    BY <1>33, WithoutTypes DEF AccessTypeOK, IssueTemporaryPassword, ResetRows
  <2> QED
    BY <1>33, <2>1, <2>2, <2>3, <2>4, <2>5, <2>6 DEF AccessTypeOK,
       IssueTemporaryPassword, webVars, desktopVars
<1>34. ASSUME NEW h \in Handlers, NEW status \in {"active", "suspended"}, ReadMember(h, status)
      PROVE  AccessTypeOK'
  <2>1. [step |-> "updating", status |-> status] \in Locals
    BY <1>34 DEF AccessTypeOK, Locals
  <2>2. handlers' \in [Handlers -> Locals]
    BY <1>34, <2>1, Going DEF AccessTypeOK, ReadMember
  <2> QED
    BY <1>34, <2>2 DEF AccessTypeOK, ReadMember, webVars, desktopVars
<1> QED
  BY <1>1, <1>2, <1>3, <1>4, <1>5, <1>6, <1>7, <1>8, <1>9, <1>10, <1>11, <1>12, <1>13,
     <1>14, <1>15, <1>16, <1>17, <1>18, <1>19, <1>20, <1>21, <1>22, <1>23, <1>24, <1>25,
     <1>26, <1>27, <1>28, <1>29, <1>30, <1>31, <1>32, <1>33, <1>34 DEF NextAccess,
     NextDesktop

(* The first rows have their types.                                        *)
LEMMA TypeInit == InitAccess => AccessTypeOK
<1> SUFFICES ASSUME InitAccess PROVE AccessTypeOK
  OBVIOUS
<1>1. user \in Users /\ NoHandler \in Locals
  BY DEF InitAccess, NewUser, Users, NoHandler, Locals
<1>2. NoDevice \in DeviceRows /\ NoDesktop \in DesktopRows /\ NoSession \in SessionRows
  BY DEF NoDevice, DeviceRows, NoDesktop, DesktopRows, NoSession, SessionRows
<1>3. /\ [status |-> "none", changes |-> 0] \in TokenRows
      /\ [status |-> "none", credential |-> {}, changes |-> 0] \in ResetRows
  BY DEF TokenRows, ResetRows
<1>4. QED
  BY <1>1, <1>2, <1>3 DEF InitAccess, InitDesktop, AccessTypeOK

(* The types of all rows and requests of an account, whatever happens.     *)
THEOREM AccessTypes == SpecAccess => []AccessTypeOK
<1>1. AccessTypeOK /\ [NextAccess]_accessVars => AccessTypeOK'
  <2>1. ASSUME AccessTypeOK, UNCHANGED accessVars PROVE AccessTypeOK'
    BY <2>1 DEF accessVars, AccessTypeOK
  <2> QED
    BY <2>1, TypeStep
<1>2. QED
  BY <1>1, TypeInit, PTL DEF SpecAccess

-----------------------------------------------------------------------------
(* Deletion *)

(* What keeps a deleted account inactive: no change of status is left that *)
(* has not been told of it.                                                *)
NoneLate == user.deleted /\ ~user.overtaken => \A h \in Handlers : ~At(h, "updating")

DeletedInv == DeletedStaysInactive /\ NoneLate

(* A request that goes elsewhere does not become a change of status.       *)
LEMMA NotUpdating ==
    ASSUME handlers \in [Handlers -> Locals], NEW h \in Handlers, NEW next,
           GoTo(h, next), next.step # "updating"
    PROVE  \A o \in Handlers : At(o, "updating")' => At(o, "updating")
  BY DEF GoTo, At

(* A request that only changes its step.                                   *)
LEMMA StepTaken ==
    \A next \in Locals : \A step : [next EXCEPT !.step = step].step = step
  BY DEF Locals

(* Requests about keys, devices and desktops leave the account alone, and  *)
(* none of them turns into a change of status.                             *)
LEMMA DesktopStepsLeaveUser ==
    ASSUME AccessTypeOK, NextDesktop
    PROVE  user' = user /\ \A o \in Handlers : At(o, "updating")' => At(o, "updating")
<1> DEFINE Same == user' = user /\ \A o \in Handlers : At(o, "updating")' => At(o, "updating")
<1>1. NoHandler.step # "updating" /\ handlers \in [Handlers -> Locals]
  BY DEF NoHandler, AccessTypeOK
<1>2. ASSUME NEW k \in Keys, CreateKey(k) \/ RevokeKey(k) PROVE Same
  BY <1>2 DEF CreateKey, RevokeKey, At
<1>3. ASSUME NEW f \in Devices, RevokeDevice(f) PROVE Same
  BY <1>3 DEF RevokeDevice, At
<1>4. ASSUME NEW h \in Handlers, ListKeys(h) \/ RevokeStored(h) \/ PersistSession(h) \/ Abandon(h)
      PROVE  Same
  BY <1>1, <1>4, NotUpdating DEF Finish, ListKeys, RevokeStored, PersistSession, Abandon
<1>5. ASSUME NEW h \in Handlers, ClaimDevice(h) \/ CheckKey(h) PROVE Same
  <2>1. \/ GoTo(h, [handlers[h] EXCEPT !.step = "checking"])
        \/ GoTo(h, [handlers[h] EXCEPT !.step = "issuing"])
        \/ Finish(h)
    BY <1>5 DEF ClaimDevice, CheckKey
  <2>2. /\ [handlers[h] EXCEPT !.step = "checking"].step # "updating"
        /\ [handlers[h] EXCEPT !.step = "issuing"].step # "updating"
    BY <1>1, StepTaken
  <2>3. user' = user
    BY <1>5 DEF ClaimDevice, CheckKey
  <2> QED
    BY <1>1, <2>1, <2>2, <2>3, NotUpdating DEF Finish
<1>6. ASSUME NEW h \in Handlers, NEW k \in Keys, ReplaceKeys(h, k) PROVE Same
  BY <1>1, <1>6, NotUpdating DEF Finish, ReplaceKeys
<1>7. ASSUME NEW h \in Handlers, NEW k \in Keys, NEW f \in Devices, ReadLicense(h, k, f)
      PROVE  Same
  BY <1>1, <1>7, NotUpdating DEF ReadLicense
<1>8. ASSUME NEW h \in Handlers, NEW s \in Desktops,
             IssueSession(h, s) \/ RefuseSession(h, s) \/ ReadSession(h, s)
      PROVE  Same
  BY <1>1, <1>8, NotUpdating DEF Finish, IssueSession, RefuseSession, ReadSession
<1>9. QED
  BY <1>2, <1>3, <1>4, <1>5, <1>6, <1>7, <1>8 DEF NextDesktop

(* So do the requests about sessions and resets that keep the account.     *)
LEMMA WebStepsLeaveUpdates ==
    ASSUME AccessTypeOK, NEW h \in Handlers,
           \/ ReadLogin(h) \/ ReadTarget(h) \/ ReadCredential(h) \/ ConfirmPasswordReset(h)
           \/ SyncAccount(h) \/ EndAccess(h) \/ EndSessions(h) \/ Suspend(h) \/ Reactivate(h)
           \/ \E role \in {"member", "super_admin"} : SeedAccount(h, role)
           \/ \E w \in Sessions : CreateSession(h, w) \/ CompleteReset(h, w)
           \/ \E r \in Resets : ExchangeCredential(h, r) \/ ReadReset(h, r)
           \/ \E t \in Tokens : ReadToken(h, t)
           \/ \E c \in Credentials : IssueTemporaryPassword(h, c)
    PROVE  \A o \in Handlers : At(o, "updating")' => At(o, "updating")
<1> DEFINE Same == \A o \in Handlers : At(o, "updating")' => At(o, "updating")
<1>1. NoHandler.step # "updating" /\ handlers \in [Handlers -> Locals]
  BY DEF NoHandler, AccessTypeOK
<1>2. Finish(h) => Same
  BY <1>1, NotUpdating DEF Finish
<1>3. GoTo(h, [handlers[h] EXCEPT !.step = "completing"]) => Same
  BY <1>1, StepTaken, NotUpdating
<1>4. CASE ReadLogin(h) \/ ReadTarget(h) \/ SyncAccount(h)
           \/ \E role \in {"member", "super_admin"} : SeedAccount(h, role)
  BY <1>1, <1>4, NotUpdating DEF ReadLogin, ReadTarget, SyncAccount, SeedAccount
<1>5. CASE \/ \E r \in Resets : ReadReset(h, r)
           \/ \E t \in Tokens : ReadToken(h, t)
  BY <1>1, <1>5, NotUpdating DEF ReadReset, ReadToken
<1>6. CASE ReadCredential(h)
  BY <1>2, <1>3, <1>6 DEF ReadCredential
<1>7. CASE \/ ConfirmPasswordReset(h) \/ EndAccess(h) \/ EndSessions(h) \/ Suspend(h) \/ Reactivate(h)
  BY <1>2, <1>7 DEF ConfirmPasswordReset, EndAccess, EndSessions, Suspend, Reactivate
<1>8. CASE \/ \E w \in Sessions : CreateSession(h, w) \/ CompleteReset(h, w)
           \/ \E r \in Resets : ExchangeCredential(h, r)
           \/ \E c \in Credentials : IssueTemporaryPassword(h, c)
  BY <1>2, <1>8 DEF CreateSession, CompleteReset, ExchangeCredential,
     IssueTemporaryPassword
<1>9. QED
  BY <1>4, <1>5, <1>6, <1>7, <1>8

(* Every action keeps a deleted account inactive, or was overtaken.        *)
LEMMA DeletedStep ==
    ASSUME AccessTypeOK, DeletedInv, NextAccess
    PROVE  DeletedInv'
<1> USE DEF DeletedInv, DeletedStaysInactive, NoneLate
<1>1. ASSUME user'.deleted = user.deleted, user'.overtaken = user.overtaken,
             user'.active => user.active,
             \A o \in Handlers : At(o, "updating")' => At(o, "updating")
      PROVE  DeletedInv'
  BY <1>1
<1>2. CASE NextDesktop /\ UNCHANGED webVars
  BY <1>1, <1>2, DesktopStepsLeaveUser
<1>3. CASE DeleteMember
  <2>1. user'.overtaken = (\E h \in Handlers : At(h, "updating"))
    BY <1>3 DEF DeleteMember, UserEnded, AccessTypeOK, Users
  <2>2. ~user'.active
    BY <1>3 DEF DeleteMember, UserEnded, AccessTypeOK, Users
  <2> QED
    BY <1>3, <2>1, <2>2 DEF DeleteMember, At
<1>4. CASE \/ \E w \in Sessions : Logout(w)
           \/ \E t \in Tokens : RequestPasswordReset(t)
  BY <1>1, <1>4 DEF Logout, RequestPasswordReset, At
<1>5. ASSUME NEW h \in Handlers,
             \/ ReadLogin(h) \/ ReadTarget(h) \/ ReadCredential(h)
             \/ \E r \in Resets : ExchangeCredential(h, r) \/ ReadReset(h, r)
             \/ \E t \in Tokens : ReadToken(h, t)
             \/ \E w \in Sessions : CreateSession(h, w)
      PROVE  DeletedInv'
  <2>1. user' = user
    BY <1>5 DEF ReadLogin, ReadTarget, ReadCredential, ExchangeCredential, ReadReset,
       ReadToken,
                CreateSession
  <2> QED
    BY <1>1, <1>5, <2>1, WebStepsLeaveUpdates
<1>6. ASSUME NEW h \in Handlers,
             \/ ConfirmPasswordReset(h) \/ EndAccess(h) \/ EndSessions(h)
             \/ \E w \in Sessions : CompleteReset(h, w)
             \/ \E c \in Credentials : IssueTemporaryPassword(h, c)
      PROVE  DeletedInv'
  <2>1. /\ user'.deleted = user.deleted /\ user'.overtaken = user.overtaken
        /\ user'.active = user.active
    BY <1>6 DEF ConfirmPasswordReset, EndAccess, EndSessions, CompleteReset,
                IssueTemporaryPassword, UserEnded, AccessTypeOK, Users
  <2> QED
    BY <1>1, <1>6, <2>1, WebStepsLeaveUpdates
<1>7. ASSUME NEW h \in Handlers, Suspend(h)
      PROVE  DeletedInv'
  <2>1. /\ user'.deleted = user.deleted /\ user'.overtaken = user.overtaken
        /\ ~user'.active
    BY <1>7 DEF Suspend, UserEnded, AccessTypeOK, Users
  <2> QED
    BY <1>1, <1>7, <2>1, WebStepsLeaveUpdates
<1>8. ASSUME NEW h \in Handlers, Reactivate(h)
      PROVE  DeletedInv'
  (* It has read the account before a deletion: that one was overtaken. *)
  <2>1. user.deleted => user.overtaken
    BY <1>8 DEF Reactivate
  <2>2. user'.deleted = user.deleted /\ user'.overtaken = user.overtaken
    BY <1>8 DEF Reactivate, AccessTypeOK, Users
  <2> QED
    BY <2>1, <2>2
<1>9. ASSUME NEW h \in Handlers,
             SyncAccount(h) \/ \E role \in {"member", "super_admin"} : SeedAccount(h, role)
      PROVE  DeletedInv'
  <2>1. ~user'.deleted
    BY <1>9 DEF SyncAccount, SeedAccount, MaySync, AccountWritten, AccessTypeOK, Users
  <2> QED
    BY <2>1
<1>10. ASSUME NEW h \in Handlers, NEW status \in {"active", "suspended"}, ReadMember(h, status)
       PROVE  DeletedInv'
  <2>1. ~user'.deleted
    BY <1>10 DEF ReadMember, MayUpdate
  <2> QED
    BY <2>1
<1>11. QED
  BY <1>2, <1>3, <1>4, <1>5, <1>6, <1>7, <1>8, <1>9, <1>10 DEF NextAccess

(* DeletedStaysInactive for every number of requests and rows: the account *)
(* that deleteMember has anonymized is not active again.                   *)
THEOREM DeletedIsFinal == SpecAccess => []DeletedStaysInactive
<1>1. InitAccess => DeletedInv
  BY DEF InitAccess, NewUser, DeletedInv, DeletedStaysInactive, NoneLate
<1>2. AccessTypeOK /\ DeletedInv /\ [NextAccess]_accessVars => DeletedInv'
  <2>1. ASSUME DeletedInv, UNCHANGED accessVars PROVE DeletedInv'
    BY <2>1 DEF accessVars, DeletedInv, DeletedStaysInactive, NoneLate, At
  <2> QED
    BY <2>1, DeletedStep
<1>3. DeletedInv => DeletedStaysInactive
  BY DEF DeletedInv
<1>4. QED
  BY <1>1, <1>2, <1>3, AccessTypes, PTL DEF SpecAccess

-----------------------------------------------------------------------------
(* Endings *)

(* Requests about keys, devices and desktops leave the web sessions alone. *)
LEMMA DesktopStepsLeaveSessions ==
    ASSUME AccessTypeOK, NextDesktop, UNCHANGED webVars
    PROVE  UNCHANGED <<user, sessions>>
  BY DesktopStepsLeaveUser DEF webVars

(* An ending leaves no session live.                                       *)
LEMMA NoneLeft ==
    ASSUME AccessTypeOK, EndWebSessions
    PROVE  \A w \in Sessions : sessions'[w].status # "live"
<1> TAKE w \in Sessions
<1> QED
  BY DEF EndWebSessions, AccessTypeOK, SessionRows

(* Every action ends the sessions there are, or counts no ending.          *)
LEMMA EndingStep ==
    ASSUME AccessTypeOK, EndingsEndSessions, NextAccess
    PROVE  EndingsEndSessions'
<1>1. ASSUME UNCHANGED sessions, user'.endings = user.endings, user'.unended = user.unended
      PROVE  EndingsEndSessions'
  BY <1>1 DEF EndingsEndSessions
<1>2. ASSUME EndWebSessions PROVE EndingsEndSessions'
  BY <1>2, NoneLeft DEF EndingsEndSessions
<1>3. CASE NextDesktop /\ UNCHANGED webVars
  BY <1>1, <1>3, DesktopStepsLeaveSessions
<1>4. CASE DeleteMember
  BY <1>2, <1>4 DEF DeleteMember, SuspendAccess, EndAllSessions
<1>5. ASSUME NEW w \in Sessions, Logout(w) PROVE EndingsEndSessions'
  BY <1>5 DEF Logout, EndingsEndSessions, AccessTypeOK, SessionRows
<1>6. CASE \E t \in Tokens : RequestPasswordReset(t)
  BY <1>1, <1>6 DEF RequestPasswordReset
<1>7. ASSUME NEW h \in Handlers,
             \/ ReadLogin(h) \/ ReadTarget(h) \/ ReadCredential(h) \/ Reactivate(h)
             \/ \E r \in Resets : ExchangeCredential(h, r) \/ ReadReset(h, r)
             \/ \E t \in Tokens : ReadToken(h, t)
             \/ \E status \in {"active", "suspended"} : ReadMember(h, status)
      PROVE  EndingsEndSessions'
  <2>1. UNCHANGED sessions
    BY <1>7 DEF webVars, ReadLogin, ReadTarget, ReadCredential, Reactivate,
                ExchangeCredential, ReadReset, ReadToken, ReadMember
  <2>2. user'.endings = user.endings /\ user'.unended = user.unended
    BY <1>7 DEF ReadLogin, ReadTarget, ReadCredential, Reactivate,
                ExchangeCredential, ReadReset, ReadToken, ReadMember, AccessTypeOK, Users
  <2> QED
    BY <1>1, <2>1, <2>2
<1>8. ASSUME NEW h \in Handlers, EndAccess(h) \/ EndSessions(h) \/ Suspend(h)
      PROVE  EndingsEndSessions'
  BY <1>2, <1>8 DEF EndAccess, EndSessions, Suspend, SuspendAccess, EndAllSessions
<1>9. ASSUME NEW h \in Handlers, NEW c \in Credentials, IssueTemporaryPassword(h, c)
      PROVE  EndingsEndSessions'
  BY <1>2, <1>9 DEF IssueTemporaryPassword, EndAllSessions
<1>10. ASSUME NEW h \in Handlers, ConfirmPasswordReset(h)
       PROVE  EndingsEndSessions'
  <2>1. EndWebSessions \/ UNCHANGED <<user, sessions>>
    BY <1>10 DEF ConfirmPasswordReset, EndAllSessions
  <2> QED
    BY <1>1, <1>2, <2>1
<1>11. ASSUME NEW h \in Handlers,
              SyncAccount(h) \/ \E role \in {"member", "super_admin"} : SeedAccount(h, role)
       PROVE  EndingsEndSessions'
  <2>1. user'.unended
    BY <1>11 DEF SyncAccount, SeedAccount, AccountWritten, AccessTypeOK, Users
  <2> QED
    BY <2>1 DEF EndingsEndSessions
<1>12. ASSUME NEW h \in Handlers, NEW w \in Sessions, CreateSession(h, w)
       PROVE  EndingsEndSessions'
  BY <1>12 DEF CreateSession, EndingsEndSessions, AccessTypeOK
<1>13. ASSUME NEW h \in Handlers, NEW w \in Sessions, CompleteReset(h, w)
       PROVE  EndingsEndSessions'
  <2>1. CASE UNCHANGED <<user, sessions>>
    BY <1>1, <2>1
  <2>2. CASE ~UNCHANGED <<user, sessions>>
    <3>1. /\ user' = [UserEnded EXCEPT !.reset = FALSE]
          /\ sessions' = [v \in Sessions |->
                IF v = w THEN [status |-> "live", since |-> user.endings + 1]
                ELSE IF sessions[v].status = "live" THEN [sessions[v] EXCEPT !.status = "revoked"]
                ELSE sessions[v]]
      BY <1>13, <2>2 DEF CompleteReset
    <3>2. user'.endings = user.endings + 1
      BY <3>1 DEF UserEnded, AccessTypeOK, Users
    <3>3. ASSUME NEW v \in Sessions, sessions'[v].status = "live"
          PROVE  v = w
      BY <3>1, <3>3 DEF AccessTypeOK, SessionRows
    <3>4. sessions'[w].since = user.endings + 1
      BY <3>1
    <3> QED
      BY <3>2, <3>3, <3>4 DEF EndingsEndSessions
  <2> QED
    BY <2>1, <2>2
<1>14. QED
  BY <1>3, <1>4, <1>5, <1>6, <1>7, <1>8, <1>9, <1>10, <1>11, <1>12, <1>13 DEF NextAccess

(* EndingsEndSessions for every number of requests and sessions: a change  *)
(* of password, a suspension and a deletion leave no web session that was  *)
(* created before.                                                         *)
THEOREM EndingsAreThorough == SpecAccess => []EndingsEndSessions
<1>1. InitAccess => EndingsEndSessions
  BY DEF InitAccess, NoSession, EndingsEndSessions
<1>2. AccessTypeOK /\ EndingsEndSessions /\ [NextAccess]_accessVars => EndingsEndSessions'
  <2>1. ASSUME EndingsEndSessions, UNCHANGED accessVars PROVE EndingsEndSessions'
    BY <2>1 DEF accessVars, EndingsEndSessions
  <2> QED
    BY <2>1, EndingStep
<1>3. QED
  BY <1>1, <1>2, AccessTypes, PTL DEF SpecAccess

-----------------------------------------------------------------------------
(* Resets *)

(* A row has changed the password once and is spent, or not at all.        *)
ChangedOnce(rows, ids) ==
    \A i \in ids : rows[i].changes = 0 \/ (rows[i].changes = 1 /\ rows[i].status = "consumed")

(* A temporary password is no longer live when a restricted session has    *)
(* it, and no two have the same.                                           *)
ExchangedOnce ==
    /\ \A r \in Resets, c \in Credentials :
          resets[r].credential = c => credentials[c] \in {"used", "revoked"}
    /\ \A r, q \in Resets : resets[r].credential \in Credentials
                            /\ resets[r].credential = resets[q].credential => r = q

LiveCredentials == {c \in Credentials : credentials[c] = "live"}
OpenResets == {r \in Resets : resets[r].status = "open"}

OneWayIn ==
    /\ \A c, d \in LiveCredentials : c = d
    /\ \A r, q \in OpenResets : r = q
    /\ LiveCredentials = {} \/ OpenResets = {}

ResetsInv ==
    /\ ChangedOnce(tokens, Tokens)
    /\ ChangedOnce(resets, Resets)
    /\ ExchangedOnce
    /\ OneWayIn

(* Sets with at most one member.                                           *)
LEMMA AtMostOne ==
    ASSUME NEW S, \A x, y \in S : x = y
    PROVE  Cardinality(S) \in {0, 1} /\ (Cardinality(S) = 1 => S # {})
<1>1. CASE S = {}
  BY <1>1, FS_EmptySet
<1>2. CASE S # {}
  <2>1. PICK x \in S : TRUE
    BY <1>2
  <2>2. S = {x}
    BY <2>1
  <2> QED
    BY <1>2, <2>2, FS_Singleton
<1>3. QED
  BY <1>1, <1>2

(* The invariant is what was promised, counted.                            *)
LEMMA ResetsInvSuffices ==
    ASSUME AccessTypeOK, ResetsInv
    PROVE  ResetsAreSpentOnce
<1>1. \A t \in Tokens : tokens[t].changes <= 1
  BY DEF ResetsInv, ChangedOnce
<1>2. \A r \in Resets : resets[r].changes <= 1
  BY DEF ResetsInv, ChangedOnce
<1>3. ASSUME NEW c \in Credentials
      PROVE  Cardinality({r \in Resets : resets[r].credential = c}) <= 1
  <2>1. \A x, y \in {r \in Resets : resets[r].credential = c} : x = y
    BY DEF ResetsInv, ExchangedOnce
  <2> QED
    BY <2>1, AtMostOne
<1>4. Cardinality(LiveCredentials) + Cardinality(OpenResets) <= 1
  <2>1. /\ Cardinality(LiveCredentials) \in {0, 1}
        /\ Cardinality(LiveCredentials) = 1 => LiveCredentials # {}
    BY AtMostOne DEF ResetsInv, OneWayIn
  <2>2. /\ Cardinality(OpenResets) \in {0, 1}
        /\ Cardinality(OpenResets) = 1 => OpenResets # {}
    BY AtMostOne DEF ResetsInv, OneWayIn
  <2> QED
    BY <2>1, <2>2 DEF ResetsInv, OneWayIn
<1>5. QED
  BY <1>1, <1>2, <1>3, <1>4 DEF ResetsAreSpentOnce, LiveCredentials, OpenResets

(* What is withdrawn keeps its history and is no way in any more.          *)
LEMMA Withdrawn ==
    ASSUME AccessTypeOK
    PROVE  /\ \A S : \A c \in Credentials :
                 CredentialsWithout(S)[c] = IF credentials[c] \in S THEN "revoked" ELSE credentials[c]
           /\ \A S : \A r \in Resets :
                 /\ ResetsWithout(S)[r].credential = resets[r].credential
                 /\ ResetsWithout(S)[r].changes = resets[r].changes
                 /\ ResetsWithout(S)[r].status = IF resets[r].status = "open" /\ r \notin S
                                                 THEN "revoked" ELSE resets[r].status
<1>1. ASSUME NEW S, NEW r \in Resets
      PROVE  /\ ResetsWithout(S)[r].credential = resets[r].credential
             /\ ResetsWithout(S)[r].changes = resets[r].changes
             /\ ResetsWithout(S)[r].status = IF resets[r].status = "open" /\ r \notin S
                                             THEN "revoked" ELSE resets[r].status
  <2>1. resets[r] \in ResetRows
    BY DEF AccessTypeOK
  <2> QED
    BY <2>1 DEF ResetsWithout, ResetRows
<1>2. QED
  BY <1>1 DEF CredentialsWithout

(* Withdrawing both, in any of the ways it is done, keeps the invariant.   *)
LEMMA WithdrawalStep ==
    ASSUME AccessTypeOK, ResetsInv, NEW statuses, "live" \in statuses,
           credentials' = CredentialsWithout(statuses), resets' = ResetsWithout({})
    PROVE  /\ ChangedOnce(resets, Resets)' /\ ExchangedOnce' /\ OneWayIn'
<1>1. ChangedOnce(resets, Resets)'
  BY Withdrawn DEF ResetsInv, ChangedOnce
<1>2. ExchangedOnce'
  BY Withdrawn DEF ResetsInv, ExchangedOnce
<1>3. LiveCredentials' = {} /\ OpenResets' = {}
  BY Withdrawn DEF LiveCredentials, OpenResets
<1>4. QED
  BY <1>1, <1>2, <1>3 DEF OneWayIn

(* Tokens that are withdrawn have changed nothing.                         *)
LEMMA TokensWithdrawn ==
    ASSUME AccessTypeOK, ResetsInv,
           tokens' = [t \in Tokens |-> IF tokens[t].status = "live"
                                       THEN [tokens[t] EXCEPT !.status = "consumed"] ELSE tokens[t]]
    PROVE  ChangedOnce(tokens, Tokens)'
  BY DEF AccessTypeOK, TokenRows, ResetsInv, ChangedOnce

(* Every action keeps what is handed out for one use.                      *)
LEMMA ResetsStep ==
    ASSUME AccessTypeOK, ResetsInv, NextAccess
    PROVE  ResetsInv'
<1>1. ASSUME UNCHANGED <<tokens, credentials, resets>> PROVE ResetsInv'
  BY <1>1 DEF ResetsInv, ChangedOnce, ExchangedOnce, OneWayIn, LiveCredentials, OpenResets
<1>2. ASSUME UNCHANGED tokens PROVE ChangedOnce(tokens, Tokens)'
  BY <1>2 DEF ResetsInv, ChangedOnce
<1>3. ASSUME UNCHANGED <<credentials, resets>>
      PROVE  ChangedOnce(resets, Resets)' /\ ExchangedOnce' /\ OneWayIn'
  BY <1>3 DEF ResetsInv, ChangedOnce, ExchangedOnce, OneWayIn, LiveCredentials, OpenResets
<1>4. CASE NextDesktop /\ UNCHANGED webVars
  BY <1>1, <1>4 DEF webVars
<1>5. CASE DeleteMember
  BY <1>5, WithdrawalStep, TokensWithdrawn DEF DeleteMember, SuspendAccess, ResetsInv
<1>6. CASE \E w \in Sessions : Logout(w)
  BY <1>1, <1>6 DEF Logout
<1>7. ASSUME NEW t \in Tokens, RequestPasswordReset(t) PROVE ResetsInv'
  <2>1. ChangedOnce(tokens, Tokens)'
    BY <1>7 DEF RequestPasswordReset, AccessTypeOK, TokenRows, ResetsInv, ChangedOnce
  <2> QED
    BY <1>3, <1>7, <2>1 DEF RequestPasswordReset, ResetsInv
<1>8. ASSUME NEW h \in Handlers,
             \/ ReadLogin(h) \/ ReadTarget(h) \/ ReadCredential(h) \/ Reactivate(h)
             \/ SyncAccount(h) \/ \E role \in {"member", "super_admin"} : SeedAccount(h, role)
             \/ EndSessions(h) \/ \E w \in Sessions : CreateSession(h, w)
             \/ \E r \in Resets : ReadReset(h, r)
             \/ \E t \in Tokens : ReadToken(h, t)
             \/ \E status \in {"active", "suspended"} : ReadMember(h, status)
      PROVE  ResetsInv'
  <2>1. UNCHANGED <<tokens, credentials, resets>>
    BY <1>8 DEF webVars, ReadLogin, ReadTarget, ReadCredential, Reactivate, SyncAccount,
                SeedAccount, EndSessions, CreateSession, ReadReset, ReadToken, ReadMember
  <2> QED
    BY <1>1, <2>1
<1>9. ASSUME NEW h \in Handlers, EndAccess(h) PROVE ResetsInv'
  BY <1>9, WithdrawalStep, TokensWithdrawn DEF EndAccess, ResetsInv
<1>10. ASSUME NEW h \in Handlers, Suspend(h) PROVE ResetsInv'
  BY <1>2, <1>10, WithdrawalStep DEF Suspend, SuspendAccess, ResetsInv
<1>11. ASSUME NEW h \in Handlers, ConfirmPasswordReset(h) PROVE ResetsInv'
  <2> DEFINE t == handlers[h].token
  <2>1. t \in Tokens
    BY <1>11 DEF AccessTypeOK, Locals, ConfirmPasswordReset, At
  <2>2. CASE ~CanConsume(t)
    BY <1>1, <1>11, <2>2 DEF ConfirmPasswordReset
  <2>3. CASE CanConsume(t)
    <3>1. tokens[t].changes = 0
      BY <2>1, <2>3 DEF CanConsume, ResetsInv, ChangedOnce
    <3>2. /\ tokens'[t].status = "consumed" /\ tokens'[t].changes = 1
          /\ \A i \in Tokens \ {t} : tokens'[i] = tokens[i]
      BY <1>11, <2>1, <2>3, <3>1 DEF ConfirmPasswordReset, AccessTypeOK, TokenRows
    <3>3. ChangedOnce(tokens, Tokens)'
      BY <2>1, <3>2 DEF ResetsInv, ChangedOnce
    <3> QED
      BY <1>3, <1>11, <3>3 DEF ConfirmPasswordReset, ResetsInv
  <2> QED
    BY <2>2, <2>3
<1>12. ASSUME NEW h \in Handlers, NEW c \in Credentials, IssueTemporaryPassword(h, c)
       PROVE  ResetsInv'
  <2>1. /\ credentials'[c] = "live" /\ credentials[c] = "none"
        /\ \A d \in Credentials \ {c} :
              credentials'[d] = IF credentials[d] = "live" THEN "revoked" ELSE credentials[d]
    <3> DEFINE withdrawn == CredentialsWithout({"live"})
    <3>1. withdrawn \in [Credentials -> {"none", "live", "used", "revoked"}]
      BY WithoutTypes
    <3>2. credentials' = [withdrawn EXCEPT ![c] = "live"] /\ credentials[c] = "none"
      BY <1>12 DEF IssueTemporaryPassword
    <3>3. \A d \in Credentials :
             withdrawn[d] = IF credentials[d] = "live" THEN "revoked" ELSE credentials[d]
      BY Withdrawn
    <3> HIDE DEF withdrawn
    <3> QED
      BY <3>1, <3>2, <3>3
  <2>2. resets' = ResetsWithout({})
    BY <1>12 DEF IssueTemporaryPassword
  <2>3. ChangedOnce(resets, Resets)'
    BY <2>2, Withdrawn DEF ResetsInv, ChangedOnce
  <2>4. ExchangedOnce'
    BY <2>1, <2>2, Withdrawn DEF ResetsInv, ExchangedOnce
  <2>5. LiveCredentials' = {c} /\ OpenResets' = {}
    BY <2>1, <2>2, Withdrawn DEF LiveCredentials, OpenResets
  <2> QED
    BY <1>2, <1>12, <2>3, <2>4, <2>5 DEF IssueTemporaryPassword, ResetsInv, OneWayIn
<1>13. ASSUME NEW h \in Handlers, NEW r \in Resets, ExchangeCredential(h, r)
       PROVE  ResetsInv'
  <2> DEFINE c == handlers[h].credential
  <2>1. c \in Credentials
    BY <1>13 DEF AccessTypeOK, Locals, ExchangeCredential, At
  <2>2. CASE ~CanExchange(c)
    BY <1>1, <1>13, <2>2 DEF ExchangeCredential
  <2>3. CASE CanExchange(c)
    <3>1. /\ credentials[c] = "live" /\ credentials'[c] = "used"
          /\ \A d \in Credentials \ {c} : credentials'[d] = credentials[d]
      BY <1>13, <2>1, <2>3 DEF ExchangeCredential, CanExchange, AccessTypeOK
    <3>2. /\ resets'[r].status = "open" /\ resets'[r].credential = c /\ resets'[r].changes = 0
          /\ \A q \in Resets \ {r} : resets'[q] = resets[q]
      BY <1>13, <2>3 DEF ExchangeCredential, AccessTypeOK
    <3>3. ChangedOnce(resets, Resets)'
      BY <3>2 DEF ResetsInv, ChangedOnce
    <3>4. \A q \in Resets : resets[q].credential # c
      BY <2>1, <3>1 DEF ResetsInv, ExchangedOnce
    <3>5. ExchangedOnce'
      BY <2>1, <3>1, <3>2, <3>4 DEF ResetsInv, ExchangedOnce
    (* It was the only way in, and the session takes its place. *)
    <3>6. LiveCredentials' = {} /\ OpenResets' = {r}
      BY <2>1, <3>1, <3>2 DEF ResetsInv, OneWayIn, LiveCredentials, OpenResets
    <3> QED
      BY <1>2, <1>13, <3>3, <3>5, <3>6 DEF ExchangeCredential, ResetsInv, OneWayIn
  <2> QED
    BY <2>2, <2>3
<1>14. ASSUME NEW h \in Handlers, NEW w \in Sessions, CompleteReset(h, w)
       PROVE  ResetsInv'
  <2> DEFINE r == handlers[h].reset
             others == ResetsWithout({r})
  <2>1. r \in Resets /\ others \in [Resets -> ResetRows]
    BY <1>14, WithoutTypes DEF AccessTypeOK, Locals, CompleteReset, At
  <2>2. CASE UNCHANGED <<credentials, resets>>
    BY <1>1, <1>14, <2>2 DEF CompleteReset
  <2>3. CASE ~UNCHANGED <<credentials, resets>>
    <3>1. /\ resets[r].status = "open"
          /\ credentials' = CredentialsWithout({"live", "used"})
          /\ resets' = [others EXCEPT ![r].status = "consumed", ![r].changes = @ + 1]
      BY <1>14, <2>3 DEF CompleteReset
    <3>2. /\ resets'[r].status = "consumed" /\ resets'[r].changes = others[r].changes + 1
          /\ resets'[r].credential = others[r].credential
          /\ \A q \in Resets \ {r} : resets'[q] = others[q]
      <4> DEFINE spent == [others[r] EXCEPT !.status = "consumed", !.changes = @ + 1]
      <4>1. resets' = [others EXCEPT ![r] = spent]
        BY <2>1, <3>1 DEF ResetRows
      <4>2. /\ spent.status = "consumed" /\ spent.changes = others[r].changes + 1
            /\ spent.credential = others[r].credential
        BY <2>1 DEF ResetRows
      <4> QED
        BY <2>1, <4>1, <4>2
    <3>3. \A q \in Resets :
             /\ others[q].credential = resets[q].credential
             /\ others[q].changes = resets[q].changes
             /\ others[q].status = IF resets[q].status = "open" /\ q # r
                                   THEN "revoked" ELSE resets[q].status
      BY Withdrawn
    <3> HIDE DEF others
    <3>4. others[r].changes = 0
      BY <2>1, <3>1, <3>3 DEF ResetsInv, ChangedOnce
    <3>5. ChangedOnce(resets, Resets)'
      BY <2>1, <3>2, <3>4, <3>3 DEF ResetsInv, ChangedOnce
    <3>6. \A q \in Resets : resets'[q].credential = resets[q].credential
      BY <2>1, <3>2, <3>3
    <3>7. ExchangedOnce'
      <4>1. \A c \in Credentials :
               credentials'[c] = IF credentials[c] \in {"live", "used"} THEN "revoked"
                                 ELSE credentials[c]
        BY <3>1, Withdrawn
      <4> QED
        BY <3>6, <4>1 DEF ResetsInv, ExchangedOnce
    <3>8. LiveCredentials' = {} /\ OpenResets' = {}
      <4>1. LiveCredentials' = {}
        BY <3>1, Withdrawn DEF LiveCredentials
      <4>2. OpenResets' = {}
        BY <2>1, <3>2, <3>3 DEF OpenResets
      <4> QED
        BY <4>1, <4>2
    <3> QED
      BY <1>2, <1>14, <3>5, <3>7, <3>8 DEF CompleteReset, ResetsInv, OneWayIn
  <2> QED
    BY <2>2, <2>3
<1>15. QED
  BY <1>4, <1>5, <1>6, <1>7, <1>8, <1>9, <1>10, <1>11, <1>12, <1>13, <1>14 DEF NextAccess

(* ResetsAreSpentOnce for every number of requests, tokens, temporary      *)
(* passwords and restricted sessions.                                      *)
THEOREM ResetsSpentOnce == SpecAccess => []ResetsAreSpentOnce
<1>1. InitAccess => ResetsInv
  <2> SUFFICES ASSUME InitAccess PROVE ResetsInv
    OBVIOUS
  <2>1. ChangedOnce(tokens, Tokens) /\ ChangedOnce(resets, Resets)
    BY DEF InitAccess, ChangedOnce
  <2>2. ExchangedOnce
    BY AccountsAssumption DEF InitAccess, ExchangedOnce
  <2>3. LiveCredentials = {} /\ OpenResets = {}
    BY DEF InitAccess, LiveCredentials, OpenResets
  <2> QED
    BY <2>1, <2>2, <2>3 DEF ResetsInv, OneWayIn
<1>2. AccessTypeOK /\ ResetsInv /\ [NextAccess]_accessVars => ResetsInv'
  <2>1. ASSUME ResetsInv, UNCHANGED accessVars PROVE ResetsInv'
    BY <2>1 DEF accessVars, ResetsInv, ChangedOnce, ExchangedOnce, OneWayIn,
                LiveCredentials, OpenResets
  <2> QED
    BY <2>1, ResetsStep
<1>3. AccessTypeOK /\ ResetsInv => ResetsAreSpentOnce
  BY ResetsInvSuffices
<1>4. QED
  BY <1>1, <1>2, <1>3, AccessTypes, PTL DEF SpecAccess
-----------------------------------------------------------------------------
(* Keys, devices and desktop sessions, under all that happens to the       *)
(* account.  Most actions revoke some rows or none, whoever acts           *)
(* (Revocation); six let a request hold what it has read (HoldingStep).    *)
(* So each invariant has to be shown to be kept by a revocation, once, and *)
(* by those six.                                                           *)

(* Requests in these places hold a device or a session they have read.     *)
HoldingSteps == {"claiming", "checking", "issuing", "rotating"}

(* A step that revokes some devices and sessions, perhaps none, and makes  *)
(* no request hold anything: what most actions do to these rows.           *)
Revocation(F, S) ==
    /\ devices' = DevicesWithout(F) /\ desktops' = DesktopsWithout(S)
    /\ \A k \in Keys : /\ keys'[k] = "active" => keys[k] # "revoked"
                       /\ keys'[k] = "none" => keys[k] = "none"
    /\ \A s \in Desktops :
          /\ desktops[s].status = "live" /\ desktops[s].device \in F
          /\ devices[desktops[s].device].key = desktops[s].key
          /\ keys'[desktops[s].key] = "active"
          => s \in S
    /\ \A o \in Handlers : handlers'[o].step \in HoldingSteps => handlers'[o] = handlers[o]

(* Withdrawing nothing changes nothing.                                    *)
LEMMA NothingRevoked ==
    ASSUME AccessTypeOK
    PROVE  DevicesWithout({}) = devices /\ DesktopsWithout({}) = desktops
  BY DEF AccessTypeOK, DevicesWithout, DesktopsWithout

(* A request that goes elsewhere holds nothing it did not hold.            *)
LEMMA HoldsNothing ==
    ASSUME handlers \in [Handlers -> Locals], NEW h \in Handlers, NEW next,
           GoTo(h, next), next.step \notin HoldingSteps
    PROVE  \A o \in Handlers : handlers'[o].step \in HoldingSteps => handlers'[o] = handlers[o]
  BY DEF GoTo

(* Requests about the account and its web sessions revoke all or nothing.  *)
LEMMA WebStepsRevoke ==
    ASSUME AccessTypeOK, NEW h \in Handlers,
           \/ ReadLogin(h) \/ ReadTarget(h) \/ ReadCredential(h) \/ ConfirmPasswordReset(h)
           \/ SyncAccount(h) \/ EndAccess(h) \/ EndSessions(h) \/ Suspend(h) \/ Reactivate(h)
           \/ \E role \in {"member", "super_admin"} : SeedAccount(h, role)
           \/ \E w \in Sessions : CreateSession(h, w) \/ CompleteReset(h, w)
           \/ \E r \in Resets : ExchangeCredential(h, r) \/ ReadReset(h, r)
           \/ \E t \in Tokens : ReadToken(h, t)
           \/ \E c \in Credentials : IssueTemporaryPassword(h, c)
           \/ \E status \in {"active", "suspended"} : ReadMember(h, status)
    PROVE  \E F, S : Revocation(F, S)
<1> DEFINE Same == \A o \in Handlers : handlers'[o].step \in HoldingSteps => handlers'[o] = handlers[o]
<1>1. NoHandler.step \notin HoldingSteps /\ handlers \in [Handlers -> Locals]
  BY DEF NoHandler, HoldingSteps, AccessTypeOK
<1>2. Finish(h) => Same
  BY <1>1, HoldsNothing DEF Finish
<1>3. ASSUME UNCHANGED <<keys, devices>>, Same,
             UNCHANGED desktops \/ desktops' = DesktopsWithout(Desktops)
      PROVE  \E F, S : Revocation(F, S)
  <2>1. PICK S \in {{}, Desktops} : desktops' = DesktopsWithout(S)
    BY <1>3, NothingRevoked
  <2>2. Revocation({}, S)
    BY <1>3, <2>1, NothingRevoked DEF Revocation
  <2> QED
    BY <2>2
<1>4. CASE ReadLogin(h) \/ ReadTarget(h) \/ SyncAccount(h)
           \/ \E role \in {"member", "super_admin"} : SeedAccount(h, role)
  <2>1. Same
    BY <1>1, <1>4, HoldsNothing DEF ReadLogin, ReadTarget, SyncAccount, SeedAccount,
       HoldingSteps
  <2> QED
    BY <1>3, <1>4, <2>1 DEF ReadLogin, ReadTarget, SyncAccount, SeedAccount, desktopVars
<1>5. CASE \/ \E r \in Resets : ReadReset(h, r)
           \/ \E t \in Tokens : ReadToken(h, t)
           \/ \E status \in {"active", "suspended"} : ReadMember(h, status)
  <2>1. Same
    BY <1>1, <1>5, HoldsNothing DEF ReadReset, ReadToken, ReadMember, HoldingSteps
  <2> QED
    BY <1>3, <1>5, <2>1 DEF ReadReset, ReadToken, ReadMember, desktopVars
<1>6. CASE ReadCredential(h)
  <2>1. [handlers[h] EXCEPT !.step = "completing"].step \notin HoldingSteps
    BY <1>1, StepTaken DEF HoldingSteps
  <2>2. Same
    BY <1>1, <1>2, <1>6, <2>1, HoldsNothing DEF ReadCredential
  <2> QED
    BY <1>3, <1>6, <2>2 DEF ReadCredential, desktopVars
<1>7. CASE \/ ConfirmPasswordReset(h) \/ EndAccess(h) \/ EndSessions(h) \/ Reactivate(h)
  BY <1>2, <1>3, <1>7 DEF ConfirmPasswordReset, EndAccess, EndSessions, Reactivate,
                          EndAllSessions, desktopVars
<1>8. CASE \/ \E w \in Sessions : CreateSession(h, w) \/ CompleteReset(h, w)
           \/ \E r \in Resets : ExchangeCredential(h, r)
           \/ \E c \in Credentials : IssueTemporaryPassword(h, c)
  BY <1>2, <1>3, <1>8 DEF CreateSession, CompleteReset, ExchangeCredential,
                          IssueTemporaryPassword, EndAllSessions, desktopVars
<1>9. CASE Suspend(h)
  <2>1. Revocation(Devices, Desktops)
    BY <1>2, <1>9 DEF Suspend, SuspendAccess, EndAllSessions, Revocation
  <2> QED
    BY <2>1
<1>10. QED
  BY <1>4, <1>5, <1>6, <1>7, <1>8, <1>9

(* What is left: the steps by which a request comes to hold something, or  *)
(* passes it on.                                                           *)
HoldingStep ==
    \E h \in Handlers :
       \/ ClaimDevice(h) \/ CheckKey(h) \/ PersistSession(h)
       \/ \E k \in Keys, f \in Devices : ReadLicense(h, k, f)
       \/ \E s \in Desktops : IssueSession(h, s) \/ ReadSession(h, s)

(* Every action does one or the other.                                     *)
LEMMA RevokesOrHolds ==
    ASSUME AccessTypeOK, NextAccess
    PROVE  HoldingStep \/ \E F, S : Revocation(F, S)
<1>1. NoHandler.step \notin HoldingSteps /\ handlers \in [Handlers -> Locals]
  BY DEF NoHandler, HoldingSteps, AccessTypeOK
<1>2. ASSUME NEW k \in Keys, CreateKey(k) PROVE Revocation({}, {})
  BY <1>2, NothingRevoked DEF CreateKey, Revocation, AccessTypeOK
<1>3. ASSUME NEW k \in Keys, RevokeKey(k) PROVE Revocation(ActiveDevices(k), {})
  BY <1>3, NothingRevoked DEF RevokeKey, Revocation, AccessTypeOK, ActiveDevices
<1>4. ASSUME NEW f \in Devices, RevokeDevice(f)
      PROVE  Revocation({f}, {s \in Desktops : desktops[s].device = f})
  BY <1>4 DEF RevokeDevice, Revocation
<1>5. ASSUME NEW h \in Handlers, ListKeys(h) \/ Abandon(h) PROVE Revocation({}, {})
  BY <1>1, <1>5, HoldsNothing, NothingRevoked DEF ListKeys, Abandon, Finish, Revocation,
     HoldingSteps
<1>6. ASSUME NEW h \in Handlers, NEW s \in Desktops, RefuseSession(h,
              s) PROVE Revocation({}, {})
  BY <1>1, <1>6, HoldsNothing, NothingRevoked DEF RefuseSession, Revocation, HoldingSteps
<1>7. ASSUME NEW h \in Handlers, RevokeStored(h) PROVE \E S : Revocation({}, S)
  <2>1. PICK S \in {{}, {handlers[h].session}} : desktops' = DesktopsWithout(S)
    BY <1>7, NothingRevoked DEF RevokeStored
  <2>2. Revocation({}, S)
    BY <1>1, <1>7, <2>1, HoldsNothing, NothingRevoked DEF RevokeStored, Finish, Revocation
  <2> QED
    BY <2>2
<1>8. ASSUME NEW h \in Handlers, NEW k \in Keys, ReplaceKeys(h, k)
      PROVE  \E F, S : Revocation(F, S)
  <2> DEFINE previous == handlers[h].previous
             F == {f \in Devices : devices[f].key \in previous}
             S == {s \in Desktops : desktops[s].key \in previous}
  <2>1. /\ devices' = DevicesWithout(F) /\ desktops' = DesktopsWithout(S)
        /\ keys[k] = "none"
        /\ keys' = [i \in Keys |-> IF i = k THEN "active"
                                   ELSE IF i \in previous THEN "revoked" ELSE keys[i]]
    BY <1>8 DEF ReplaceKeys
  <2>2. \A o \in Handlers : handlers'[o].step \in HoldingSteps => handlers'[o] = handlers[o]
    BY <1>1, <1>8, HoldsNothing DEF ReplaceKeys, Finish
  <2>3. Revocation(F, S)
    BY <2>1, <2>2 DEF Revocation
  <2> QED
    BY <2>3
<1>9. CASE DeleteMember
  <2>1. Revocation(Devices, Desktops)
    BY <1>9 DEF DeleteMember, SuspendAccess, EndAllSessions, Revocation, AccessTypeOK
  <2> QED
    BY <2>1
<1>10. CASE \/ \E w \in Sessions : Logout(w)
            \/ \E t \in Tokens : RequestPasswordReset(t)
  <2>1. Revocation({}, {})
    BY <1>10, NothingRevoked DEF Logout, RequestPasswordReset, Revocation, desktopVars
  <2> QED
    BY <2>1
<1>11. CASE NextDesktop
  BY <1>2, <1>3, <1>4, <1>5, <1>6, <1>7, <1>8, <1>11 DEF NextDesktop, HoldingStep
<1>12. QED
  BY <1>9, <1>10, <1>11, WebStepsRevoke DEF NextAccess

(* What a withdrawal of devices or sessions does to one row.               *)
LEMMA Revoked ==
    ASSUME AccessTypeOK
    PROVE  /\ \A F : \A f \in Devices :
                 /\ DevicesWithout(F)[f].key = devices[f].key
                 /\ DevicesWithout(F)[f].crowded = devices[f].crowded
                 /\ devices[f].contested => DevicesWithout(F)[f].contested
                 /\ IF f \in F /\ devices[f].status = "active"
                    THEN /\ DevicesWithout(F)[f].status = "revoked"
                         /\ Activating(f) => DevicesWithout(F)[f].contested
                         /\ \A s \in Desktops : desktops[s].device = f /\ Refreshing(s)
                               => DevicesWithout(F)[f].contested
                    ELSE DevicesWithout(F)[f].status = devices[f].status
           /\ \A S : \A s \in Desktops :
                 /\ DesktopsWithout(S)[s].key = desktops[s].key
                 /\ DesktopsWithout(S)[s].device = desktops[s].device
                 /\ desktops[s].contested => DesktopsWithout(S)[s].contested
                 /\ IF s \in S /\ desktops[s].status = "live"
                    THEN /\ DesktopsWithout(S)[s].status = "revoked"
                         /\ Refreshing(s) => DesktopsWithout(S)[s].contested
                    ELSE DesktopsWithout(S)[s] = desktops[s]
<1>1. ASSUME NEW F, NEW f \in Devices
      PROVE  /\ DevicesWithout(F)[f].key = devices[f].key
             /\ DevicesWithout(F)[f].crowded = devices[f].crowded
             /\ devices[f].contested => DevicesWithout(F)[f].contested
             /\ IF f \in F /\ devices[f].status = "active"
                THEN /\ DevicesWithout(F)[f].status = "revoked"
                     /\ Activating(f) => DevicesWithout(F)[f].contested
                     /\ \A s \in Desktops : desktops[s].device = f /\ Refreshing(s)
                           => DevicesWithout(F)[f].contested
                ELSE DevicesWithout(F)[f].status = devices[f].status
  <2>1. devices[f] \in DeviceRows
    BY DEF AccessTypeOK
  <2>2. CASE f \in F /\ devices[f].status = "active"
    <3> DEFINE used == \E s \in Desktops : desktops[s].device = f /\ Refreshing(s)
    <3>1. DevicesWithout(F)[f] =
             [devices[f] EXCEPT !.status = "revoked", !.contested = @ \/ Activating(f) \/ used]
      BY <2>2 DEF DevicesWithout
    <3>2. DevicesWithout(F)[f].contested = (devices[f].contested \/ Activating(f) \/ used)
      BY <2>1, <3>1 DEF DeviceRows
    <3>3. /\ DevicesWithout(F)[f].key = devices[f].key
          /\ DevicesWithout(F)[f].crowded = devices[f].crowded
          /\ DevicesWithout(F)[f].status = "revoked"
      BY <2>1, <3>1 DEF DeviceRows
    <3> QED
      BY <2>2, <3>2, <3>3
  <2>3. CASE ~(f \in F /\ devices[f].status = "active")
    BY <2>3 DEF DevicesWithout
  <2> QED
    BY <2>2, <2>3
<1>2. ASSUME NEW S, NEW s \in Desktops
      PROVE  /\ DesktopsWithout(S)[s].key = desktops[s].key
             /\ DesktopsWithout(S)[s].device = desktops[s].device
             /\ desktops[s].contested => DesktopsWithout(S)[s].contested
             /\ IF s \in S /\ desktops[s].status = "live"
                THEN /\ DesktopsWithout(S)[s].status = "revoked"
                     /\ Refreshing(s) => DesktopsWithout(S)[s].contested
                ELSE DesktopsWithout(S)[s] = desktops[s]
  <2>1. desktops[s] \in DesktopRows
    BY DEF AccessTypeOK
  <2>2. CASE s \in S /\ desktops[s].status = "live"
    <3>1. DesktopsWithout(S)[s] =
             [desktops[s] EXCEPT !.status = "revoked", !.revoked = TRUE,
                                 !.contested = @ \/ Refreshing(s)]
      BY <2>2 DEF DesktopsWithout
    <3> QED
      BY <2>1, <2>2, <3>1 DEF DesktopRows
  <2>3. CASE ~(s \in S /\ desktops[s].status = "live")
    BY <2>3 DEF DesktopsWithout
  <2> QED
    BY <2>2, <2>3
<1>3. QED
  BY <1>1, <1>2

-----------------------------------------------------------------------------
(* The devices of a key *)

Uncrowded(k) == {f \in ActiveDevices(k) : ~devices[f].crowded}
Claimed(k) == \E h \in Handlers : At(h, "claiming") /\ handlers[h].key = k

(* A key's devices that no overlap accounts for leave room for the one     *)
(* that is being claimed.                                                  *)
LimitInv ==
    \A k \in Keys : Cardinality(Uncrowded(k)) + (IF Claimed(k) THEN 1 ELSE 0) <= DeviceLimit

(* The devices of a key can be counted.                                    *)
LEMMA DeviceSets ==
    ASSUME NEW k
    PROVE  /\ IsFiniteSet(ActiveDevices(k)) /\ Cardinality(ActiveDevices(k)) \in Nat
           /\ IsFiniteSet(Uncrowded(k)) /\ Cardinality(Uncrowded(k)) \in Nat
<1>1. IsFiniteSet(Devices)
  BY DesktopAssumption
<1>2. ActiveDevices(k) \in SUBSET Devices /\ Uncrowded(k) \in SUBSET Devices
  BY DEF ActiveDevices, Uncrowded
<1>3. QED
  BY <1>1, <1>2, FS_Subset, FS_CardinalityType

(* A step by which a key gets no device keeps the room that is left.       *)
LEMMA LimitKept ==
    ASSUME LimitInv,
           \A k \in Keys : Uncrowded(k)' \subseteq Uncrowded(k) /\ (Claimed(k)' => Claimed(k))
    PROVE  LimitInv'
<1> SUFFICES ASSUME NEW k \in Keys
             PROVE  Cardinality(Uncrowded(k)') + (IF Claimed(k)' THEN 1 ELSE 0) <= DeviceLimit
  BY DEF LimitInv
<1>1. IsFiniteSet(Uncrowded(k)) /\ Cardinality(Uncrowded(k)) \in Nat
  BY DeviceSets
<1>2. Uncrowded(k)' \in SUBSET Uncrowded(k)
  OBVIOUS
<1>3. Cardinality(Uncrowded(k)') <= Cardinality(Uncrowded(k)) /\ Cardinality(Uncrowded(k)') \in Nat
  BY <1>1, <1>2, FS_Subset, FS_CardinalityType
<1>4. QED
  BY <1>1, <1>3, DesktopAssumption DEF LimitInv

(* Steps that give no device to a key.                                     *)
LEMMA HoldersKept ==
    ASSUME \A o \in Handlers : handlers'[o].step = "claiming" => handlers'[o] = handlers[o],
           NEW k
    PROVE  Claimed(k)' => Claimed(k)
  BY DEF Claimed, At

(* What a request has read goes with it.                                   *)
LEMMA ReadsKept ==
    /\ \A next \in Locals : next.step \in {"claiming", "checking", "issuing"}
          => next.key \in Keys /\ next.device \in Devices
    /\ \A next \in Locals : next.step = "rotating" => next.session \in Desktops
    /\ \A next \in Locals, step \in {"checking", "issuing"} :
          next.step \in {"claiming", "checking"}
          => /\ [next EXCEPT !.step = step].step = step
             /\ [next EXCEPT !.step = step].key = next.key
             /\ [next EXCEPT !.step = step].device = next.device
<1>1. ASSUME NEW next \in Locals, next.step \in {"claiming", "checking", "issuing"}
      PROVE  next \in [step : {"claiming", "checking", "issuing"}, key : Keys, device : Devices]
  BY <1>1 DEF Locals
<1>2. \A next \in Locals : next.step = "rotating" => next.session \in Desktops
  BY DEF Locals
<1>3. QED
  BY <1>1, <1>2

(* Every action leaves the room: an activation takes what it was left, and *)
(* one beside another marks every device of the key.                       *)
LEMMA LimitStep ==
    ASSUME AccessTypeOK, LimitInv, NextAccess
    PROVE  LimitInv'
<1>1. handlers \in [Handlers -> Locals] /\ NoHandler.step # "claiming"
  BY DEF AccessTypeOK, NoHandler
<1>2. ASSUME UNCHANGED devices, \A k \in Keys : Claimed(k)' => Claimed(k) PROVE LimitInv'
  BY <1>2, LimitKept DEF Uncrowded, ActiveDevices
<1>3. ASSUME NEW F, NEW S, Revocation(F, S) PROVE LimitInv'
  <2>1. \A k \in Keys : Claimed(k)' => Claimed(k)
    BY <1>3, HoldersKept DEF Revocation, HoldingSteps
  <2>2. devices' = DevicesWithout(F)
    BY <1>3 DEF Revocation
  <2>3. \A f \in Devices : /\ devices'[f].key = devices[f].key
                           /\ devices'[f].crowded = devices[f].crowded
                           /\ devices'[f].status = "active" => devices[f].status = "active"
    BY <2>2, Revoked
  <2>4. \A k \in Keys : Uncrowded(k)' \subseteq Uncrowded(k)
    BY <2>3 DEF Uncrowded, ActiveDevices
  <2> QED
    BY <2>1, <2>4, LimitKept
<1>4. ASSUME NEW h \in Handlers, CheckKey(h) PROVE LimitInv'
  <2>1. handlers[h] \in Locals /\ handlers[h].step = "checking"
    BY <1>1, <1>4 DEF CheckKey, At
  <2>2. [handlers[h] EXCEPT !.step = "issuing"].step # "claiming"
    BY <2>1, ReadsKept
  <2>3. handlers' \in {[handlers EXCEPT ![h] = [handlers[h] EXCEPT !.step = "issuing"]],
                       [handlers EXCEPT ![h] = NoHandler]}
    BY <1>4 DEF CheckKey, GoTo, Finish
  <2>4. \A o \in Handlers : handlers'[o].step = "claiming" => handlers'[o] = handlers[o]
    BY <1>1, <2>2, <2>3
  <2> QED
    BY <1>2, <1>4, <2>4, HoldersKept DEF CheckKey
<1>5. ASSUME NEW h \in Handlers,
             PersistSession(h) \/ \E s \in Desktops : IssueSession(h, s) \/ ReadSession(h, s)
      PROVE  LimitInv'
  <2>1. \A o \in Handlers : handlers'[o].step = "claiming" => handlers'[o] = handlers[o]
    BY <1>1, <1>5 DEF PersistSession, IssueSession, ReadSession, GoTo, Finish
  <2> QED
    BY <1>2, <1>5, <2>1, HoldersKept DEF PersistSession, IssueSession, ReadSession
<1>6. ASSUME NEW h \in Handlers, NEW k \in Keys, NEW f \in Devices, ReadLicense(h, k, f)
      PROVE  LimitInv'
  <2>1. handlers' = [handlers EXCEPT ![h] =
               [step |-> IF f \in ActiveDevices(k) THEN "checking" ELSE "claiming",
                key |-> k, device |-> f]]
    BY <1>6 DEF ReadLicense, GoTo
  <2>2. CASE f \in ActiveDevices(k)
    <3>1. \A o \in Handlers : handlers'[o].step = "claiming" => handlers'[o] = handlers[o]
      BY <1>1, <2>1, <2>2
    <3> QED
      BY <1>2, <1>6, <3>1, HoldersKept DEF ReadLicense
  <2>3. CASE f \notin ActiveDevices(k)
    <3>1. \A i \in Keys \ {k} : Claimed(i)' => Claimed(i)
      BY <1>1, <2>1 DEF Claimed, At
    <3>2. \A i \in Keys : Uncrowded(i)' = Uncrowded(i)
      BY <1>6 DEF ReadLicense, Uncrowded, ActiveDevices
    (* There was a slot. *)
    <3>3. Cardinality(Uncrowded(k)) + 1 <= DeviceLimit
      <4>1. Cardinality(ActiveDevices(k)) < DeviceLimit
        BY <1>6, <2>3 DEF ReadLicense, HasSlot
      <4>2. Uncrowded(k) \in SUBSET ActiveDevices(k)
        BY DEF Uncrowded
      <4>3. Cardinality(Uncrowded(k)) <= Cardinality(ActiveDevices(k))
        BY <4>2, DeviceSets, FS_Subset
      <4> QED
        BY <4>1, <4>3, DeviceSets, DesktopAssumption
    <3>4. \A i \in Keys : Cardinality(Uncrowded(i)) \in Nat
      BY DeviceSets
    <3> QED
      BY <3>1, <3>2, <3>3, <3>4, DesktopAssumption DEF LimitInv
  <2> QED
    BY <2>2, <2>3
<1>7. ASSUME NEW h \in Handlers, ClaimDevice(h) PROVE LimitInv'
  <2>1. PICK k \in Keys, f \in Devices :
           /\ handlers[h] \in Locals /\ handlers[h].step = "claiming"
           /\ handlers[h].key = k /\ handlers[h].device = f
    BY <1>1, <1>7, ReadsKept DEF ClaimDevice, At
  <2>2. PICK crowded \in BOOLEAN :
           /\ crowded <=> \E o \in Handlers \ {h} : At(o, "claiming") /\ handlers[o].key = k
           /\ devices' = [d \in Devices |->
              IF d = f THEN [devices[f] EXCEPT !.status = "active", !.key = k, !.crowded = crowded]
              ELSE IF crowded /\ devices[d].key = k
              THEN [devices[d] EXCEPT !.crowded = TRUE] ELSE devices[d]]
    <3> DEFINE others == \E o \in Handlers \ {h} : At(o, "claiming") /\ handlers[o].key = k
    <3>1. devices' = [d \in Devices |->
              IF d = f THEN [devices[f] EXCEPT !.status = "active", !.key = k, !.crowded = others]
              ELSE IF others /\ devices[d].key = k
              THEN [devices[d] EXCEPT !.crowded = TRUE] ELSE devices[d]]
      BY <1>7, <2>1 DEF ClaimDevice
    <3>2. others \in BOOLEAN
      OBVIOUS
    <3> HIDE DEF others
    <3>3. \E crowded \in BOOLEAN :
           /\ crowded <=> others
           /\ devices' = [d \in Devices |->
              IF d = f THEN [devices[f] EXCEPT !.status = "active", !.key = k, !.crowded = crowded]
              ELSE IF crowded /\ devices[d].key = k
              THEN [devices[d] EXCEPT !.crowded = TRUE] ELSE devices[d]]
      BY <3>1, <3>2
    <3> QED
      BY <3>3 DEF others
  <2>3. /\ devices' = [d \in Devices |->
              IF d = f THEN [devices[f] EXCEPT !.status = "active", !.key = k, !.crowded = crowded]
              ELSE IF crowded /\ devices[d].key = k
              THEN [devices[d] EXCEPT !.crowded = TRUE] ELSE devices[d]]
        /\ handlers' = [handlers EXCEPT ![h] = [handlers[h] EXCEPT !.step = "checking"]]
    BY <1>7, <2>2 DEF ClaimDevice, GoTo
  <2>4. handlers'[h].step = "checking" /\ \A o \in Handlers \ {h} : handlers'[o] = handlers[o]
    BY <1>1, <2>1, <2>3, ReadsKept
  <2>5. /\ devices'[f].status = "active" /\ devices'[f].key = k /\ devices'[f].crowded = crowded
        /\ \A d \in Devices \ {f} :
              /\ devices'[d].status = devices[d].status /\ devices'[d].key = devices[d].key
              /\ devices'[d].crowded = (devices[d].crowded \/ (crowded /\ devices[d].key = k))
    <3>1. \A d \in Devices : devices[d] \in DeviceRows
      BY DEF AccessTypeOK
    <3>2. devices'[f] = [devices[f] EXCEPT !.status = "active", !.key = k, !.crowded = crowded]
      BY <2>3
    <3>3. /\ devices'[f].status = "active" /\ devices'[f].key = k
          /\ devices'[f].crowded = crowded
      BY <3>1, <3>2 DEF DeviceRows
    <3>4. \A d \in Devices \ {f} :
             devices'[d] = IF crowded /\ devices[d].key = k
                           THEN [devices[d] EXCEPT !.crowded = TRUE] ELSE devices[d]
      BY <2>3
    <3>5. ASSUME NEW d \in Devices \ {f}
          PROVE  /\ devices'[d].status = devices[d].status /\ devices'[d].key = devices[d].key
                 /\ devices'[d].crowded = (devices[d].crowded \/ (crowded /\ devices[d].key = k))
      BY <3>1, <3>4 DEF DeviceRows
    <3> QED
      BY <3>3, <3>5
  <2>6. Claimed(k)' <=> crowded
    BY <2>2, <2>1, <2>4 DEF Claimed, At
  <2>7. \A i \in Keys \ {k} : Uncrowded(i)' \subseteq Uncrowded(i) /\ (Claimed(i)' => Claimed(i))
    <3>1. \A i \in Keys : Claimed(i)' => Claimed(i)
      BY <2>4 DEF Claimed, At
    <3>2. \A i \in Keys \ {k} : Uncrowded(i)' \subseteq Uncrowded(i)
      BY <2>5 DEF Uncrowded, ActiveDevices
    <3> QED
      BY <3>1, <3>2
  <2>8. Cardinality(Uncrowded(k)') + (IF Claimed(k)' THEN 1 ELSE 0) <= DeviceLimit
    (* The key's devices are all marked. *)
    <3>1. CASE crowded
      <4>1. Uncrowded(k)' = {}
        BY <2>5, <3>1 DEF Uncrowded, ActiveDevices
      <4> QED
        BY <2>6, <3>1, <4>1, FS_EmptySet, DesktopAssumption
    (* It takes the room that was left for it. *)
    <3>2. CASE ~crowded
      <4>1. Uncrowded(k)' \in SUBSET (Uncrowded(k) \cup {f})
        BY <2>5, <3>2 DEF Uncrowded, ActiveDevices
      <4>2. /\ IsFiniteSet(Uncrowded(k) \cup {f})
            /\ Cardinality(Uncrowded(k) \cup {f}) <= Cardinality(Uncrowded(k)) + 1
        <5>1. IsFiniteSet(Uncrowded(k)) /\ Cardinality(Uncrowded(k)) \in Nat
          BY DeviceSets
        <5>2. /\ IsFiniteSet(Uncrowded(k) \cup {f})
              /\ Cardinality(Uncrowded(k) \cup {f}) =
                    IF f \in Uncrowded(k) THEN Cardinality(Uncrowded(k))
                    ELSE Cardinality(Uncrowded(k)) + 1
          BY <5>1, FS_AddElement, Zenon
        <5> QED
          BY <5>1, <5>2
      <4>3. /\ Cardinality(Uncrowded(k)') <= Cardinality(Uncrowded(k) \cup {f})
            /\ Cardinality(Uncrowded(k)') \in Nat /\ Cardinality(Uncrowded(k) \cup {f}) \in Nat
        BY <4>1, <4>2, FS_Subset, FS_CardinalityType
      <4>4. Claimed(k)
        BY <2>1 DEF Claimed, At
      <4>5. Cardinality(Uncrowded(k)) + 1 <= DeviceLimit
        BY <2>1, <4>4 DEF LimitInv
      <4> QED
        BY <2>6, <3>2, <4>2, <4>3, <4>5, DeviceSets, DesktopAssumption
    <3> QED
      BY <3>1, <3>2
  <2>9. ASSUME NEW i \in Keys \ {k}
        PROVE  Cardinality(Uncrowded(i)') + (IF Claimed(i)' THEN 1 ELSE 0) <= DeviceLimit
    <3>1. IsFiniteSet(Uncrowded(i)) /\ Uncrowded(i)' \in SUBSET Uncrowded(i)
      BY <2>7, DeviceSets
    <3>2. /\ Cardinality(Uncrowded(i)') <= Cardinality(Uncrowded(i))
          /\ Cardinality(Uncrowded(i)') \in Nat /\ Cardinality(Uncrowded(i)) \in Nat
      BY <3>1, FS_Subset, FS_CardinalityType
    <3> QED
      BY <2>7, <3>2, DesktopAssumption DEF LimitInv
  <2> QED
    BY <2>8, <2>9 DEF LimitInv
<1>8. QED
  BY <1>3, <1>4, <1>5, <1>6, <1>7, RevokesOrHolds DEF HoldingStep

(* DevicesWithinLimit for every limit and every number of requests: no     *)
(* more than two activations at a time can give a key a device too many.   *)
THEOREM LimitIsKept == SpecAccess => []DevicesWithinLimit
<1>1. InitAccess => LimitInv
  <2> SUFFICES ASSUME InitAccess, NEW k \in Keys
               PROVE  Cardinality(Uncrowded(k)) + (IF Claimed(k) THEN 1 ELSE 0) <= DeviceLimit
    BY DEF LimitInv
  <2>1. Uncrowded(k) = {}
    BY DEF InitAccess, InitDesktop, NoDevice, Uncrowded, ActiveDevices
  <2>2. ~Claimed(k)
    BY DEF InitAccess, NoHandler, Claimed, At
  <2> QED
    BY <2>1, <2>2, FS_EmptySet, DesktopAssumption
<1>2. AccessTypeOK /\ LimitInv /\ [NextAccess]_accessVars => LimitInv'
  <2>1. ASSUME LimitInv, UNCHANGED accessVars PROVE LimitInv'
    BY <2>1 DEF accessVars, LimitInv, Uncrowded, ActiveDevices, Claimed, At
  <2> QED
    BY <2>1, LimitStep
<1>3. LimitInv => DevicesWithinLimit
  <2> SUFFICES ASSUME LimitInv, NEW k \in Keys, Cardinality(ActiveDevices(k)) > DeviceLimit,
                      \A f \in ActiveDevices(k) : ~devices[f].crowded
               PROVE  FALSE
    BY DEF DevicesWithinLimit
  <2>1. Uncrowded(k) = ActiveDevices(k)
    BY DEF Uncrowded
  <2> QED
    BY <2>1, DeviceSets, DesktopAssumption DEF LimitInv
<1>4. QED
  BY <1>1, <1>2, <1>3, AccessTypes, PTL DEF SpecAccess

-----------------------------------------------------------------------------
(* What was revoked *)

(* Rows and requests refer to keys that were created, refreshes to         *)
(* sessions that were.                                                     *)
Referred ==
    /\ \A s \in Desktops : desktops[s].status = "live" =>
          desktops[s].key \in Keys /\ desktops[s].device \in Devices
          /\ keys[desktops[s].key] # "none"
    /\ \A h \in Handlers :
          /\ handlers[h].step \in {"claiming", "checking", "issuing"} =>
                keys[handlers[h].key] # "none"
          /\ handlers[h].step = "rotating" =>
                LET s == desktops[handlers[h].session] IN
                s.status # "none" /\ s.key \in Keys /\ s.device \in Devices
                /\ keys[s.key] # "none"

(* A refresh that holds a revoked session contests its revocation.         *)
RefreshesContest ==
    \A h \in Handlers : handlers[h].step = "rotating" =>
        LET s == desktops[handlers[h].session] IN s.revoked => s.contested

(* The device is in use, if it still is the key's, and its revocation was  *)
(* not contested.                                                          *)
Kept(k, f) ==
    keys[k] = "active" /\ devices[f].key = k /\ ~devices[f].contested
        => devices[f].status = "active"

(* So it is for every session that is live, or may become so.              *)
DevicesKept ==
    /\ \A s \in Desktops : desktops[s].status = "live" => Kept(desktops[s].key, desktops[s].device)
    /\ \A h \in Handlers :
          /\ handlers[h].step \in {"checking", "issuing"} =>
                Kept(handlers[h].key, handlers[h].device)
          /\ handlers[h].step = "rotating" =>
                LET s == desktops[handlers[h].session] IN Kept(s.key, s.device)

RevokedInv == Referred /\ SessionsStayRevoked /\ RefreshesContest /\ DevicesKept

(* A step that revokes: what it revokes is out, and the requests that hold *)
(* it make it contested.                                                   *)
LEMMA RevocationStep ==
    ASSUME AccessTypeOK, RevokedInv, NEW F, NEW S, Revocation(F, S)
    PROVE  RevokedInv'
<1>1. /\ devices' = DevicesWithout(F) /\ desktops' = DesktopsWithout(S)
      /\ \A o \in Handlers : handlers'[o].step \in HoldingSteps => handlers'[o] = handlers[o]
      /\ \A k \in Keys : keys[k] # "none" => keys'[k] # "none"
      /\ \A k \in Keys : keys[k] # "none" /\ keys'[k] = "active" => keys[k] = "active"
      /\ keys \in [Keys -> {"none", "active", "revoked"}]
      /\ handlers \in [Handlers -> Locals]
  BY DEF Revocation, AccessTypeOK
(* One row before and after. *)
<1>2. \A s \in Desktops :
         /\ desktops'[s].key = desktops[s].key /\ desktops'[s].device = desktops[s].device
         /\ desktops[s].contested => desktops'[s].contested
         /\ IF s \in S /\ desktops[s].status = "live"
            THEN desktops'[s].status = "revoked" /\ (Refreshing(s) => desktops'[s].contested)
            ELSE desktops'[s] = desktops[s]
  BY <1>1, Revoked
<1>3. \A f \in Devices :
         /\ devices'[f].key = devices[f].key
         /\ devices[f].contested => devices'[f].contested
         /\ IF f \in F /\ devices[f].status = "active"
            THEN /\ devices'[f].status = "revoked"
                 /\ Activating(f) => devices'[f].contested
                 /\ \A s \in Desktops : desktops[s].device = f /\ Refreshing(s)
                       => devices'[f].contested
            ELSE devices'[f].status = devices[f].status
  BY <1>1, Revoked
(* A session that is live afterwards was not among those revoked. *)
<1>4. \A s \in Desktops : desktops'[s].status = "live" =>
         desktops[s].status = "live" /\ s \notin S /\ desktops'[s] = desktops[s]
  BY <1>2
(* A request that holds something afterwards did so before. *)
<1>5. ASSUME NEW h \in Handlers, handlers'[h].step \in HoldingSteps
      PROVE  /\ handlers'[h] = handlers[h] /\ handlers[h].step \in HoldingSteps
             /\ handlers[h].step \in {"claiming", "checking", "issuing"}
                   => /\ handlers[h].key \in Keys /\ handlers[h].device \in Devices
                      /\ Activating(handlers[h].device)
             /\ handlers[h].step = "rotating"
                   => handlers[h].session \in Desktops /\ Refreshing(handlers[h].session)
  <2>1. handlers'[h] = handlers[h] /\ handlers[h] \in Locals
    BY <1>1, <1>5
  <2>2. handlers[h].step \in {"claiming", "checking", "issuing"}
           => handlers[h].key \in Keys /\ handlers[h].device \in Devices
    BY <2>1, ReadsKept
  <2>3. handlers[h].step = "rotating" => handlers[h].session \in Desktops
    BY <2>1, ReadsKept
  <2> QED
    BY <1>5, <2>1, <2>2, <2>3 DEF Activating, Refreshing, At
<1>6. Referred'
  <2>1. ASSUME NEW s \in Desktops, desktops'[s].status = "live"
        PROVE  /\ desktops'[s].key \in Keys /\ desktops'[s].device \in Devices
               /\ keys'[desktops'[s].key] # "none"
    BY <1>1, <1>4, <2>1 DEF RevokedInv, Referred
  <2>2. ASSUME NEW h \in Handlers, handlers'[h].step \in {"claiming", "checking", "issuing"}
        PROVE  keys'[handlers'[h].key] # "none"
    BY <1>1, <1>5, <2>2 DEF RevokedInv, Referred, HoldingSteps
  <2>3. ASSUME NEW h \in Handlers, handlers'[h].step = "rotating"
        PROVE  LET s == desktops'[handlers'[h].session] IN
               s.status # "none" /\ s.key \in Keys /\ s.device \in Devices
               /\ keys'[s.key] # "none"
    <3>1. handlers'[h] = handlers[h] /\ handlers[h].session \in Desktops
      BY <1>5, <2>3 DEF HoldingSteps
    <3>2. LET s == desktops[handlers[h].session] IN
          s.status # "none" /\ s.key \in Keys /\ s.device \in Devices /\ keys[s.key] # "none"
      BY <2>3, <3>1 DEF RevokedInv, Referred
    <3> QED
      BY <1>1, <1>2, <3>1, <3>2
  <2> QED
    BY <2>1, <2>2, <2>3 DEF Referred
<1>7. SessionsStayRevoked'
  BY <1>4 DEF RevokedInv, SessionsStayRevoked
<1>8. RefreshesContest'
  <2>1. ASSUME NEW h \in Handlers, handlers'[h].step = "rotating",
               desktops'[handlers'[h].session].revoked
        PROVE  desktops'[handlers'[h].session].contested
    <3>1. /\ handlers'[h] = handlers[h] /\ handlers[h].session \in Desktops
          /\ Refreshing(handlers[h].session)
      BY <1>5, <2>1 DEF HoldingSteps
    <3>2. desktops[handlers[h].session].revoked => desktops[handlers[h].session].contested
      BY <2>1, <3>1 DEF RevokedInv, RefreshesContest
    <3> QED
      BY <1>2, <2>1, <3>1, <3>2
  <2> QED
    BY <2>1 DEF RefreshesContest
<1>9. DevicesKept'
  (* A device that was in the wrong state was contested before. *)
  <2>1. ASSUME NEW k \in Keys, NEW f \in Devices, keys[k] # "none", Kept(k, f),
               \/ devices'[f].contested
               \/ ~(f \in F /\ devices[f].status = "active" /\ devices[f].key = k /\ keys'[k] = "active")
        PROVE  keys'[k] = "active" /\ devices'[f].key = k /\ ~devices'[f].contested
                  => devices'[f].status = "active"
    BY <1>1, <1>3, <2>1 DEF Kept
  <2>2. ASSUME NEW s \in Desktops, desktops'[s].status = "live"
        PROVE  Kept(desktops[s].key, desktops[s].device)'
    <3>1. /\ desktops[s].status = "live" /\ s \notin S /\ desktops'[s] = desktops[s]
          /\ desktops[s].key \in Keys /\ desktops[s].device \in Devices
          /\ keys[desktops[s].key] # "none" /\ Kept(desktops[s].key, desktops[s].device)
      BY <1>4, <2>2 DEF RevokedInv, Referred, DevicesKept
    <3>2. ~(desktops[s].device \in F /\ devices[desktops[s].device].key = desktops[s].key
            /\ keys'[desktops[s].key] = "active")
      BY <3>1 DEF Revocation
    <3> QED
      BY <2>1, <3>1, <3>2 DEF Kept
  <2>3. ASSUME NEW h \in Handlers, handlers'[h].step \in {"checking", "issuing"}
        PROVE  Kept(handlers[h].key, handlers[h].device)'
    <3>1. /\ handlers'[h] = handlers[h]
          /\ handlers[h].key \in Keys /\ handlers[h].device \in Devices
          /\ Activating(handlers[h].device)
      BY <1>5, <2>3 DEF HoldingSteps
    <3>2. Kept(handlers[h].key, handlers[h].device) /\ keys[handlers[h].key] # "none"
      BY <2>3, <3>1 DEF RevokedInv, DevicesKept, Referred
    <3>3. handlers[h].device \in F /\ devices[handlers[h].device].status = "active"
             => devices'[handlers[h].device].contested
      BY <1>3, <3>1
    <3> QED
      BY <2>1, <3>1, <3>2, <3>3 DEF Kept
  <2>4. ASSUME NEW h \in Handlers, handlers'[h].step = "rotating"
        PROVE  Kept(desktops[handlers[h].session].key, desktops[handlers[h].session].device)'
    <3> DEFINE s == handlers[h].session
    <3>1. handlers'[h] = handlers[h] /\ s \in Desktops /\ Refreshing(s)
      BY <1>5, <2>4 DEF HoldingSteps
    <3>2. /\ desktops[s].key \in Keys /\ desktops[s].device \in Devices
          /\ keys[desktops[s].key] # "none" /\ Kept(desktops[s].key, desktops[s].device)
      BY <2>4, <3>1 DEF RevokedInv, DevicesKept, Referred
    <3>3. desktops[s].device \in F /\ devices[desktops[s].device].status = "active"
             => devices'[desktops[s].device].contested
      BY <1>3, <3>1, <3>2
    <3>4. /\ desktops'[s].key = desktops[s].key /\ desktops'[s].device = desktops[s].device
      BY <1>2, <3>1
    <3> QED
      BY <2>1, <3>1, <3>2, <3>3, <3>4 DEF Kept
  <2> QED
    BY <2>2, <2>3, <2>4 DEF DevicesKept
<1>10. QED
  BY <1>6, <1>7, <1>8, <1>9 DEF RevokedInv

(* The requests that come to hold something: nothing is revoked.           *)
LEMMA HoldingKeeps ==
    ASSUME AccessTypeOK, RevokedInv, HoldingStep
    PROVE  RevokedInv'
<1>1. handlers \in [Handlers -> Locals] /\ NoHandler.step \notin HoldingSteps
  BY DEF AccessTypeOK, NoHandler, HoldingSteps
<1>2. ASSUME NEW h \in Handlers, ClaimDevice(h) PROVE RevokedInv'
  <2>1. PICK k \in Keys, f \in Devices :
           /\ handlers[h] \in Locals /\ handlers[h].step = "claiming"
           /\ handlers[h].key = k /\ handlers[h].device = f
    BY <1>1, <1>2, ReadsKept DEF ClaimDevice, At
  <2>2. /\ UNCHANGED <<keys, desktops>>
        /\ handlers' = [handlers EXCEPT ![h] = [handlers[h] EXCEPT !.step = "checking"]]
    BY <1>2 DEF ClaimDevice, GoTo
  <2>3. /\ handlers'[h].step = "checking" /\ handlers'[h].key = k /\ handlers'[h].device = f
        /\ \A o \in Handlers \ {h} : handlers'[o] = handlers[o]
    BY <1>1, <2>1, <2>2, ReadsKept
  <2>4. /\ devices'[f].status = "active"
        /\ \A d \in Devices \ {f} :
              /\ devices'[d].status = devices[d].status /\ devices'[d].key = devices[d].key
              /\ devices'[d].contested = devices[d].contested
    <3>1. \A d \in Devices : devices[d] \in DeviceRows
      BY DEF AccessTypeOK
    <3>2. PICK crowded \in BOOLEAN : devices' = [d \in Devices |->
              IF d = f THEN [devices[f] EXCEPT !.status = "active", !.key = k, !.crowded = crowded]
              ELSE IF crowded /\ devices[d].key = k
              THEN [devices[d] EXCEPT !.crowded = TRUE] ELSE devices[d]]
      BY <1>2, <2>1 DEF ClaimDevice
    <3>3. devices'[f].status = "active"
      BY <3>1, <3>2 DEF DeviceRows
    <3>4. ASSUME NEW d \in Devices \ {f}
          PROVE  /\ devices'[d].status = devices[d].status /\ devices'[d].key = devices[d].key
                 /\ devices'[d].contested = devices[d].contested
      BY <3>1, <3>2 DEF DeviceRows
    <3> QED
      BY <3>3, <3>4
  <2>5. \A i \in Keys, d \in Devices : Kept(i, d) => Kept(i, d)'
    BY <2>2, <2>4 DEF Kept
  <2>6. Kept(k, f)'
    BY <2>4 DEF Kept
  <2>7. Referred' /\ SessionsStayRevoked' /\ RefreshesContest'
    BY <2>1, <2>2, <2>3 DEF RevokedInv, Referred, SessionsStayRevoked, RefreshesContest
  <2>8. DevicesKept'
    <3>1. ASSUME NEW s \in Desktops, desktops'[s].status = "live"
          PROVE  Kept(desktops[s].key, desktops[s].device)'
      BY <2>2, <2>5, <3>1 DEF RevokedInv, Referred, DevicesKept
    <3>2. ASSUME NEW o \in Handlers, handlers'[o].step \in {"checking", "issuing"}
          PROVE  Kept(handlers[o].key, handlers[o].device)'
      <4>1. CASE o = h
        BY <2>3, <2>6, <4>1 DEF Kept
      <4>2. CASE o # h
        <5>1. handlers'[o] = handlers[o] /\ handlers[o] \in Locals
          BY <1>1, <2>3, <4>2
        <5>2. handlers[o].key \in Keys /\ handlers[o].device \in Devices
          BY <3>2, <5>1, ReadsKept
        <5> QED
          BY <2>5, <3>2, <5>1, <5>2 DEF RevokedInv, DevicesKept, Kept
      <4> QED
        BY <4>1, <4>2
    <3>3. ASSUME NEW o \in Handlers, handlers'[o].step = "rotating"
          PROVE  Kept(desktops[handlers[o].session].key, desktops[handlers[o].session].device)'
      <4>1. o # h /\ handlers'[o] = handlers[o]
        BY <2>3, <3>3
      <4> QED
        BY <2>2, <2>5, <3>3, <4>1 DEF RevokedInv, Referred, DevicesKept, Kept
    <3> QED
      BY <3>1, <3>2, <3>3 DEF DevicesKept
  <2> QED
    BY <2>7, <2>8 DEF RevokedInv
<1>3. ASSUME NEW h \in Handlers, CheckKey(h) PROVE RevokedInv'
  <2>1. /\ handlers[h] \in Locals /\ handlers[h].step = "checking"
        /\ UNCHANGED <<keys, devices, desktops>>
        /\ handlers' \in {[handlers EXCEPT ![h] = [handlers[h] EXCEPT !.step = "issuing"]],
                          [handlers EXCEPT ![h] = NoHandler]}
    BY <1>1, <1>3 DEF CheckKey, GoTo, Finish, At
  <2>2. /\ \A o \in Handlers \ {h} : handlers'[o] = handlers[o]
        /\ \/ handlers'[h].step = "issuing" /\ handlers'[h].key = handlers[h].key
              /\ handlers'[h].device = handlers[h].device
           \/ handlers'[h].step \notin HoldingSteps
    BY <1>1, <2>1, ReadsKept
  <2>3. Referred' /\ RefreshesContest'
    BY <2>1, <2>2 DEF RevokedInv, Referred, RefreshesContest, HoldingSteps
  <2>4. SessionsStayRevoked'
    BY <2>1 DEF RevokedInv, SessionsStayRevoked
  <2>5. DevicesKept'
    BY <2>1, <2>2 DEF RevokedInv, DevicesKept, Kept, HoldingSteps
  <2> QED
    BY <2>3, <2>4, <2>5 DEF RevokedInv
<1>4. ASSUME NEW h \in Handlers, PersistSession(h) PROVE RevokedInv'
  <2> DEFINE s == handlers[h].session
  <2>1. PICK t \in Desktops : t = s /\ handlers[h].step = "rotating"
    BY <1>1, <1>4, ReadsKept DEF PersistSession, At
  <2>2. /\ UNCHANGED <<keys, devices>>
        /\ handlers' = [handlers EXCEPT ![h] = NoHandler]
        /\ desktops' = [desktops EXCEPT ![t] = [desktops[t] EXCEPT !.status = "live"]]
    BY <1>4, <2>1 DEF PersistSession, Finish, GoTo
  <2>3. /\ handlers'[h].step \notin HoldingSteps
        /\ \A o \in Handlers \ {h} : handlers'[o] = handlers[o]
    BY <1>1, <2>2
  <2>4. /\ desktops'[t].status = "live" /\ desktops'[t].key = desktops[t].key
        /\ desktops'[t].device = desktops[t].device /\ desktops'[t].revoked = desktops[t].revoked
        /\ desktops'[t].contested = desktops[t].contested
        /\ \A i \in Desktops \ {t} : desktops'[i] = desktops[i]
    <3>1. desktops \in [Desktops -> DesktopRows]
      BY DEF AccessTypeOK
    <3> QED
      BY <2>2, <3>1 DEF DesktopRows
  (* What the refresh has held is what its session needs. *)
  <2>5. /\ desktops[t].key \in Keys /\ desktops[t].device \in Devices
        /\ keys[desktops[t].key] # "none"
        /\ desktops[t].revoked => desktops[t].contested
        /\ Kept(desktops[t].key, desktops[t].device)
    BY <2>1 DEF RevokedInv, Referred, RefreshesContest, DevicesKept
  <2>6. SessionsStayRevoked'
    BY <2>4, <2>5 DEF RevokedInv, SessionsStayRevoked
  <2>7. \A o \in Handlers : handlers'[o].step \in HoldingSteps =>
           /\ handlers'[o] = handlers[o] /\ handlers[o] \in Locals
           /\ handlers[o].step = "rotating" => handlers[o].session \in Desktops
    BY <1>1, <2>3, ReadsKept
  <2>8. Referred'
    BY <2>2, <2>4, <2>5, <2>7 DEF RevokedInv, Referred, HoldingSteps
  <2>9. RefreshesContest'
    BY <2>4, <2>7 DEF RevokedInv, RefreshesContest, HoldingSteps
  <2>10. DevicesKept'
    BY <2>2, <2>4, <2>5, <2>7 DEF RevokedInv, DevicesKept, Kept, HoldingSteps
  <2> QED
    BY <2>6, <2>8, <2>9, <2>10 DEF RevokedInv
<1>5. ASSUME NEW h \in Handlers, NEW k \in Keys, NEW f \in Devices, ReadLicense(h, k, f)
      PROVE  RevokedInv'
  <2>1. /\ UNCHANGED <<keys, devices, desktops>> /\ keys[k] = "active"
        /\ handlers' = [handlers EXCEPT ![h] =
               [step |-> IF f \in ActiveDevices(k) THEN "checking" ELSE "claiming",
                key |-> k, device |-> f]]
    BY <1>5 DEF ReadLicense, GoTo, KeyWorks
  <2>2. /\ \A o \in Handlers \ {h} : handlers'[o] = handlers[o]
        /\ handlers'[h].key = k /\ handlers'[h].device = f
        /\ handlers'[h].step \in {"checking", "claiming"}
        /\ handlers'[h].step = "checking" => devices[f].status = "active"
    BY <1>1, <2>1 DEF ActiveDevices
  <2>3. Referred' /\ RefreshesContest'
    BY <2>1, <2>2 DEF RevokedInv, Referred, RefreshesContest
  <2>4. SessionsStayRevoked'
    BY <2>1 DEF RevokedInv, SessionsStayRevoked
  <2>5. DevicesKept'
    BY <2>1, <2>2 DEF RevokedInv, DevicesKept, Kept
  <2> QED
    BY <2>3, <2>4, <2>5 DEF RevokedInv
<1>6. ASSUME NEW h \in Handlers, NEW s \in Desktops, IssueSession(h, s) PROVE RevokedInv'
  <2>1. PICK k \in Keys, f \in Devices :
           /\ handlers[h].step = "issuing" /\ handlers[h].key = k /\ handlers[h].device = f
    BY <1>1, <1>6, ReadsKept DEF IssueSession, At
  <2>2. /\ UNCHANGED <<keys, devices>> /\ desktops[s].status = "none"
        /\ handlers' = [handlers EXCEPT ![h] = NoHandler]
        /\ desktops' = [desktops EXCEPT ![s] =
              [NoDesktop EXCEPT !.status = "live", !.key = k, !.device = f]]
    BY <1>6, <2>1 DEF IssueSession, Finish, GoTo
  <2>3. /\ handlers'[h].step \notin HoldingSteps
        /\ \A o \in Handlers \ {h} : handlers'[o] = handlers[o]
    BY <1>1, <2>2
  <2>4. /\ desktops'[s].status = "live" /\ desktops'[s].key = k /\ desktops'[s].device = f
        /\ ~desktops'[s].revoked
        /\ \A i \in Desktops \ {s} : desktops'[i] = desktops[i]
    BY <2>2 DEF NoDesktop, AccessTypeOK
  <2>5. keys[k] # "none" /\ Kept(k, f)
    BY <2>1 DEF RevokedInv, Referred, DevicesKept
  (* No refresh holds a session that was not there. *)
  <2>6. \A o \in Handlers : handlers'[o].step \in HoldingSteps =>
           /\ handlers'[o] = handlers[o] /\ handlers[o] \in Locals
           /\ handlers[o].step = "rotating" =>
                 handlers[o].session \in Desktops /\ handlers[o].session # s
    BY <1>1, <2>2, <2>3, ReadsKept DEF RevokedInv, Referred
  <2>7. SessionsStayRevoked'
    BY <2>4 DEF RevokedInv, SessionsStayRevoked
  <2>8. Referred'
    BY <2>2, <2>4, <2>5, <2>6 DEF RevokedInv, Referred, HoldingSteps
  <2>9. RefreshesContest'
    BY <2>4, <2>6 DEF RevokedInv, RefreshesContest, HoldingSteps
  <2>10. DevicesKept'
    BY <2>2, <2>4, <2>5, <2>6 DEF RevokedInv, DevicesKept, Kept, HoldingSteps
  <2> QED
    BY <2>7, <2>8, <2>9, <2>10 DEF RevokedInv
<1>7. ASSUME NEW h \in Handlers, NEW s \in Desktops, ReadSession(h, s) PROVE RevokedInv'
  <2>1. /\ UNCHANGED <<keys, devices, desktops>> /\ desktops[s].status = "live"
        /\ handlers' = [handlers EXCEPT ![h] = [step |-> "rotating", session |-> s]]
    BY <1>7 DEF ReadSession, GoTo, Found
  <2>2. /\ \A o \in Handlers \ {h} : handlers'[o] = handlers[o]
        /\ handlers'[h].step = "rotating" /\ handlers'[h].session = s
    BY <1>1, <2>1
  <2>3. Referred' /\ RefreshesContest'
    BY <2>1, <2>2 DEF RevokedInv, Referred, RefreshesContest, SessionsStayRevoked
  <2>4. SessionsStayRevoked'
    BY <2>1 DEF RevokedInv, SessionsStayRevoked
  <2>5. DevicesKept'
    BY <2>1, <2>2 DEF RevokedInv, DevicesKept, Kept
  <2> QED
    BY <2>3, <2>4, <2>5 DEF RevokedInv
<1>8. QED
  BY <1>2, <1>3, <1>4, <1>5, <1>6, <1>7 DEF HoldingStep

(* RevokedStaysRevoked for every number of requests, keys, devices and     *)
(* sessions: only a refresh or an activation that was under way can bring  *)
(* back what was revoked.                                                  *)
THEOREM RevokedForGood == SpecAccess => []RevokedStaysRevoked
<1>1. InitAccess => RevokedInv
  BY DEF InitAccess, InitDesktop, NoDesktop, NoHandler, RevokedInv, Referred,
         SessionsStayRevoked, RefreshesContest, DevicesKept
<1>2. AccessTypeOK /\ RevokedInv /\ [NextAccess]_accessVars => RevokedInv'
  <2>1. ASSUME RevokedInv, UNCHANGED accessVars PROVE RevokedInv'
    BY <2>1 DEF accessVars, RevokedInv, Referred, SessionsStayRevoked, RefreshesContest,
                DevicesKept, Kept
  <2> QED
    BY <2>1, RevokesOrHolds, RevocationStep, HoldingKeeps
<1>3. RevokedInv => RevokedStaysRevoked
  BY DEF RevokedInv, DevicesKept, Kept, RevokedStaysRevoked, RevokedDevicesAreOut,
         Usable, KeyWorks
<1>4. QED
  BY <1>1, <1>2, <1>3, AccessTypes, PTL DEF SpecAccess

-----------------------------------------------------------------------------
(* Releases *)

ReleaseRows == [state : ReleaseStates \union {"none"}, current : BOOLEAN, files : BOOLEAN]

EditStates == [step : {"idle", "look", "clear", "write"}, release : SUBSET Catalogue,
               draft : ReleaseRows, others : SUBSET Catalogue]

ReleasesTypeOK ==
    /\ releases \in [Catalogue -> ReleaseRows]
    /\ edits \in [Editors -> EditStates]
    /\ overlapped \in BOOLEAN

(* What is marked, in the catalogue or in what an edit is going to write,  *)
(* can be downloaded.                                                      *)
Downloadable(row) == row.current => row.state = "PUBLISHED" /\ row.files

MarkedAreDownloadable ==
    /\ \A r \in Catalogue : Downloadable(releases[r])
    /\ \A e \in Editors : Downloadable(edits[e].draft)

(* An edit is of one release.                                              *)
EditsAreOfOne == \A e \in Editors : \A r, s \in edits[e].release : r = s

(* Until two edits overlap, there is one under way at most, and one that   *)
(* is to leave its release marked knows of every other that is marked.     *)
EditsAreAlone ==
    \A e, f \in Editors : edits[e].step # "idle" /\ edits[f].step # "idle" => e = f

OthersAreKnown ==
    \A e \in Editors :
        \/ edits[e].step \in {"idle", "look"}
        \/ edits[e].step = "write" /\ ~edits[e].draft.current
        \/ CurrentReleases \ edits[e].release \subseteq edits[e].others

OneIsMarked == \A r, s \in CurrentReleases : r = s

ReleasesInv ==
    /\ ReleasesTypeOK
    /\ MarkedAreDownloadable
    /\ EditsAreOfOne
    /\ overlapped \/ (EditsAreAlone /\ OthersAreKnown /\ OneIsMarked)

(* A draft is a row, marked only if it is published; what is publishable   *)
(* has files.                                                              *)
LEMMA DraftFacts ==
    ASSUME NEW existing \in ReleaseRows, NEW input \in Inputs,
           NEW draft, draft = Draft(existing, input), Publishable(draft)
    PROVE  draft \in ReleaseRows /\ Downloadable(draft)
<1> DEFINE state == IF input.state = "as it was" THEN existing.state ELSE input.state
           marked == Merged(input.current, existing.current)
           files == Merged(input.files, existing.files)
<1>1. /\ existing.current \in BOOLEAN
      /\ existing.files \in BOOLEAN
      /\ state \in ReleaseStates \union {"none"}
  BY DEF ReleaseRows, Inputs
<1>2. marked \in BOOLEAN /\ files \in BOOLEAN
  BY <1>1 DEF Merged
<1>3. draft = [state |-> state, current |-> marked /\ state = "PUBLISHED", files |-> files]
  BY DEF Draft
<1> HIDE DEF state, marked, files
<1>4. draft.state = state /\ draft.current = (marked /\ state = "PUBLISHED")
  BY <1>3
<1>5. draft \in ReleaseRows
  BY <1>1, <1>2, <1>3 DEF ReleaseRows
<1>6. Downloadable(draft)
  BY <1>4 DEF Downloadable, Publishable
<1> QED
  BY <1>5, <1>6

(* Every edit keeps the invariant.                                         *)
LEMMA EditKeepsReleases ==
    ReleasesInv /\ NextReleases => ReleasesInv'
<1> SUFFICES ASSUME ReleasesInv, NextReleases
             PROVE  ReleasesInv'
  OBVIOUS
<1> USE DEF ReleasesInv, ReleasesTypeOK
<1>1. ASSUME NEW e \in Editors, NEW r \in Catalogue, NEW input \in Inputs, BeginEdit(e, r, input)
      PROVE  ReleasesInv'
  <2> DEFINE draft == Draft(releases[r], input)
             begun == [step |-> IF draft.current THEN "look" ELSE "write",
                       release |-> {r}, draft |-> draft, others |-> {}]
  <2>1. draft \in ReleaseRows /\ Downloadable(draft)
    <3>1. releases[r] \in ReleaseRows /\ Publishable(draft)
      BY <1>1 DEF BeginEdit
    <3> QED
      BY <3>1, DraftFacts
  <2>2. /\ edits' = [edits EXCEPT ![e] = begun]
        /\ overlapped' = (overlapped \/ \E other \in Editors \ {e} : edits[other].step # "idle")
        /\ releases' = releases
    BY <1>1 DEF BeginEdit
  <2>3. /\ begun \in EditStates
        /\ begun.draft = draft
        /\ begun.release = {r}
        /\ begun.step = "look" \/ (begun.step = "write" /\ ~begun.draft.current)
    BY <2>1 DEF EditStates
  <2> HIDE DEF draft, begun
  <2>4. ReleasesTypeOK'
    BY <2>2, <2>3
  <2>5. MarkedAreDownloadable' /\ EditsAreOfOne'
    BY <2>1, <2>2, <2>3 DEF MarkedAreDownloadable, EditsAreOfOne, Downloadable
  <2>6. overlapped' \/ (EditsAreAlone' /\ OthersAreKnown' /\ OneIsMarked')
    BY <2>2, <2>3 DEF EditsAreAlone, OthersAreKnown, OneIsMarked, CurrentReleases
  <2> QED
    BY <2>4, <2>5, <2>6
<1>2. ASSUME NEW e \in Editors, LookForOthers(e)
      PROVE  ReleasesInv'
  <2> DEFINE found == {r \in Catalogue \ edits[e].release : releases[r].current}
             looked == [edits[e] EXCEPT !.step = "clear", !.others = found]
  <2>1. /\ edits[e].step = "look"
        /\ edits' = [edits EXCEPT ![e] = looked]
        /\ overlapped' = overlapped /\ releases' = releases
    BY <1>2 DEF LookForOthers
  <2>2. /\ looked \in EditStates
        /\ looked.draft = edits[e].draft
        /\ looked.release = edits[e].release
        /\ looked.step = "clear" /\ looked.others = found
    BY <1>2 DEF EditStates
  <2>3. CurrentReleases \ edits[e].release \subseteq found
    BY DEF CurrentReleases
  <2> HIDE DEF found, looked
  <2>4. ReleasesTypeOK'
    BY <2>1, <2>2
  <2>5. MarkedAreDownloadable' /\ EditsAreOfOne'
    BY <2>1, <2>2 DEF MarkedAreDownloadable, EditsAreOfOne
  <2>6. overlapped' \/ (EditsAreAlone' /\ OthersAreKnown' /\ OneIsMarked')
    BY <2>1, <2>2, <2>3 DEF EditsAreAlone, OthersAreKnown, OneIsMarked, CurrentReleases
  <2> QED
    BY <2>4, <2>5, <2>6
<1>3. ASSUME NEW e \in Editors, ClearOthers(e)
      PROVE  ReleasesInv'
  <2> DEFINE left == {r \in edits[e].others : releases[r].current}
             cleared == [edits[e] EXCEPT !.step = "write", !.others = left]
  <2>1. /\ edits[e].step = "clear"
        /\ edits' = [edits EXCEPT ![e] = cleared]
        /\ overlapped' = overlapped /\ releases' = releases
    BY <1>3 DEF ClearOthers
  <2>2. /\ cleared \in EditStates
        /\ cleared.draft = edits[e].draft
        /\ cleared.release = edits[e].release
        /\ cleared.step = "write" /\ cleared.others = left
    BY <1>3 DEF EditStates
  <2>3. overlapped \/ CurrentReleases \ edits[e].release \subseteq left
    BY <2>1 DEF CurrentReleases, OthersAreKnown
  <2> HIDE DEF left, cleared
  <2>4. ReleasesTypeOK'
    BY <2>1, <2>2
  <2>5. MarkedAreDownloadable' /\ EditsAreOfOne'
    BY <2>1, <2>2 DEF MarkedAreDownloadable, EditsAreOfOne
  <2>6. overlapped' \/ (EditsAreAlone' /\ OthersAreKnown' /\ OneIsMarked')
    BY <2>1, <2>2, <2>3 DEF EditsAreAlone, OthersAreKnown, OneIsMarked, CurrentReleases
  <2> QED
    BY <2>4, <2>5, <2>6
<1>4. NoEdit \in EditStates /\ ~NoEdit.draft.current /\ NoEdit.release = {} /\ NoEdit.step = "idle"
  BY DEF NoEdit, EditStates, NoRelease, ReleaseRows, ReleaseStates
<1>5. ASSUME NEW e \in Editors, WriteRelease(e)
      PROVE  ReleasesInv'
  <2>1. /\ edits[e].step = "write"
        /\ edits' = [edits EXCEPT ![e] = NoEdit]
        /\ overlapped' = overlapped
        /\ releases' = [r \in Catalogue |->
              IF r \in edits[e].release THEN edits[e].draft
              ELSE [releases[r] EXCEPT !.current = @ /\ r \notin edits[e].others]]
    BY <1>5 DEF WriteRelease
  <2>2. ASSUME NEW r \in Catalogue
        PROVE  /\ releases'[r] \in ReleaseRows
               /\ Downloadable(releases'[r])
               /\ releases'[r].current =>
                     IF r \in edits[e].release THEN edits[e].draft.current
                     ELSE releases[r].current /\ r \notin edits[e].others
    <3>1. CASE r \in edits[e].release
      BY <2>1, <3>1 DEF EditStates, MarkedAreDownloadable
    <3>2. CASE r \notin edits[e].release
      <4>1. releases'[r] = [releases[r] EXCEPT !.current = @ /\ r \notin edits[e].others]
        BY <2>1, <3>2
      <4>2. releases[r] \in ReleaseRows /\ Downloadable(releases[r])
        BY DEF MarkedAreDownloadable
      <4>3. releases'[r] \in ReleaseRows
        BY <4>1, <4>2 DEF ReleaseRows
      <4>4. /\ releases'[r].current = (releases[r].current /\ r \notin edits[e].others)
            /\ releases'[r].state = releases[r].state
            /\ releases'[r].files = releases[r].files
        BY <4>1, <4>2 DEF ReleaseRows
      <4> QED
        BY <3>2, <4>2, <4>3, <4>4 DEF Downloadable
    <3> QED
      BY <3>1, <3>2
  <2>3. ReleasesTypeOK'
    <3>1. releases' \in [Catalogue -> ReleaseRows]
      <4>1. DOMAIN releases' = Catalogue /\ releases' = [r \in Catalogue |-> releases'[r]]
        BY <2>1
      <4> QED
        BY <2>2, <4>1
    <3> QED
      BY <1>4, <2>1, <3>1
  <2>4. MarkedAreDownloadable'
    BY <1>4, <2>1, <2>2 DEF MarkedAreDownloadable, Downloadable
  <2>5. EditsAreOfOne'
    BY <1>4, <2>1 DEF EditsAreOfOne
  <2>6. ASSUME ~overlapped
        PROVE  EditsAreAlone' /\ OthersAreKnown' /\ OneIsMarked'
    <3>1. \A f \in Editors : edits'[f].step = "idle"
      BY <1>4, <2>1, <2>6 DEF EditsAreAlone
    <3>2. EditsAreAlone' /\ OthersAreKnown'
      BY <3>1 DEF EditsAreAlone, OthersAreKnown
    <3>3. OneIsMarked'
      <4> SUFFICES ASSUME NEW r \in Catalogue, NEW s \in Catalogue,
                          releases'[r].current, releases'[s].current
                   PROVE  r = s
        BY DEF OneIsMarked, CurrentReleases
      <4>1. CASE edits[e].draft.current
        <5>1. CurrentReleases \ edits[e].release \subseteq edits[e].others
          BY <2>1, <2>6, <4>1 DEF OthersAreKnown
        <5>2. r \in edits[e].release /\ s \in edits[e].release
          BY <2>2, <5>1 DEF CurrentReleases
        <5> QED
          BY <5>2 DEF EditsAreOfOne
      <4>2. CASE ~edits[e].draft.current
        BY <2>2, <2>6, <4>2 DEF OneIsMarked, CurrentReleases
      <4> QED
        BY <4>1, <4>2
    <3> QED
      BY <3>2, <3>3
  <2> QED
    BY <2>1, <2>3, <2>4, <2>5, <2>6
<1>6. ASSUME NEW e \in Editors, FailEdit(e)
      PROVE  ReleasesInv'
  <2>1. /\ edits' = [edits EXCEPT ![e] = NoEdit]
        /\ overlapped' = overlapped /\ releases' = releases
    BY <1>6 DEF FailEdit
  <2>2. ReleasesTypeOK' /\ MarkedAreDownloadable' /\ EditsAreOfOne'
    BY <1>4, <2>1 DEF MarkedAreDownloadable, EditsAreOfOne, Downloadable
  <2>3. overlapped' \/ (EditsAreAlone' /\ OthersAreKnown' /\ OneIsMarked')
    BY <1>4, <2>1 DEF EditsAreAlone, OthersAreKnown, OneIsMarked, CurrentReleases
  <2> QED
    BY <2>2, <2>3
<1> QED
  BY <1>1, <1>2, <1>3, <1>5, <1>6 DEF NextReleases

(* The release that latestPublished offers first can be downloaded,        *)
(* however the edits of administrators overlap, and it is the only one     *)
(* that is marked until two of them do (ReleaseCatalogService).            *)
THEOREM CurrentCanBeDownloaded ==
    SpecReleases => []CurrentIsPublished
<1>1. InitReleases => ReleasesInv
  <2> SUFFICES ASSUME InitReleases
               PROVE  ReleasesInv
    OBVIOUS
  <2>1. NoRelease \in ReleaseRows /\ ~NoRelease.current
    BY DEF NoRelease, ReleaseRows
  <2>2. /\ NoEdit \in EditStates
        /\ NoEdit.step = "idle" /\ NoEdit.release = {} /\ ~NoEdit.draft.current
    BY <2>1 DEF NoEdit, EditStates
  <2>3. /\ \A r \in Catalogue : releases[r] = NoRelease
        /\ \A e \in Editors : edits[e] = NoEdit
    BY DEF InitReleases
  <2>4. ReleasesTypeOK
    BY <2>1, <2>2 DEF InitReleases, ReleasesTypeOK
  <2>5. MarkedAreDownloadable /\ EditsAreOfOne
    BY <2>1, <2>2, <2>3 DEF MarkedAreDownloadable, Downloadable, EditsAreOfOne
  <2>6. EditsAreAlone /\ OthersAreKnown /\ OneIsMarked
    BY <2>1, <2>2, <2>3 DEF EditsAreAlone, OthersAreKnown, OneIsMarked, CurrentReleases
  <2> QED
    BY <2>4, <2>5, <2>6 DEF ReleasesInv
<1>2. ReleasesInv /\ [NextReleases]_releaseVars => ReleasesInv'
  <2>1. ReleasesInv /\ UNCHANGED releaseVars => ReleasesInv'
    BY DEF releaseVars, ReleasesInv, ReleasesTypeOK, MarkedAreDownloadable, Downloadable,
           EditsAreOfOne, EditsAreAlone, OthersAreKnown, OneIsMarked, CurrentReleases
  <2> QED
    BY <2>1, EditKeepsReleases
<1>3. ReleasesInv => CurrentIsPublished
  <2> SUFFICES ASSUME ReleasesInv
               PROVE  CurrentIsPublished
    OBVIOUS
  <2>1. \A r \in CurrentReleases : releases[r].state = "PUBLISHED" /\ releases[r].files
    BY DEF ReleasesInv, MarkedAreDownloadable, Downloadable, CurrentReleases
  <2>2. ASSUME OneIsMarked
        PROVE  Cardinality(CurrentReleases) <= 1
    <3>1. CASE CurrentReleases = {}
      BY <3>1, FS_EmptySet
    <3>2. CASE CurrentReleases # {}
      <4>1. PICK r : CurrentReleases = {r}
        BY <2>2, <3>2 DEF OneIsMarked
      <4> QED
        BY <4>1, FS_Singleton
    <3> QED
      BY <3>1, <3>2
  <2> QED
    BY <2>1, <2>2 DEF CurrentIsPublished, ReleasesInv
<1> QED
  BY <1>1, <1>2, <1>3, PTL DEF SpecReleases

-----------------------------------------------------------------------------
(* The wallet in memory *)

Steps == {"idle", "routing", "charging", "releasing", "delivered", "failed"}
UnderWay == {"routing", "charging", "releasing"}

ReservationRows == [request : ChatIds \union JobIds \union {""}, amount : Nat]
MemoryChatRows == [step : Steps, id : ReservationIds \union {0}, charge : Nat]
MemoryJobRows == [status : {"none", "active", "completed", "failed"},
                  id : ReservationIds \union {0}, reserved : Nat, cost : Nat,
                  charge : Nat, calls : Nat, sharedBy : {"nobody", "chat"}]

MemoryTypeOK ==
    /\ wallet \in [balance : Nat, reserved : Nat, spent : Nat]
    /\ reservations \in [ReservationIds -> ReservationRows]
    /\ memoryChats \in [MemoryChats -> MemoryChatRows]
    /\ memoryJobs \in [JobIds -> MemoryJobRows]

AmountOf == [i \in ReservationIds |-> reservations[i].amount]

ReservedIsSum ==
    /\ wallet.reserved = SumOf(AmountOf)
    /\ wallet.reserved <= wallet.balance

HeldBySome(i) == \/ \E q \in MemoryChats : memoryChats[q].id = i
                 \/ \E j \in JobIds : memoryJobs[j].id = i

(* A reservation that stands is somebody's.                                *)
StandingAreHeld ==
    \A i \in ReservationIds : Standing(i) => reservations[i].request # "" /\ HeldBySome(i)

(* A chat knows a reservation while it is under way.                       *)
ChatsHoldTheirs ==
    \A q \in MemoryChats :
        memoryChats[q].step \in UnderWay <=> memoryChats[q].id \in ReservationIds

(* The reservation a job knows while it is active is its own or gone, and  *)
(* no chat knows it as long as none has shared it; another job knows none.    *)
JobHolds(j) ==
    memoryJobs[j].status = "active" =>
        /\ memoryJobs[j].id \in ReservationIds
        /\ reservations[memoryJobs[j].id].request \in {"", j}

OnlyJobHolds(j) ==
    memoryJobs[j].status = "active" /\ memoryJobs[j].sharedBy = "nobody" =>
        /\ reservations[memoryJobs[j].id].request = j
        /\ reservations[memoryJobs[j].id].amount = memoryJobs[j].reserved
        /\ \A q \in MemoryChats : memoryChats[q].id # memoryJobs[j].id

JobsHoldTheirs ==
    \A j \in JobIds :
        /\ JobHolds(j)
        /\ OnlyJobHolds(j)
        /\ memoryJobs[j].status # "active" => memoryJobs[j].id = 0

MemoryLinks == StandingAreHeld /\ ChatsHoldTheirs /\ JobsHoldTheirs

DeliveredBy == [q \in MemoryChats |->
                  IF memoryChats[q].step = "delivered" THEN memoryChats[q].charge ELSE 0]
ChargeOf == [j \in JobIds |-> memoryJobs[j].charge]

SpentIsSum ==
    /\ wallet.spent = SumOf(DeliveredBy) + SumOf(ChargeOf)
    /\ \A j \in JobIds : /\ memoryJobs[j].charge <= memoryJobs[j].reserved
                         /\ memoryJobs[j].status # "completed" => memoryJobs[j].charge = 0

MemoryInv == MemoryTypeOK /\ ReservedIsSum /\ MemoryLinks /\ SpentIsSum

LEMMA AmountsType ==
    ASSUME MemoryTypeOK
    PROVE  AmountOf \in [ReservationIds -> Nat] /\ SumOf(AmountOf) \in Nat
<1>1. AmountOf \in [ReservationIds -> Nat]
  BY DEF MemoryTypeOK, ReservationRows, AmountOf
<1> QED
  BY <1>1, MemoryAssumption, SumType

LEMMA AmountsTypeNext ==
    ASSUME reservations' \in [ReservationIds -> ReservationRows]
    PROVE  AmountOf' \in [ReservationIds -> Nat] /\ SumOf(AmountOf)' \in Nat
<1>1. AmountOf' \in [ReservationIds -> Nat]
  BY DEF ReservationRows, AmountOf
<1> QED
  BY <1>1, MemoryAssumption, SumType

(* Only the amount of the reservation that changes moves the sum.          *)
LEMMA OneAmount ==
    ASSUME MemoryTypeOK, reservations' \in [ReservationIds -> ReservationRows],
           NEW i \in ReservationIds,
           \A k \in ReservationIds \ {i} : reservations'[k] = reservations[k]
    PROVE  SumOf(AmountOf)' + reservations[i].amount = SumOf(AmountOf) + reservations'[i].amount
<1>1. PICK f \in [ReservationIds -> Nat] : f = AmountOf
  BY AmountsType
<1>2. PICK g \in [ReservationIds -> Nat] : g = AmountOf'
  BY AmountsTypeNext
<1>3. \A k \in ReservationIds \ {i} : g[k] = f[k]
  BY <1>1, <1>2 DEF AmountOf
<1>4. SumOf(g) + f[i] = SumOf(f) + g[i]
  <2>1. IsFiniteSet(ReservationIds)
    BY MemoryAssumption
  <2> QED
    BY <1>3, <2>1, SumChange
<1>5. f[i] = reservations[i].amount /\ g[i] = reservations'[i].amount
  BY <1>1, <1>2 DEF AmountOf
<1> QED
  BY <1>1, <1>2, <1>4, <1>5

LEMMA NoReservationRow ==
    NoReservation \in ReservationRows /\ NoReservation.request = "" /\ NoReservation.amount = 0
BY DEF NoReservation, ReservationRows

(* The end of a reservation that stands.                                   *)
LEMMA Ending ==
    ASSUME MemoryTypeOK, ReservedIsSum, NEW i \in ReservationIds,
           reservations' = [reservations EXCEPT ![i] = NoReservation]
    PROVE  /\ reservations' \in [ReservationIds -> ReservationRows]
           /\ reservations'[i] = NoReservation
           /\ \A k \in ReservationIds \ {i} : reservations'[k] = reservations[k]
           /\ OthersReserve(i) \in Nat /\ OthersReserve(i) = SumOf(AmountOf)'
           /\ OthersReserve(i) <= wallet.reserved
<1>1. /\ reservations' \in [ReservationIds -> ReservationRows]
      /\ reservations'[i] = NoReservation
      /\ \A k \in ReservationIds \ {i} : reservations'[k] = reservations[k]
  BY NoReservationRow DEF MemoryTypeOK
<1>2. SumOf(AmountOf)' + reservations[i].amount = SumOf(AmountOf) + 0
  BY <1>1, OneAmount, NoReservationRow
<1>3. /\ SumOf(AmountOf) \in Nat /\ SumOf(AmountOf)' \in Nat
      /\ reservations[i].amount \in Nat /\ wallet.reserved = SumOf(AmountOf)
  BY <1>1, AmountsType, AmountsTypeNext DEF MemoryTypeOK, ReservationRows, ReservedIsSum
<1>4. wallet.reserved - reservations[i].amount = SumOf(AmountOf)'
  BY <1>2, <1>3
<1>5. OthersReserve(i) = SumOf(AmountOf)'
  BY <1>3, <1>4 DEF OthersReserve, Larger
<1>6. SumOf(AmountOf)' <= wallet.reserved
  BY <1>2, <1>3
<1> QED
  BY <1>1, <1>3, <1>5, <1>6

LEMMA Ended ==
    ASSUME MemoryTypeOK, ReservedIsSum, NEW i \in ReservationIds, ReleaseMemory(i)
    PROVE  /\ reservations' \in [ReservationIds -> ReservationRows]
           /\ reservations'[i] = NoReservation
           /\ \A k \in ReservationIds \ {i} : reservations'[k] = reservations[k]
           /\ wallet' \in [balance : Nat, reserved : Nat, spent : Nat]
           /\ wallet'.spent = wallet.spent
           /\ ReservedIsSum'
<1>1. CASE Standing(i)
  <2>1. /\ wallet' = [wallet EXCEPT !.reserved = OthersReserve(i)]
        /\ reservations' = [reservations EXCEPT ![i] = NoReservation]
    BY <1>1 DEF ReleaseMemory
  <2>2. PICK others \in Nat : /\ others = OthersReserve(i) /\ others = SumOf(AmountOf)'
                              /\ others <= wallet.reserved
    BY <2>1, Ending
  <2>3. /\ reservations' \in [ReservationIds -> ReservationRows]
        /\ reservations'[i] = NoReservation
        /\ \A k \in ReservationIds \ {i} : reservations'[k] = reservations[k]
    BY <2>1, Ending
  <2>4. /\ wallet' \in [balance : Nat, reserved : Nat, spent : Nat]
        /\ wallet'.spent = wallet.spent /\ wallet'.balance = wallet.balance
        /\ wallet'.reserved = others
    BY <2>1, <2>2 DEF MemoryTypeOK
  <2>5. wallet.reserved \in Nat /\ wallet.balance \in Nat /\ wallet.reserved <= wallet.balance
    BY DEF MemoryTypeOK, ReservedIsSum
  <2>6. others <= wallet.balance
    BY <2>2, <2>5
  <2> QED
    BY <2>2, <2>3, <2>4, <2>6 DEF ReservedIsSum
<1>2. CASE ~Standing(i)
  <2>1. wallet' = wallet /\ reservations' = reservations
    BY <1>2 DEF ReleaseMemory
  <2> QED
    BY <1>2, <2>1 DEF Standing, MemoryTypeOK, ReservedIsSum, AmountOf
<1> QED
  BY <1>1, <1>2

LEMMA SettledInMemory ==
    ASSUME MemoryTypeOK, ReservedIsSum, NEW i \in ReservationIds, NEW actual \in Nat,
           CanSettle(i, actual), SettleMemory(i, actual)
    PROVE  /\ reservations' \in [ReservationIds -> ReservationRows]
           /\ reservations'[i] = NoReservation
           /\ \A k \in ReservationIds \ {i} : reservations'[k] = reservations[k]
           /\ wallet' \in [balance : Nat, reserved : Nat, spent : Nat]
           /\ wallet'.spent = wallet.spent + actual
           /\ ReservedIsSum'
<1>1. /\ wallet' = [balance |-> wallet.balance - actual, reserved |-> OthersReserve(i),
                    spent |-> wallet.spent + actual]
      /\ reservations' = [reservations EXCEPT ![i] = NoReservation]
      /\ wallet.balance - OthersReserve(i) >= actual
  BY DEF SettleMemory, CanSettle
<1>2. PICK others \in Nat : others = OthersReserve(i) /\ others = SumOf(AmountOf)'
  BY <1>1, Ending
<1>3. /\ reservations' \in [ReservationIds -> ReservationRows]
      /\ reservations'[i] = NoReservation
      /\ \A k \in ReservationIds \ {i} : reservations'[k] = reservations[k]
  BY <1>1, Ending
<1>4. PICK balance \in Nat, spent \in Nat : balance = wallet.balance /\ spent = wallet.spent
  BY DEF MemoryTypeOK
<1>5. balance - actual \in Nat /\ others <= balance - actual /\ spent + actual \in Nat
  BY <1>1, <1>2, <1>4
<1>6. wallet' = [balance |-> balance - actual, reserved |-> others, spent |-> spent + actual]
  BY <1>1, <1>2, <1>4
<1>7. /\ wallet' \in [balance : Nat, reserved : Nat, spent : Nat]
      /\ wallet'.spent = spent + actual /\ wallet'.reserved = others
      /\ wallet'.balance = balance - actual
  BY <1>5, <1>6
<1> QED
  BY <1>2, <1>3, <1>4, <1>5, <1>7 DEF ReservedIsSum

-----------------------------------------------------------------------------
(* A reservation that nobody knows: there are enough for everybody who may *)
(* know one, and the request that asks knows none.                         *)

LEMMA ImagesAreFewer ==
    ASSUME NEW f, NEW S, IsFiniteSet(S)
    PROVE  /\ IsFiniteSet({f[x].id : x \in S})
           /\ Cardinality({f[x].id : x \in S}) <= Cardinality(S)
<1> DEFINE images == {f[x].id : x \in S}
           g == [x \in S |-> f[x].id]
<1>1. g \in Surjection(S, images)
  BY DEF Surjection
<1> QED
  BY <1>1, FS_Surjection

LEMMA SomeIsUnknown ==
    ASSUME MemoryTypeOK, StandingAreHeld,
           \/ \E q \in MemoryChats : memoryChats[q].id = 0
           \/ \E j \in JobIds : memoryJobs[j].id = 0
    PROVE  \E i \in ReservationIds : ~Remembered(i)
<1> DEFINE chats0 == {q \in MemoryChats : memoryChats[q].id \in ReservationIds}
           jobs0 == {j \in JobIds : memoryJobs[j].id \in ReservationIds}
           A == {memoryChats[q].id : q \in chats0}
           B == {memoryJobs[j].id : j \in jobs0}
<1>1. /\ IsFiniteSet(chats0) /\ Cardinality(chats0) <= Cardinality(MemoryChats)
      /\ Cardinality(MemoryChats) = Cardinality(chats0) => MemoryChats = chats0
  <2>1. chats0 \in SUBSET MemoryChats
    OBVIOUS
  <2> HIDE DEF chats0
  <2> QED
    BY <2>1, MemoryAssumption, FS_Subset
<1>2. /\ IsFiniteSet(jobs0) /\ Cardinality(jobs0) <= Cardinality(JobIds)
      /\ Cardinality(JobIds) = Cardinality(jobs0) => JobIds = jobs0
  <2>1. jobs0 \in SUBSET JobIds
    OBVIOUS
  <2> HIDE DEF jobs0
  <2> QED
    BY <2>1, MemoryAssumption, FS_Subset
<1>3. IsFiniteSet(A) /\ Cardinality(A) <= Cardinality(chats0)
  BY <1>1, ImagesAreFewer
<1>4. IsFiniteSet(B) /\ Cardinality(B) <= Cardinality(jobs0)
  BY <1>2, ImagesAreFewer
<1>5. IsFiniteSet(A \cup B) /\ Cardinality(A \cup B) <= Cardinality(A) + Cardinality(B)
  <2> HIDE DEF A, B
  <2>1. /\ IsFiniteSet(A \cup B)
        /\ Cardinality(A \cup B) = Cardinality(A) + Cardinality(B) - Cardinality(A \cap B)
    BY <1>3, <1>4, FS_Union
  <2>2. IsFiniteSet(A \cap B)
    <3>1. A \cap B \in SUBSET A
      OBVIOUS
    <3> QED
      BY <1>3, <3>1, FS_Subset
  <2>3. /\ Cardinality(A) \in Nat /\ Cardinality(B) \in Nat /\ Cardinality(A \cap B) \in Nat
        /\ Cardinality(A \cup B) \in Nat
    BY <1>3, <1>4, <2>1, <2>2, FS_CardinalityType
  <2> QED
    BY <2>1, <2>3
<1>6. MemoryChats # chats0 \/ JobIds # jobs0
  BY MemoryAssumption
<1>7. Cardinality(A \cup B) < Cardinality(ReservationIds)
  <2>1. /\ Cardinality(A) \in Nat /\ Cardinality(B) \in Nat /\ Cardinality(A \cup B) \in Nat
        /\ Cardinality(chats0) \in Nat /\ Cardinality(jobs0) \in Nat
        /\ Cardinality(MemoryChats) \in Nat /\ Cardinality(JobIds) \in Nat
        /\ Cardinality(ReservationIds) \in Nat
    BY <1>1, <1>2, <1>3, <1>4, <1>5, MemoryAssumption, FS_CardinalityType
  <2>2. Cardinality(ReservationIds) >= Cardinality(MemoryChats) + Cardinality(JobIds)
    BY MemoryAssumption
  <2> HIDE DEF A, B, chats0, jobs0
  <2> QED
    BY <1>1, <1>2, <1>3, <1>4, <1>5, <1>6, <2>1, <2>2
<1>8. A \cup B # ReservationIds
  <2>1. Cardinality(ReservationIds) \in Nat
    BY MemoryAssumption, FS_CardinalityType
  <2> HIDE DEF A, B
  <2> QED
    BY <1>7, <2>1
<1>9. A \cup B \subseteq ReservationIds
  OBVIOUS
<1>10. PICK i \in ReservationIds : i \notin A \cup B
  BY <1>8, <1>9
<1>11. /\ \A q \in MemoryChats : memoryChats[q].id # i
       /\ \A j \in JobIds : memoryJobs[j].id # i
  BY <1>10
<1>12. ~Standing(i)
  BY <1>11 DEF StandingAreHeld, HeldBySome
<1> QED
  BY <1>11, <1>12 DEF Remembered

(* What ReserveMemory does: it finds the reservation of the request or     *)
(* makes one that nobody knows.                                            *)
LEMMA Reserving ==
    ASSUME MemoryTypeOK, ReservedIsSum, StandingAreHeld,
           NEW request \in ChatIds \union JobIds, NEW amount \in Nat,
           CanReserve(request, amount), ReserveMemory(request, amount),
           \/ \E q \in MemoryChats : memoryChats[q].id = 0
           \/ \E j \in JobIds : memoryJobs[j].id = 0
    PROVE  \E i \in ReservationIds :
              /\ i = ReservationFor(request)
              /\ reservations' \in [ReservationIds -> ReservationRows]
              /\ reservations'[i].request = request
              /\ \A k \in ReservationIds \ {i} : reservations'[k] = reservations[k]
              /\ \/ reservations' = reservations
                 \/ /\ Existing(request) = {} /\ ~Remembered(i)
                    /\ reservations'[i].amount = amount
              /\ wallet' \in [balance : Nat, reserved : Nat, spent : Nat]
              /\ wallet'.spent = wallet.spent
              /\ ReservedIsSum'
<1>1. CASE Existing(request) # {}
  <2>1. PICK i \in Existing(request) : i = ReservationFor(request)
    BY <1>1 DEF ReservationFor
  <2>2. i \in ReservationIds /\ reservations[i].request = request
    BY <2>1 DEF Existing
  <2>3. wallet' = wallet /\ reservations' = reservations
    BY <1>1 DEF ReserveMemory
  <2>4. ReservedIsSum'
    BY <2>3 DEF ReservedIsSum, AmountOf
  <2> QED
    BY <2>1, <2>2, <2>3, <2>4 DEF MemoryTypeOK
<1>2. CASE Existing(request) = {}
  <2>1. \E k \in ReservationIds : ~Remembered(k)
    BY SomeIsUnknown
  <2>2. PICK i \in ReservationIds : i = ReservationFor(request) /\ ~Remembered(i)
    BY <1>2, <2>1 DEF ReservationFor
  <2>3. /\ wallet' = [wallet EXCEPT !.reserved = @ + amount]
        /\ reservations' = [reservations EXCEPT ![i] = [request |-> request, amount |-> amount]]
        /\ wallet.balance - wallet.reserved >= amount
    BY <1>2, <2>2 DEF ReserveMemory, CanReserve
  <2>4. [request |-> request, amount |-> amount] \in ReservationRows
    BY DEF ReservationRows
  <2>5. /\ reservations' \in [ReservationIds -> ReservationRows]
        /\ reservations'[i].request = request /\ reservations'[i].amount = amount
        /\ \A k \in ReservationIds \ {i} : reservations'[k] = reservations[k]
    BY <2>3, <2>4 DEF MemoryTypeOK
  <2>6. reservations[i].amount = 0
    BY <2>2, NoReservationRow DEF Remembered, Standing
  <2>7. SumOf(AmountOf)' + 0 = SumOf(AmountOf) + amount
    BY <2>5, <2>6, OneAmount
  <2>8. /\ SumOf(AmountOf) \in Nat /\ SumOf(AmountOf)' \in Nat
        /\ wallet.reserved = SumOf(AmountOf)
    BY <2>5, AmountsType, AmountsTypeNext DEF ReservedIsSum
  <2>9. /\ wallet' \in [balance : Nat, reserved : Nat, spent : Nat]
        /\ wallet'.spent = wallet.spent /\ wallet'.balance = wallet.balance
        /\ wallet'.reserved = wallet.reserved + amount
    BY <2>3 DEF MemoryTypeOK
  <2>10. wallet'.reserved <= wallet'.balance
    BY <2>3, <2>9 DEF MemoryTypeOK
  <2>11. ReservedIsSum'
    BY <2>7, <2>8, <2>9, <2>10 DEF ReservedIsSum
  <2> QED
    BY <1>2, <2>2, <2>5, <2>9, <2>11
<1> QED
  BY <1>1, <1>2

-----------------------------------------------------------------------------
(* Who holds what, after each kind of step *)

LEMMA IdsAreNotNames ==
    0 \notin ReservationIds /\ "" \notin JobIds /\ "" \notin ChatIds
BY MemoryAssumption

LEMMA JobsKnow ==
    ASSUME MemoryLinks, NEW j \in JobIds
    PROVE  /\ JobHolds(j)
           /\ OnlyJobHolds(j)
           /\ memoryJobs[j].status # "active" => memoryJobs[j].id = 0
BY DEF MemoryLinks, JobsHoldTheirs

LEMMA LinksUnmoved ==
    ASSUME MemoryLinks, reservations' = reservations,
           \A q \in MemoryChats : /\ memoryChats'[q].id = memoryChats[q].id
                                  /\ memoryChats'[q].step \in UnderWay
                                        <=> memoryChats[q].step \in UnderWay,
           \A j \in JobIds : /\ memoryJobs'[j].id = memoryJobs[j].id
                             /\ memoryJobs'[j].status = memoryJobs[j].status
                             /\ memoryJobs'[j].reserved = memoryJobs[j].reserved
                             /\ memoryJobs'[j].sharedBy = memoryJobs[j].sharedBy
    PROVE  MemoryLinks'
<1>1. StandingAreHeld'
  <2> SUFFICES ASSUME NEW i \in ReservationIds, reservations'[i] # NoReservation
               PROVE  reservations'[i].request # "" /\ HeldBySome(i)'
    BY Zenon DEF StandingAreHeld, Standing
  <2>1. reservations[i] # NoReservation /\ reservations'[i] = reservations[i]
    BY Zenon
  <2>2. reservations[i].request # "" /\ HeldBySome(i)
    BY <2>1, Zenon DEF MemoryLinks, StandingAreHeld, Standing
  <2>3. HeldBySome(i)'
    BY <2>2, Zenon DEF HeldBySome
  <2> QED
    BY <2>1, <2>2, <2>3, Zenon
<1>2. ChatsHoldTheirs'
  BY DEF MemoryLinks, ChatsHoldTheirs
<1>3. ASSUME NEW j \in JobIds
      PROVE  /\ JobHolds(j)'
             /\ OnlyJobHolds(j)'
             /\ memoryJobs'[j].status # "active" => memoryJobs'[j].id = 0
  <2>1. /\ memoryJobs'[j].id = memoryJobs[j].id
        /\ memoryJobs'[j].status = memoryJobs[j].status
        /\ memoryJobs'[j].reserved = memoryJobs[j].reserved
        /\ memoryJobs'[j].sharedBy = memoryJobs[j].sharedBy
        /\ \A q \in MemoryChats : memoryChats'[q].id = memoryChats[q].id
    OBVIOUS
  <2>2. JobHolds(j) /\ OnlyJobHolds(j) /\ (memoryJobs[j].status # "active" => memoryJobs[j].id = 0)
    BY JobsKnow
  <2>3. JobHolds(j)'
    BY <2>1, <2>2, Zenon DEF JobHolds
  <2>4. OnlyJobHolds(j)'
    BY <2>1, <2>2, Zenon DEF OnlyJobHolds
  <2> QED
    BY <2>1, <2>2, <2>3, <2>4
<1>4. JobsHoldTheirs'
  BY <1>3 DEF JobsHoldTheirs
<1> QED
  BY <1>1, <1>2, <1>4 DEF MemoryLinks

(* A chat joins the reservation of its request, which may be a job's, or   *)
(* has a new one.                                                          *)
LEMMA LinksOfBegun ==
    ASSUME MemoryLinks, NEW q \in MemoryChats, NEW i \in ReservationIds,
           NEW request \in ChatIds,
           memoryChats[q].id = 0, memoryChats'[q].id = i, memoryChats'[q].step \in UnderWay,
           \A p \in MemoryChats \ {q} : memoryChats'[p] = memoryChats[p],
           reservations'[i].request = request,
           \A k \in ReservationIds \ {i} : reservations'[k] = reservations[k],
           reservations' = reservations \/ ~Remembered(i),
           \A j \in JobIds : /\ memoryJobs'[j].id = memoryJobs[j].id
                             /\ memoryJobs'[j].status = memoryJobs[j].status
                             /\ memoryJobs'[j].reserved = memoryJobs[j].reserved
                             /\ memoryJobs'[j].sharedBy = "nobody" => memoryJobs[j].sharedBy = "nobody"
                             /\ j = request /\ memoryJobs[j].status = "active" =>
                                   memoryJobs'[j].sharedBy = "chat"
    PROVE  MemoryLinks'
<1>1. request # "" /\ 0 \notin ReservationIds
  BY IdsAreNotNames
<1>2. ASSUME NEW k \in ReservationIds, Standing(k)'
      PROVE  reservations'[k].request # "" /\ HeldBySome(k)'
  <2>1. CASE k = i
    BY <1>1, <2>1 DEF HeldBySome
  <2>2. CASE k # i
    <3>1. reservations[k].request # "" /\ HeldBySome(k) /\ reservations'[k] = reservations[k]
      BY <1>2, <2>2 DEF MemoryLinks, StandingAreHeld, Standing
    <3>2. \A p \in MemoryChats : memoryChats[p].id = k => memoryChats'[p].id = k
      BY <1>1
    <3> QED
      BY <3>1, <3>2 DEF HeldBySome
  <2> QED
    BY <2>1, <2>2
<1>3. ASSUME NEW p \in MemoryChats
      PROVE  memoryChats'[p].step \in UnderWay <=> memoryChats'[p].id \in ReservationIds
  <2>1. CASE p = q
    BY <1>1, <2>1
  <2>2. CASE p # q
    BY <2>2 DEF MemoryLinks, ChatsHoldTheirs
  <2> QED
    BY <2>1, <2>2
<1>4. ASSUME NEW j \in JobIds
      PROVE  /\ JobHolds(j)'
             /\ OnlyJobHolds(j)'
             /\ memoryJobs'[j].status # "active" => memoryJobs'[j].id = 0
  <2>1. /\ memoryJobs'[j].id = memoryJobs[j].id
        /\ memoryJobs'[j].status = memoryJobs[j].status
        /\ memoryJobs'[j].reserved = memoryJobs[j].reserved
        /\ memoryJobs'[j].sharedBy = "nobody" => memoryJobs[j].sharedBy = "nobody"
    OBVIOUS
  <2>2. memoryJobs[j].status = "active" /\ j = request => memoryJobs'[j].sharedBy = "chat"
    OBVIOUS
  <2>3. JobHolds(j) /\ OnlyJobHolds(j) /\ (memoryJobs[j].status # "active" => memoryJobs[j].id = 0)
    BY JobsKnow
  <2>4. memoryJobs[j].status = "active" =>
            reservations'[memoryJobs[j].id] = reservations[memoryJobs[j].id]
    BY <2>3 DEF JobHolds, Remembered
  <2>5. JobHolds(j)'
    BY <2>1, <2>3, <2>4, Zenon DEF JobHolds
  <2>6. ASSUME memoryJobs'[j].status = "active", memoryJobs'[j].sharedBy = "nobody"
        PROVE  /\ reservations'[memoryJobs'[j].id].request = j
               /\ reservations'[memoryJobs'[j].id].amount = memoryJobs'[j].reserved
               /\ \A p \in MemoryChats : memoryChats'[p].id # memoryJobs'[j].id
    <3>1. memoryJobs[j].status = "active" /\ memoryJobs[j].sharedBy = "nobody" /\ j # request
      BY <2>1, <2>2, <2>6
    <3>2. /\ reservations[memoryJobs[j].id].request = j
          /\ reservations[memoryJobs[j].id].amount = memoryJobs[j].reserved
          /\ \A p \in MemoryChats : memoryChats[p].id # memoryJobs[j].id
      BY <2>3, <3>1, Zenon DEF OnlyJobHolds
    <3>3. /\ reservations'[memoryJobs'[j].id].request = j
          /\ reservations'[memoryJobs'[j].id].amount = memoryJobs'[j].reserved
      BY <2>1, <2>4, <3>1, <3>2, Zenon
    <3>4. memoryJobs'[j].id # i
      BY <3>1, <3>3
    <3>5. \A p \in MemoryChats : memoryChats'[p].id # memoryJobs'[j].id
      <4> SUFFICES ASSUME NEW p \in MemoryChats
                   PROVE  memoryChats'[p].id # memoryJobs'[j].id
        OBVIOUS
      <4>1. CASE p = q
        BY <3>4, <4>1
      <4>2. CASE p # q
        <5>1. memoryChats'[p] = memoryChats[p]
          BY <4>2
        <5> QED
          BY <2>1, <3>2, <5>1, Zenon
      <4> QED
        BY <4>1, <4>2
    <3> QED
      BY <3>3, <3>5
  <2>7. OnlyJobHolds(j)'
    BY <2>6, Zenon DEF OnlyJobHolds
  <2> QED
    BY <2>1, <2>3, <2>5, <2>7
<1>5. StandingAreHeld'
  BY <1>2 DEF StandingAreHeld
<1>6. ChatsHoldTheirs'
  BY <1>3 DEF ChatsHoldTheirs
<1>7. JobsHoldTheirs'
  BY <1>4 DEF JobsHoldTheirs
<1> QED
  BY <1>5, <1>6, <1>7 DEF MemoryLinks

(* A chat ends: the reservation goes, for those it is shared with as well. *)
LEMMA LinksOfEnded ==
    ASSUME MemoryLinks, NEW q \in MemoryChats, NEW i \in ReservationIds,
           memoryChats[q].id = i, memoryChats'[q].id = 0, memoryChats'[q].step \notin UnderWay,
           \A p \in MemoryChats \ {q} : memoryChats'[p] = memoryChats[p],
           reservations'[i] = NoReservation,
           \A k \in ReservationIds \ {i} : reservations'[k] = reservations[k],
           memoryJobs' = memoryJobs
    PROVE  MemoryLinks'
<1>1. 0 \notin ReservationIds /\ reservations'[i].request = ""
  BY IdsAreNotNames, NoReservationRow
<1>2. ASSUME NEW k \in ReservationIds, Standing(k)'
      PROVE  reservations'[k].request # "" /\ HeldBySome(k)'
  <2>1. k # i
    BY <1>2 DEF Standing
  <2>2. reservations[k].request # "" /\ HeldBySome(k) /\ reservations'[k] = reservations[k]
    BY <1>2, <2>1 DEF MemoryLinks, StandingAreHeld, Standing
  <2>3. \A p \in MemoryChats : memoryChats[p].id = k => memoryChats'[p].id = k
    BY <2>1
  <2> QED
    BY <2>2, <2>3 DEF HeldBySome
<1>3. ASSUME NEW p \in MemoryChats
      PROVE  memoryChats'[p].step \in UnderWay <=> memoryChats'[p].id \in ReservationIds
  <2>1. CASE p = q
    BY <1>1, <2>1
  <2>2. CASE p # q
    BY <2>2 DEF MemoryLinks, ChatsHoldTheirs
  <2> QED
    BY <2>1, <2>2
<1>4. ASSUME NEW j \in JobIds, memoryJobs[j].status = "active"
      PROVE  /\ memoryJobs[j].id \in ReservationIds
             /\ reservations'[memoryJobs[j].id].request \in {"", j}
  <2>1. /\ memoryJobs[j].id \in ReservationIds
        /\ reservations[memoryJobs[j].id].request \in {"", j}
    BY <1>4 DEF MemoryLinks, JobsHoldTheirs, JobHolds, OnlyJobHolds
  <2>2. CASE memoryJobs[j].id = i
    BY <1>1, <2>1, <2>2
  <2>3. CASE memoryJobs[j].id # i
    BY <2>1, <2>3
  <2> QED
    BY <2>2, <2>3
<1>5. ASSUME NEW j \in JobIds, memoryJobs[j].status = "active", memoryJobs[j].sharedBy = "nobody"
      PROVE  /\ reservations'[memoryJobs[j].id].request = j
             /\ reservations'[memoryJobs[j].id].amount = memoryJobs[j].reserved
             /\ \A p \in MemoryChats : memoryChats'[p].id # memoryJobs[j].id
  <2>1. /\ reservations[memoryJobs[j].id].request = j
        /\ reservations[memoryJobs[j].id].amount = memoryJobs[j].reserved
        /\ \A p \in MemoryChats : memoryChats[p].id # memoryJobs[j].id
        /\ memoryJobs[j].id \in ReservationIds
    BY <1>5 DEF MemoryLinks, JobsHoldTheirs, JobHolds, OnlyJobHolds
  <2>2. memoryJobs[j].id # i /\ memoryJobs[j].id # 0
    BY <1>1, <2>1
  <2>3. reservations'[memoryJobs[j].id] = reservations[memoryJobs[j].id]
    BY <2>1, <2>2
  <2>4. \A p \in MemoryChats : memoryChats'[p].id # memoryJobs[j].id
    BY <2>1, <2>2
  <2> QED
    BY <2>1, <2>3, <2>4
<1>6. StandingAreHeld'
  BY <1>2 DEF StandingAreHeld
<1>7. ChatsHoldTheirs'
  BY <1>3 DEF ChatsHoldTheirs
<1>8. JobsHoldTheirs'
  BY <1>4, <1>5 DEF MemoryLinks, JobsHoldTheirs, JobHolds, OnlyJobHolds
<1> QED
  BY <1>6, <1>7, <1>8 DEF MemoryLinks

(* A job has a new reservation, or that of a chat.                         *)
LEMMA LinksOfStarted ==
    ASSUME MemoryLinks, NEW j \in JobIds, NEW i \in ReservationIds,
           memoryJobs[j].id = 0, memoryJobs'[j].id = i, memoryJobs'[j].status = "active",
           \A l \in JobIds \ {j} : memoryJobs'[l] = memoryJobs[l],
           reservations'[i].request = j, reservations'[i].amount = memoryJobs'[j].reserved,
           \A k \in ReservationIds \ {i} : reservations'[k] = reservations[k],
           \/ reservations' = reservations /\ memoryJobs'[j].sharedBy = "chat"
           \/ ~Remembered(i),
           memoryChats' = memoryChats
    PROVE  MemoryLinks'
<1>1. j # "" /\ 0 \notin ReservationIds
  BY IdsAreNotNames
<1>2. ASSUME NEW k \in ReservationIds, Standing(k)'
      PROVE  reservations'[k].request # "" /\ HeldBySome(k)'
  <2>1. CASE k = i
    BY <1>1, <2>1 DEF HeldBySome
  <2>2. CASE k # i
    <3>1. reservations[k].request # "" /\ HeldBySome(k) /\ reservations'[k] = reservations[k]
      BY <1>2, <2>2 DEF MemoryLinks, StandingAreHeld, Standing
    <3>2. \A l \in JobIds : memoryJobs[l].id = k => memoryJobs'[l].id = k
      BY <1>1
    <3> QED
      BY <3>1, <3>2 DEF HeldBySome
  <2> QED
    BY <2>1, <2>2
<1>3. ASSUME NEW l \in JobIds, l # j, memoryJobs[l].status = "active"
      PROVE  /\ memoryJobs[l].id \in ReservationIds
             /\ reservations'[memoryJobs[l].id] = reservations[memoryJobs[l].id]
  <2>1. memoryJobs[l].id \in ReservationIds
    BY <1>3 DEF MemoryLinks, JobsHoldTheirs, JobHolds, OnlyJobHolds
  <2>2. CASE ~Remembered(i)
    BY <2>1, <2>2 DEF Remembered
  <2> QED
    BY <2>1, <2>2
<1>4. ASSUME NEW l \in JobIds
      PROVE  /\ JobHolds(l)'
             /\ OnlyJobHolds(l)'
             /\ memoryJobs'[l].status # "active" => memoryJobs'[l].id = 0
  <2>1. CASE l = j
    BY <2>1 DEF Remembered, JobHolds, OnlyJobHolds
  <2>2. CASE l # j
    <3>1. memoryJobs'[l] = memoryJobs[l]
      BY <2>2
    <3>2. /\ JobHolds(l) /\ OnlyJobHolds(l)
          /\ memoryJobs[l].status # "active" => memoryJobs[l].id = 0
      BY JobsKnow
    <3>3. JobHolds(l)'
      BY <1>3, <2>2, <3>1, <3>2, Zenon DEF JobHolds
    <3>4. OnlyJobHolds(l)'
      BY <1>3, <2>2, <3>1, <3>2, Zenon DEF OnlyJobHolds
    <3> QED
      BY <3>1, <3>2, <3>3, <3>4
  <2> QED
    BY <2>1, <2>2
<1>5. StandingAreHeld'
  BY <1>2 DEF StandingAreHeld
<1>6. ChatsHoldTheirs'
  BY DEF MemoryLinks, ChatsHoldTheirs
<1>7. JobsHoldTheirs'
  BY <1>4 DEF JobsHoldTheirs, JobHolds, OnlyJobHolds
<1> QED
  BY <1>5, <1>6, <1>7 DEF MemoryLinks

(* A job is over.                                                          *)
LEMMA LinksOfOver ==
    ASSUME MemoryLinks, NEW j \in JobIds, NEW i \in ReservationIds,
           memoryJobs[j].status = "active", memoryJobs[j].id = i,
           memoryJobs'[j].id = 0, memoryJobs'[j].status # "active",
           \A l \in JobIds \ {j} : memoryJobs'[l] = memoryJobs[l],
           reservations'[i] = NoReservation,
           \A k \in ReservationIds \ {i} : reservations'[k] = reservations[k],
           memoryChats' = memoryChats
    PROVE  MemoryLinks'
<1>1. /\ 0 \notin ReservationIds /\ "" \notin JobIds
      /\ reservations'[i].request = "" /\ reservations[i].request \in {"", j}
  BY IdsAreNotNames, NoReservationRow DEF MemoryLinks, JobsHoldTheirs, JobHolds, OnlyJobHolds
<1>2. ASSUME NEW k \in ReservationIds, Standing(k)'
      PROVE  reservations'[k].request # "" /\ HeldBySome(k)'
  <2>1. k # i
    BY <1>2 DEF Standing
  <2>2. reservations[k].request # "" /\ HeldBySome(k) /\ reservations'[k] = reservations[k]
    BY <1>2, <2>1 DEF MemoryLinks, StandingAreHeld, Standing
  <2>3. \A l \in JobIds : memoryJobs[l].id = k => memoryJobs'[l].id = k
    BY <2>1
  <2> QED
    BY <2>2, <2>3 DEF HeldBySome
<1>3. ASSUME NEW l \in JobIds, l # j, memoryJobs[l].status = "active"
      PROVE  /\ memoryJobs[l].id \in ReservationIds
             /\ reservations'[memoryJobs[l].id].request \in {"", l}
  <2>1. /\ memoryJobs[l].id \in ReservationIds
        /\ reservations[memoryJobs[l].id].request \in {"", l}
    BY <1>3 DEF MemoryLinks, JobsHoldTheirs, JobHolds, OnlyJobHolds
  <2>2. CASE memoryJobs[l].id = i
    BY <1>1, <2>1, <2>2
  <2>3. CASE memoryJobs[l].id # i
    BY <2>1, <2>3
  <2> QED
    BY <2>2, <2>3
<1>4. ASSUME NEW l \in JobIds, l # j, memoryJobs[l].status = "active", memoryJobs[l].sharedBy = "nobody"
      PROVE  /\ reservations'[memoryJobs[l].id].request = l
             /\ reservations'[memoryJobs[l].id].amount = memoryJobs[l].reserved
             /\ \A q \in MemoryChats : memoryChats'[q].id # memoryJobs[l].id
  <2>1. /\ reservations[memoryJobs[l].id].request = l
        /\ reservations[memoryJobs[l].id].amount = memoryJobs[l].reserved
        /\ \A q \in MemoryChats : memoryChats[q].id # memoryJobs[l].id
        /\ memoryJobs[l].id \in ReservationIds
    BY <1>4 DEF MemoryLinks, JobsHoldTheirs, JobHolds, OnlyJobHolds
  <2>2. memoryJobs[l].id # i
    BY <1>1, <1>4, <2>1
  <2> QED
    BY <2>1, <2>2
<1>5. ASSUME NEW l \in JobIds
      PROVE  /\ JobHolds(l)'
             /\ OnlyJobHolds(l)'
             /\ memoryJobs'[l].status # "active" => memoryJobs'[l].id = 0
  <2>1. CASE l = j
    BY <2>1 DEF JobHolds, OnlyJobHolds
  <2>2. CASE l # j
    <3>1. memoryJobs'[l] = memoryJobs[l]
      BY <2>2
    <3>2. memoryJobs[l].status # "active" => memoryJobs[l].id = 0
      BY JobsKnow
    <3>3. JobHolds(l)'
      BY <1>3, <2>2, <3>1, Zenon DEF JobHolds
    <3>4. OnlyJobHolds(l)'
      <4>1. ASSUME memoryJobs[l].status = "active", memoryJobs[l].sharedBy = "nobody"
            PROVE  /\ reservations'[memoryJobs[l].id].request = l
                   /\ reservations'[memoryJobs[l].id].amount = memoryJobs[l].reserved
                   /\ \A q \in MemoryChats : memoryChats'[q].id # memoryJobs[l].id
        BY <1>4, <2>2, <4>1
      <4> QED
        BY <3>1, <4>1, Zenon DEF OnlyJobHolds
    <3> QED
      BY <3>1, <3>2, <3>3, <3>4
  <2> QED
    BY <2>1, <2>2
<1>6. StandingAreHeld'
  BY <1>2 DEF StandingAreHeld
<1>7. ChatsHoldTheirs'
  BY DEF MemoryLinks, ChatsHoldTheirs
<1>8. JobsHoldTheirs'
  BY <1>5 DEF JobsHoldTheirs, JobHolds, OnlyJobHolds
<1> QED
  BY <1>6, <1>7, <1>8 DEF MemoryLinks

-----------------------------------------------------------------------------
(* What is spent *)

LEMMA PaidTypes ==
    ASSUME MemoryTypeOK
    PROVE  /\ DeliveredBy \in [MemoryChats -> Nat] /\ SumOf(DeliveredBy) \in Nat
           /\ ChargeOf \in [JobIds -> Nat] /\ SumOf(ChargeOf) \in Nat
           /\ wallet.spent \in Nat
<1>1. DeliveredBy \in [MemoryChats -> Nat]
  BY DEF MemoryTypeOK, MemoryChatRows, DeliveredBy
<1>2. ChargeOf \in [JobIds -> Nat]
  BY DEF MemoryTypeOK, MemoryJobRows, ChargeOf
<1>3. IsFiniteSet(MemoryChats) /\ IsFiniteSet(JobIds)
  BY MemoryAssumption
<1> QED
  BY <1>1, <1>2, <1>3, SumType DEF MemoryTypeOK

LEMMA SpentTypesNext ==
    ASSUME MemoryTypeOK'
    PROVE  /\ DeliveredBy' \in [MemoryChats -> Nat] /\ SumOf(DeliveredBy)' \in Nat
           /\ ChargeOf' \in [JobIds -> Nat] /\ SumOf(ChargeOf)' \in Nat
           /\ wallet'.spent \in Nat
<1>1. DeliveredBy' \in [MemoryChats -> Nat]
  BY DEF MemoryTypeOK, MemoryChatRows, DeliveredBy
<1>2. ChargeOf' \in [JobIds -> Nat]
  BY DEF MemoryTypeOK, MemoryJobRows, ChargeOf
<1>3. IsFiniteSet(MemoryChats) /\ IsFiniteSet(JobIds)
  BY MemoryAssumption
<1> QED
  BY <1>1, <1>2, <1>3, SumType DEF MemoryTypeOK

(* A step by which nothing is delivered and no job is charged.             *)
LEMMA SpentUnmoved ==
    ASSUME MemoryTypeOK, SpentIsSum, wallet'.spent = wallet.spent,
           \A q \in MemoryChats : /\ memoryChats'[q].step = "delivered"
                                        <=> memoryChats[q].step = "delivered"
                                  /\ memoryChats[q].step = "delivered" =>
                                        memoryChats'[q].charge = memoryChats[q].charge,
           \A j \in JobIds : /\ memoryJobs'[j].charge = memoryJobs[j].charge
                             /\ memoryJobs'[j].charge <= memoryJobs'[j].reserved
                             /\ memoryJobs'[j].status # "completed" =>
                                   memoryJobs[j].status # "completed"
    PROVE  SpentIsSum'
<1>1. DeliveredBy' = DeliveredBy
  BY DEF DeliveredBy
<1>2. ChargeOf' = ChargeOf
  BY DEF ChargeOf
<1> QED
  BY <1>1, <1>2 DEF SpentIsSum

(* A chat is delivered, and pays what it costs.                            *)
LEMMA SpentOnChat ==
    ASSUME MemoryTypeOK, MemoryTypeOK', SpentIsSum, NEW q \in MemoryChats,
           memoryChats[q].step # "delivered", memoryChats'[q].step = "delivered",
           \A p \in MemoryChats \ {q} : memoryChats'[p] = memoryChats[p],
           wallet'.spent = wallet.spent + memoryChats'[q].charge,
           memoryJobs' = memoryJobs
    PROVE  SpentIsSum'
<1>1. PICK f \in [MemoryChats -> Nat] : f = DeliveredBy
  BY PaidTypes
<1>2. PICK g \in [MemoryChats -> Nat] : g = DeliveredBy'
  BY SpentTypesNext
<1>3. PICK charge \in Nat : charge = memoryChats'[q].charge
  BY DEF MemoryTypeOK, MemoryChatRows
<1>4. /\ f[q] = 0 /\ g[q] = charge
      /\ \A p \in MemoryChats \ {q} : g[p] = f[p]
  BY <1>1, <1>2, <1>3 DEF DeliveredBy
<1>5. SumOf(g) + f[q] = SumOf(f) + g[q]
  <2>1. IsFiniteSet(MemoryChats)
    BY MemoryAssumption
  <2> QED
    BY <1>4, <2>1, SumChange
<1>6. ChargeOf' = ChargeOf
  BY DEF ChargeOf
<1>7. PICK a \in Nat, b \in Nat, c \in Nat :
         /\ a = SumOf(f) /\ b = SumOf(g) /\ c = SumOf(ChargeOf)
  BY <1>1, <1>2, PaidTypes, SpentTypesNext
<1>8. b = a + charge
  BY <1>4, <1>5, <1>7
<1>9. wallet.spent = a + c /\ wallet'.spent = wallet.spent + charge
  BY <1>1, <1>3, <1>7 DEF SpentIsSum
<1>10. wallet'.spent = b + c
  BY <1>8, <1>9
<1> QED
  BY <1>2, <1>6, <1>7, <1>10 DEF SpentIsSum

(* A job is completed.                                                     *)
LEMMA SpentOnJob ==
    ASSUME MemoryTypeOK, MemoryTypeOK', SpentIsSum, NEW j \in JobIds,
           memoryJobs[j].charge = 0, memoryJobs'[j].status = "completed",
           memoryJobs'[j].charge <= memoryJobs'[j].reserved,
           \A l \in JobIds \ {j} : memoryJobs'[l] = memoryJobs[l],
           wallet'.spent = wallet.spent + memoryJobs'[j].charge,
           memoryChats' = memoryChats
    PROVE  SpentIsSum'
<1>1. PICK f \in [JobIds -> Nat] : f = ChargeOf
  BY PaidTypes
<1>2. PICK g \in [JobIds -> Nat] : g = ChargeOf'
  BY SpentTypesNext
<1>3. PICK charge \in Nat : charge = memoryJobs'[j].charge
  BY DEF MemoryTypeOK, MemoryJobRows
<1>4. /\ f[j] = 0 /\ g[j] = charge
      /\ \A l \in JobIds \ {j} : g[l] = f[l]
  BY <1>1, <1>2, <1>3 DEF ChargeOf
<1>5. SumOf(g) + f[j] = SumOf(f) + g[j]
  <2>1. IsFiniteSet(JobIds)
    BY MemoryAssumption
  <2> QED
    BY <1>4, <2>1, SumChange
<1>6. DeliveredBy' = DeliveredBy
  BY DEF DeliveredBy
<1>7. PICK a \in Nat, b \in Nat, c \in Nat :
         /\ a = SumOf(f) /\ b = SumOf(g) /\ c = SumOf(DeliveredBy)
  BY <1>1, <1>2, PaidTypes, SpentTypesNext
<1>8. b = a + charge
  BY <1>4, <1>5, <1>7
<1>9. wallet.spent = c + a /\ wallet'.spent = wallet.spent + charge
  BY <1>1, <1>3, <1>7 DEF SpentIsSum
<1>10. wallet'.spent = c + b
  BY <1>8, <1>9
<1>11. \A l \in JobIds : /\ memoryJobs'[l].charge <= memoryJobs'[l].reserved
                         /\ memoryJobs'[l].status # "completed" => memoryJobs'[l].charge = 0
  <2>1. TAKE l \in JobIds
  <2>2. CASE l = j
    BY <2>2
  <2>3. CASE l # j
    BY <2>3 DEF SpentIsSum
  <2> QED
    BY <2>2, <2>3
<1> QED
  BY <1>2, <1>6, <1>7, <1>10, <1>11 DEF SpentIsSum

-----------------------------------------------------------------------------
(* Chats *)

LEMMA ChatMoved ==
    ASSUME MemoryTypeOK, NEW q \in MemoryChats, NEW next \in MemoryChatRows, ChatTo(q, next)
    PROVE  /\ memoryChats' \in [MemoryChats -> MemoryChatRows]
           /\ memoryChats'[q] = next
           /\ \A p \in MemoryChats \ {q} : memoryChats'[p] = memoryChats[p]
BY DEF MemoryTypeOK, ChatTo

(* One that goes on or gives up and touches no reservation.                *)
LEMMA ChatGoesOn ==
    ASSUME MemoryInv, NEW q \in MemoryChats, NEW next \in MemoryChatRows, ChatTo(q, next),
           next.id = memoryChats[q].id,
           next.step \in UnderWay <=> memoryChats[q].step \in UnderWay,
           next.step # "delivered", memoryChats[q].step # "delivered",
           UNCHANGED <<wallet, reservations, memoryJobs>>
    PROVE  MemoryInv'
<1>1. /\ memoryChats' \in [MemoryChats -> MemoryChatRows]
      /\ memoryChats'[q] = next
      /\ \A p \in MemoryChats \ {q} : memoryChats'[p] = memoryChats[p]
  BY ChatMoved DEF MemoryInv
<1>2. MemoryTypeOK' /\ ReservedIsSum'
  BY <1>1 DEF MemoryInv, MemoryTypeOK, ReservedIsSum, AmountOf
<1>3. \A p \in MemoryChats : /\ memoryChats'[p].id = memoryChats[p].id
                             /\ memoryChats'[p].step \in UnderWay
                                   <=> memoryChats[p].step \in UnderWay
  BY <1>1
<1>4. MemoryLinks'
  BY <1>3, LinksUnmoved DEF MemoryInv
<1>5. \A p \in MemoryChats : /\ memoryChats'[p].step = "delivered"
                                   <=> memoryChats[p].step = "delivered"
                             /\ memoryChats[p].step = "delivered" =>
                                   memoryChats'[p].charge = memoryChats[p].charge
  BY <1>1
<1>6. SpentIsSum'
  BY <1>5, SpentUnmoved DEF MemoryInv, SpentIsSum
<1> QED
  BY <1>2, <1>4, <1>6 DEF MemoryInv

LEMMA ChatBegins ==
    ASSUME MemoryInv, NEW q \in MemoryChats, NEW request \in ChatIds, BeginChat(q, request)
    PROVE  MemoryInv'
<1>1. /\ memoryChats[q].step = "idle" /\ memoryChats[q] \in MemoryChatRows
      /\ memoryJobs \in [JobIds -> MemoryJobRows]
  BY DEF BeginChat, ChatAt, MemoryInv, MemoryTypeOK
<1>2. memoryChats[q].id = 0
  BY <1>1 DEF MemoryInv, MemoryLinks, ChatsHoldTheirs, UnderWay, MemoryChatRows
<1>3. CASE CanReserve(request, ChatEstimate)
  <2>1. /\ ReserveMemory(request, ChatEstimate)
        /\ ChatTo(q, [step |-> "routing", id |-> ReservationFor(request), charge |-> 0])
        /\ memoryJobs' = Joined(request)
    BY <1>3 DEF BeginChat
  <2>2. request \in ChatIds \union JobIds /\ ChatEstimate \in Nat
    BY MemoryAssumption
  <2>3. PICK i \in ReservationIds :
              /\ i = ReservationFor(request)
              /\ reservations' \in [ReservationIds -> ReservationRows]
              /\ reservations'[i].request = request
              /\ \A k \in ReservationIds \ {i} : reservations'[k] = reservations[k]
              /\ reservations' = reservations \/ ~Remembered(i)
              /\ wallet' \in [balance : Nat, reserved : Nat, spent : Nat]
              /\ wallet'.spent = wallet.spent
              /\ ReservedIsSum'
    BY <1>2, <1>3, <2>1, <2>2, Reserving DEF MemoryInv, MemoryLinks
  <2>4. PICK next : next = [step |-> "routing", id |-> i, charge |-> 0]
    OBVIOUS
  <2>5. /\ next \in MemoryChatRows /\ next.step = "routing" /\ next.id = i
    BY <2>4 DEF MemoryChatRows, Steps
  <2>6. ChatTo(q, next)
    BY <2>1, <2>3, <2>4
  <2>7. /\ memoryChats' \in [MemoryChats -> MemoryChatRows]
        /\ memoryChats'[q] = next
        /\ \A p \in MemoryChats \ {q} : memoryChats'[p] = memoryChats[p]
    BY <2>5, <2>6, ChatMoved DEF MemoryInv
  <2>8. \A j \in JobIds :
            /\ memoryJobs'[j] = IF j = request /\ memoryJobs[j].status = "active"
                                THEN [memoryJobs[j] EXCEPT !.sharedBy = "chat"] ELSE memoryJobs[j]
            /\ memoryJobs[j] \in MemoryJobRows
    BY <1>1, <2>1 DEF Joined
  <2>9. \A j \in JobIds :
            /\ memoryJobs'[j] \in MemoryJobRows
            /\ memoryJobs'[j].id = memoryJobs[j].id
            /\ memoryJobs'[j].status = memoryJobs[j].status
            /\ memoryJobs'[j].reserved = memoryJobs[j].reserved
            /\ memoryJobs'[j].charge = memoryJobs[j].charge
            /\ memoryJobs'[j].sharedBy = "nobody" => memoryJobs[j].sharedBy = "nobody"
            /\ j = request /\ memoryJobs[j].status = "active" => memoryJobs'[j].sharedBy = "chat"
    <3> SUFFICES ASSUME NEW j \in JobIds
                 PROVE  /\ memoryJobs'[j] \in MemoryJobRows
                        /\ memoryJobs'[j].id = memoryJobs[j].id
                        /\ memoryJobs'[j].status = memoryJobs[j].status
                        /\ memoryJobs'[j].reserved = memoryJobs[j].reserved
                        /\ memoryJobs'[j].charge = memoryJobs[j].charge
                        /\ memoryJobs'[j].sharedBy = "nobody" => memoryJobs[j].sharedBy = "nobody"
                        /\ j = request /\ memoryJobs[j].status = "active" =>
                              memoryJobs'[j].sharedBy = "chat"
      OBVIOUS
    <3>1. PICK row : row = memoryJobs[j]
      OBVIOUS
    <3>2. row \in MemoryJobRows
      BY <2>8, <3>1
    <3>3. CASE j = request /\ row.status = "active"
      <4>1. memoryJobs'[j] = [row EXCEPT !.sharedBy = "chat"]
        BY <2>8, <3>1, <3>3
      <4> QED
        BY <3>1, <3>2, <4>1 DEF MemoryJobRows
    <3>4. CASE ~(j = request /\ row.status = "active")
      BY <2>8, <3>1, <3>2, <3>4
    <3> QED
      BY <3>3, <3>4
  <2>10. memoryJobs' \in [JobIds -> MemoryJobRows]
    BY <2>1, <2>9 DEF Joined
  <2>11. MemoryTypeOK'
    BY <2>3, <2>7, <2>10 DEF MemoryInv, MemoryTypeOK
  <2>12. MemoryLinks'
    BY <1>2, <2>3, <2>5, <2>7, <2>9, LinksOfBegun DEF MemoryInv, UnderWay
  <2>13. \A p \in MemoryChats : /\ memoryChats'[p].step = "delivered"
                                      <=> memoryChats[p].step = "delivered"
                                /\ memoryChats[p].step = "delivered" =>
                                      memoryChats'[p].charge = memoryChats[p].charge
    BY <1>1, <2>5, <2>7
  <2>14. SpentIsSum'
    BY <2>3, <2>13, <2>9, SpentUnmoved DEF MemoryInv, SpentIsSum
  <2> QED
    BY <2>3, <2>11, <2>12, <2>14 DEF MemoryInv
<1>4. CASE ~CanReserve(request, ChatEstimate)
  <2>1. PICK next : next = [IdleChat EXCEPT !.step = "failed"]
    OBVIOUS
  <2>2. next \in MemoryChatRows /\ next.step = "failed" /\ next.id = 0
    BY <2>1 DEF IdleChat, MemoryChatRows, Steps
  <2>3. ChatTo(q, next) /\ UNCHANGED <<wallet, reservations, memoryJobs>>
    BY <1>4, <2>1 DEF BeginChat
  <2> QED
    BY <1>1, <1>2, <2>2, <2>3, ChatGoesOn DEF UnderWay
<1> QED
  BY <1>3, <1>4

LEMMA ChatEnds ==
    ASSUME MemoryInv, NEW q \in MemoryChats,
           NEW next \in MemoryChatRows, ChatTo(q, next), next.id = 0,
           memoryChats[q].step \in UnderWay, next.step \notin UnderWay,
           reservations' \in [ReservationIds -> ReservationRows],
           reservations'[memoryChats[q].id] = NoReservation,
           \A k \in ReservationIds \ {memoryChats[q].id} : reservations'[k] = reservations[k],
           wallet' \in [balance : Nat, reserved : Nat, spent : Nat],
           \/ next.step # "delivered" /\ wallet'.spent = wallet.spent
           \/ next.step = "delivered" /\ wallet'.spent = wallet.spent + next.charge,
           ReservedIsSum', memoryJobs' = memoryJobs
    PROVE  MemoryInv'
<1>1. /\ memoryChats' \in [MemoryChats -> MemoryChatRows]
      /\ memoryChats'[q] = next
      /\ \A p \in MemoryChats \ {q} : memoryChats'[p] = memoryChats[p]
  BY ChatMoved DEF MemoryInv
<1>2. PICK i \in ReservationIds : i = memoryChats[q].id
  BY DEF MemoryInv, MemoryLinks, ChatsHoldTheirs
<1>3. MemoryTypeOK'
  BY <1>1 DEF MemoryInv, MemoryTypeOK
<1>4. MemoryLinks'
  BY <1>1, <1>2, LinksOfEnded DEF MemoryInv
<1>5. memoryChats[q].step # "delivered"
  BY DEF UnderWay
<1>6. CASE next.step # "delivered" /\ wallet'.spent = wallet.spent
  <2>1. \A p \in MemoryChats : /\ memoryChats'[p].step = "delivered"
                                     <=> memoryChats[p].step = "delivered"
                               /\ memoryChats[p].step = "delivered" =>
                                     memoryChats'[p].charge = memoryChats[p].charge
    BY <1>1, <1>5, <1>6
  <2>2. SpentIsSum'
    BY <1>6, <2>1, SpentUnmoved DEF MemoryInv, SpentIsSum
  <2> QED
    BY <1>3, <1>4, <2>2 DEF MemoryInv
<1>7. CASE next.step = "delivered" /\ wallet'.spent = wallet.spent + next.charge
  <2>1. SpentIsSum'
    BY <1>1, <1>3, <1>5, <1>7, SpentOnChat DEF MemoryInv
  <2> QED
    BY <1>3, <1>4, <2>1 DEF MemoryInv
<1> QED
  BY <1>6, <1>7

LEMMA ChatIsCharged ==
    ASSUME MemoryInv, NEW q \in MemoryChats, ChargeChat(q)
    PROVE  MemoryInv'
<1>1. /\ memoryChats[q].step = "charging" /\ memoryChats[q] \in MemoryChatRows
      /\ memoryJobs' = memoryJobs
  BY DEF ChargeChat, ChatAt, MemoryInv, MemoryTypeOK
<1>2. PICK i \in ReservationIds, charge \in Nat :
         i = memoryChats[q].id /\ charge = memoryChats[q].charge
  BY <1>1 DEF MemoryInv, MemoryLinks, ChatsHoldTheirs, UnderWay, MemoryChatRows
<1>3. CASE CanSettle(i, charge)
  <2>1. PICK next : next = [memoryChats[q] EXCEPT !.step = "delivered", !.id = 0]
    OBVIOUS
  <2>2. SettleMemory(i, charge) /\ ChatTo(q, next)
    BY <1>2, <1>3, <2>1 DEF ChargeChat
  <2>3. /\ next \in MemoryChatRows /\ next.step = "delivered" /\ next.id = 0
        /\ next.charge = charge
    BY <1>1, <1>2, <2>1 DEF MemoryChatRows, Steps
  <2>4. /\ reservations' \in [ReservationIds -> ReservationRows]
        /\ reservations'[i] = NoReservation
        /\ \A k \in ReservationIds \ {i} : reservations'[k] = reservations[k]
        /\ wallet' \in [balance : Nat, reserved : Nat, spent : Nat]
        /\ wallet'.spent = wallet.spent + charge
        /\ ReservedIsSum'
    BY <1>3, <2>2, SettledInMemory DEF MemoryInv
  <2> QED
    BY <1>1, <1>2, <2>2, <2>3, <2>4, ChatEnds DEF UnderWay
<1>4. CASE ~CanSettle(i, charge)
  <2>1. PICK next : next = [memoryChats[q] EXCEPT !.step = "releasing"]
    OBVIOUS
  <2>2. ChatTo(q, next) /\ UNCHANGED <<wallet, reservations, memoryJobs>>
    BY <1>2, <1>4, <2>1 DEF ChargeChat
  <2>3. next \in MemoryChatRows /\ next.step = "releasing" /\ next.id = memoryChats[q].id
    BY <1>1, <2>1 DEF MemoryChatRows, Steps
  <2> QED
    BY <1>1, <2>2, <2>3, ChatGoesOn DEF UnderWay
<1> QED
  BY <1>3, <1>4

LEMMA ChatIsReleased ==
    ASSUME MemoryInv, NEW q \in MemoryChats, ReleaseChat(q)
    PROVE  MemoryInv'
<1>1. /\ memoryChats[q].step = "releasing" /\ memoryChats[q] \in MemoryChatRows
      /\ memoryJobs' = memoryJobs
  BY DEF ReleaseChat, ChatAt, MemoryInv, MemoryTypeOK
<1>2. PICK i \in ReservationIds : i = memoryChats[q].id
  BY <1>1 DEF MemoryInv, MemoryLinks, ChatsHoldTheirs, UnderWay
<1>3. PICK next : next = [IdleChat EXCEPT !.step = "failed"]
  OBVIOUS
<1>4. next \in MemoryChatRows /\ next.step = "failed" /\ next.id = 0
  BY <1>3 DEF IdleChat, MemoryChatRows, Steps
<1>5. ChatTo(q, next) /\ ReleaseMemory(i)
  BY <1>2, <1>3 DEF ReleaseChat
<1>6. /\ reservations' \in [ReservationIds -> ReservationRows]
      /\ reservations'[i] = NoReservation
      /\ \A k \in ReservationIds \ {i} : reservations'[k] = reservations[k]
      /\ wallet' \in [balance : Nat, reserved : Nat, spent : Nat]
      /\ wallet'.spent = wallet.spent
      /\ ReservedIsSum'
  BY <1>5, Ended DEF MemoryInv
<1> QED
  BY <1>1, <1>2, <1>4, <1>5, <1>6, ChatEnds DEF UnderWay

LEMMA ChatGoes ==
    ASSUME MemoryInv, NEW q \in MemoryChats,
           (\E charge \in ChatCharges : RouteChat(q, charge)) \/ FailChat(q)
    PROVE  MemoryInv'
<1>1. memoryChats[q] \in MemoryChatRows
  BY DEF MemoryInv, MemoryTypeOK
<1>2. ASSUME NEW charge \in ChatCharges, RouteChat(q, charge) PROVE MemoryInv'
  <2>1. PICK next : next = [memoryChats[q] EXCEPT !.step = "charging", !.charge = charge]
    OBVIOUS
  <2>2. charge \in Nat
    BY MemoryAssumption
  <2>3. next \in MemoryChatRows /\ next.step = "charging" /\ next.id = memoryChats[q].id
    BY <1>1, <2>1, <2>2 DEF MemoryChatRows, Steps
  <2>4. /\ ChatTo(q, next) /\ UNCHANGED <<wallet, reservations, memoryJobs>>
        /\ memoryChats[q].step = "routing"
    BY <1>2, <2>1 DEF RouteChat, ChatAt
  <2> QED
    BY <2>3, <2>4, ChatGoesOn DEF UnderWay
<1>3. ASSUME FailChat(q) PROVE MemoryInv'
  <2>1. PICK next : next = [memoryChats[q] EXCEPT !.step = "releasing"]
    OBVIOUS
  <2>2. next \in MemoryChatRows /\ next.step = "releasing" /\ next.id = memoryChats[q].id
    BY <1>1, <2>1 DEF MemoryChatRows, Steps
  <2>3. /\ ChatTo(q, next) /\ UNCHANGED <<wallet, reservations, memoryJobs>>
        /\ memoryChats[q].step \in {"routing", "charging"}
    BY <1>3, <2>1 DEF FailChat
  <2> QED
    BY <2>2, <2>3, ChatGoesOn DEF UnderWay
<1> QED
  BY <1>2, <1>3

-----------------------------------------------------------------------------
(* Jobs *)

LEMMA JobMoved ==
    ASSUME MemoryTypeOK, NEW j \in JobIds, NEW row \in MemoryJobRows,
           memoryJobs' = [memoryJobs EXCEPT ![j] = row]
    PROVE  /\ memoryJobs' \in [JobIds -> MemoryJobRows]
           /\ memoryJobs'[j] = row
           /\ \A l \in JobIds \ {j} : memoryJobs'[l] = memoryJobs[l]
BY DEF MemoryTypeOK

LEMMA JobGoesOn ==
    ASSUME MemoryInv, NEW j \in JobIds, NEW row \in MemoryJobRows,
           memoryJobs' = [memoryJobs EXCEPT ![j] = row],
           row.id = memoryJobs[j].id, row.status = memoryJobs[j].status,
           row.reserved = memoryJobs[j].reserved, row.charge = memoryJobs[j].charge,
           row.sharedBy = memoryJobs[j].sharedBy,
           UNCHANGED <<wallet, reservations, memoryChats>>
    PROVE  MemoryInv'
<1>1. /\ memoryJobs' \in [JobIds -> MemoryJobRows]
      /\ memoryJobs'[j] = row
      /\ \A l \in JobIds \ {j} : memoryJobs'[l] = memoryJobs[l]
  BY JobMoved DEF MemoryInv
<1>2. MemoryTypeOK' /\ ReservedIsSum'
  BY <1>1 DEF MemoryInv, MemoryTypeOK, ReservedIsSum, AmountOf
<1>3. \A l \in JobIds : /\ memoryJobs'[l].id = memoryJobs[l].id
                        /\ memoryJobs'[l].status = memoryJobs[l].status
                        /\ memoryJobs'[l].reserved = memoryJobs[l].reserved
                        /\ memoryJobs'[l].charge = memoryJobs[l].charge
                        /\ memoryJobs'[l].sharedBy = memoryJobs[l].sharedBy
  BY <1>1
<1>4. MemoryLinks'
  BY <1>3, LinksUnmoved DEF MemoryInv
<1>5. SpentIsSum'
  BY <1>3, SpentUnmoved DEF MemoryInv, SpentIsSum
<1> QED
  BY <1>2, <1>4, <1>5 DEF MemoryInv

LEMMA JobCalls ==
    ASSUME MemoryInv, NEW j \in JobIds,
           AllowCall(j) \/ \E cost \in CallCosts : RecordCall(j, cost)
    PROVE  MemoryInv'
<1>1. memoryJobs[j] \in MemoryJobRows /\ memoryJobs \in [JobIds -> MemoryJobRows]
  BY DEF MemoryInv, MemoryTypeOK
<1>2. ASSUME AllowCall(j) PROVE MemoryInv'
  <2>1. PICK row : row = [memoryJobs[j] EXCEPT !.calls = memoryJobs[j].calls + 1]
    OBVIOUS
  <2>2. /\ row \in MemoryJobRows /\ row.id = memoryJobs[j].id
        /\ row.status = memoryJobs[j].status /\ row.reserved = memoryJobs[j].reserved
        /\ row.charge = memoryJobs[j].charge /\ row.sharedBy = memoryJobs[j].sharedBy
    BY <1>1, <2>1 DEF MemoryJobRows
  <2>3. /\ memoryJobs' = [memoryJobs EXCEPT ![j] = row]
        /\ UNCHANGED <<wallet, reservations, memoryChats>>
    BY <1>1, <1>2, <2>1 DEF AllowCall
  <2> QED
    BY <2>2, <2>3, JobGoesOn
<1>3. ASSUME NEW cost \in CallCosts, RecordCall(j, cost) PROVE MemoryInv'
  <2>1. PICK total : total = IF memoryJobs[j].status = "active" THEN memoryJobs[j].cost + cost
                             ELSE memoryJobs[j].cost
    OBVIOUS
  <2>2. PICK row : row = [memoryJobs[j] EXCEPT !.calls = memoryJobs[j].calls - 1, !.cost = total]
    OBVIOUS
  <2>3. total \in Nat /\ memoryJobs[j].calls - 1 \in Nat
    <3>1. cost \in Nat
      BY MemoryAssumption
    <3>2. memoryJobs[j].cost \in Nat /\ memoryJobs[j].calls \in Nat
      BY <1>1 DEF MemoryJobRows
    <3>3. memoryJobs[j].calls > 0
      BY <1>3 DEF RecordCall
    <3>4. total \in Nat
      BY <2>1, <3>1, <3>2
    <3> QED
      BY <3>2, <3>3, <3>4
  <2>4. /\ row \in MemoryJobRows /\ row.id = memoryJobs[j].id
        /\ row.status = memoryJobs[j].status /\ row.reserved = memoryJobs[j].reserved
        /\ row.charge = memoryJobs[j].charge /\ row.sharedBy = memoryJobs[j].sharedBy
    BY <1>1, <2>2, <2>3 DEF MemoryJobRows
  <2>5. /\ memoryJobs' = [memoryJobs EXCEPT ![j] = row]
        /\ UNCHANGED <<wallet, reservations, memoryChats>>
    BY <1>1, <1>3, <2>1, <2>2 DEF RecordCall
  <2> QED
    BY <2>4, <2>5, JobGoesOn
<1> QED
  BY <1>2, <1>3

LEMMA JobReservationType == JobReservation \in Nat
<1>1. ValidPolicy(MemoryPolicy) /\ JobInput.seconds \in Nat /\ JobInput.clips \in Nat
  BY MemoryAssumption
<1>2. PICK expected \in Nat :
         expected = EstimatedProviderCost(MemoryPolicy, JobInput.seconds, JobInput.clips)
  BY <1>1, EstimateIsBounded
<1>3. MemoryPolicy.maximumJobCharge \in Nat
  BY <1>1, PolicyFields
<1>4. PICK limit \in Nat : limit = MemoryPolicy.maximumJobCharge
  BY <1>3
<1>5. QuoteJobCost(MemoryPolicy, expected, TRUE).reservation \in 0..MemoryPolicy.maximumJobCharge
  BY <1>1, QuoteIsBounded
<1>6. PICK amount : amount = QuoteJobCost(MemoryPolicy, expected, TRUE).reservation
  OBVIOUS
<1>7. amount \in 0..limit
  BY <1>4, <1>5, <1>6, Zenon
<1>8. amount \in Nat
  BY <1>7
<1>9. JobReservation = amount
  BY <1>2, <1>6, Zenon DEF JobReservation
<1> QED
  BY <1>8, <1>9, Zenon

LEMMA JobStarts ==
    ASSUME MemoryInv, NEW j \in JobIds, StartMemory(j)
    PROVE  MemoryInv'
<1>1. PICK amount \in Nat : amount = JobReservation
  BY JobReservationType
<1>2. /\ memoryJobs[j].status = "none" /\ memoryJobs[j].id = 0
      /\ CanReserve(j, amount) /\ ReserveMemory(j, amount)
      /\ memoryChats' = memoryChats
  BY <1>1 DEF StartMemory, MemoryInv, MemoryLinks, JobsHoldTheirs, JobHolds, OnlyJobHolds
<1>3. j \in ChatIds \union JobIds /\ 0 \notin ReservationIds
  BY IdsAreNotNames
<1>4. PICK i \in ReservationIds :
          /\ i = ReservationFor(j)
          /\ reservations' \in [ReservationIds -> ReservationRows]
          /\ reservations'[i].request = j
          /\ \A k \in ReservationIds \ {i} : reservations'[k] = reservations[k]
          /\ \/ reservations' = reservations
             \/ Existing(j) = {} /\ ~Remembered(i) /\ reservations'[i].amount = amount
          /\ wallet' \in [balance : Nat, reserved : Nat, spent : Nat]
          /\ wallet'.spent = wallet.spent
          /\ ReservedIsSum'
  <2>1. \E l \in JobIds : memoryJobs[l].id = 0
    BY <1>2
  <2> QED
    BY <1>2, <1>3, <2>1, Reserving DEF MemoryInv, MemoryLinks
<1>5. PICK held \in Nat : held = reservations'[i].amount
  BY <1>4 DEF ReservationRows
<1>6. PICK sharing : sharing = IF Existing(j) = {} THEN "nobody" ELSE "chat"
  OBVIOUS
<1>7. (reservations' = reservations /\ sharing = "chat") \/ ~Remembered(i)
  <2>1. ASSUME reservations' = reservations PROVE sharing = "chat"
    BY <1>4, <1>6, <2>1 DEF Existing
  <2> QED
    BY <1>4, <2>1
<1>8. PICK row : row = [NoMemoryJob EXCEPT !.status = "active", !.id = i, !.reserved = held,
                                           !.sharedBy = sharing]
  OBVIOUS
<1>9. /\ row \in MemoryJobRows /\ row.status = "active" /\ row.id = i
      /\ row.reserved = held /\ row.charge = 0 /\ row.sharedBy = sharing
  BY <1>6, <1>8 DEF NoMemoryJob, MemoryJobRows
<1>10. memoryJobs' = [memoryJobs EXCEPT ![j] = row]
  <2>1. memoryJobs' = [memoryJobs EXCEPT ![j] =
           [NoMemoryJob EXCEPT !.status = "active", !.id = i, !.reserved = held,
                               !.sharedBy = IF Existing(j) = {} THEN "nobody" ELSE "chat"]]
    BY <1>5, <1>4, Zenon DEF StartMemory
  <2> QED
    BY <1>6, <1>8, <2>1, Zenon
<1>11. /\ memoryJobs' \in [JobIds -> MemoryJobRows]
       /\ memoryJobs'[j] = row
       /\ \A l \in JobIds \ {j} : memoryJobs'[l] = memoryJobs[l]
  BY <1>9, <1>10, JobMoved DEF MemoryInv
<1>12. MemoryTypeOK'
  BY <1>2, <1>4, <1>11 DEF MemoryInv, MemoryTypeOK
<1>13. MemoryLinks'
  BY <1>2, <1>5, <1>4, <1>9, <1>11, <1>7, LinksOfStarted DEF MemoryInv
<1>14. SpentIsSum'
  <2>1. memoryJobs[j].charge = 0
    BY <1>2 DEF MemoryInv, SpentIsSum
  <2>2. \A l \in JobIds : /\ memoryJobs'[l].charge = memoryJobs[l].charge
                          /\ memoryJobs'[l].charge <= memoryJobs'[l].reserved
                          /\ memoryJobs'[l].status # "completed" =>
                                memoryJobs[l].status # "completed"
    BY <1>2, <1>9, <1>11, <2>1 DEF MemoryInv, SpentIsSum
  <2> QED
    BY <1>2, <1>4, <2>2, SpentUnmoved DEF MemoryInv
<1> QED
  BY <1>4, <1>12, <1>13, <1>14 DEF MemoryInv

LEMMA JobCompletes ==
    ASSUME MemoryInv, NEW j \in JobIds, NEW usable \in BOOLEAN, CompleteMemory(j, usable)
    PROVE  MemoryInv'
<1>1. /\ memoryJobs[j] \in MemoryJobRows /\ memoryJobs \in [JobIds -> MemoryJobRows]
      /\ memoryJobs[j].status = "active" /\ memoryJobs[j].charge = 0
      /\ memoryChats' = memoryChats
  BY DEF CompleteMemory, MemoryInv, MemoryTypeOK, SpentIsSum
<1>2. PICK charge \in Nat : charge = MemoryQuote(j, usable).userCharge
  <2>1. ValidPolicy(MemoryPolicy) /\ memoryJobs[j].cost \in Nat
    BY <1>1, MemoryAssumption DEF MemoryJobRows
  <2> QED
    BY <2>1, QuoteIsBounded DEF MemoryQuote
<1>3. PICK i \in ReservationIds : i = memoryJobs[j].id
  BY <1>1 DEF MemoryInv, MemoryLinks, JobsHoldTheirs, JobHolds, OnlyJobHolds
<1>4. CanSettle(i, charge) /\ SettleMemory(i, charge) /\ charge <= memoryJobs[j].reserved
  BY <1>2, <1>3 DEF CompleteMemory, Completable
<1>5. PICK row : row = [memoryJobs[j] EXCEPT !.status = "completed", !.id = 0, !.charge = charge]
  OBVIOUS
<1>6. /\ row \in MemoryJobRows /\ row.status = "completed" /\ row.id = 0
      /\ row.charge = charge /\ row.reserved = memoryJobs[j].reserved
  BY <1>1, <1>5 DEF MemoryJobRows
<1>7. memoryJobs' = [memoryJobs EXCEPT ![j] = row]
  BY <1>1, <1>2, <1>5 DEF CompleteMemory
<1>8. /\ memoryJobs' \in [JobIds -> MemoryJobRows]
      /\ memoryJobs'[j] = row
      /\ \A l \in JobIds \ {j} : memoryJobs'[l] = memoryJobs[l]
  BY <1>6, <1>7, JobMoved DEF MemoryInv
<1>9. /\ reservations' \in [ReservationIds -> ReservationRows]
      /\ reservations'[i] = NoReservation
      /\ \A k \in ReservationIds \ {i} : reservations'[k] = reservations[k]
      /\ wallet' \in [balance : Nat, reserved : Nat, spent : Nat]
      /\ wallet'.spent = wallet.spent + charge
      /\ ReservedIsSum'
  BY <1>4, SettledInMemory DEF MemoryInv
<1>10. MemoryTypeOK'
  BY <1>1, <1>8, <1>9 DEF MemoryInv, MemoryTypeOK
<1>11. MemoryLinks'
  BY <1>1, <1>3, <1>6, <1>8, <1>9, LinksOfOver DEF MemoryInv
<1>12. SpentIsSum'
  BY <1>1, <1>4, <1>6, <1>8, <1>9, <1>10, SpentOnJob DEF MemoryInv
<1> QED
  BY <1>9, <1>10, <1>11, <1>12 DEF MemoryInv

LEMMA JobFails ==
    ASSUME MemoryInv, NEW j \in JobIds, FailMemory(j)
    PROVE  MemoryInv'
<1>1. /\ memoryJobs[j] \in MemoryJobRows /\ memoryJobs \in [JobIds -> MemoryJobRows]
      /\ memoryJobs[j].status = "active" /\ memoryJobs[j].charge = 0
      /\ memoryChats' = memoryChats
  BY DEF FailMemory, MemoryInv, MemoryTypeOK, SpentIsSum
<1>2. PICK i \in ReservationIds : i = memoryJobs[j].id
  BY <1>1 DEF MemoryInv, MemoryLinks, JobsHoldTheirs, JobHolds, OnlyJobHolds
<1>3. PICK row : row = [memoryJobs[j] EXCEPT !.status = "failed", !.id = 0]
  OBVIOUS
<1>4. /\ row \in MemoryJobRows /\ row.status = "failed" /\ row.id = 0
      /\ row.charge = 0 /\ row.reserved = memoryJobs[j].reserved /\ row.reserved \in Nat
  BY <1>1, <1>3 DEF MemoryJobRows
<1>5. memoryJobs' = [memoryJobs EXCEPT ![j] = row]
  BY <1>1, <1>3 DEF FailMemory
<1>6. /\ memoryJobs' \in [JobIds -> MemoryJobRows]
      /\ memoryJobs'[j] = row
      /\ \A l \in JobIds \ {j} : memoryJobs'[l] = memoryJobs[l]
  BY <1>4, <1>5, JobMoved DEF MemoryInv
<1>7. ReleaseMemory(i)
  BY <1>2 DEF FailMemory
<1>8. /\ reservations' \in [ReservationIds -> ReservationRows]
      /\ reservations'[i] = NoReservation
      /\ \A k \in ReservationIds \ {i} : reservations'[k] = reservations[k]
      /\ wallet' \in [balance : Nat, reserved : Nat, spent : Nat]
      /\ wallet'.spent = wallet.spent
      /\ ReservedIsSum'
  BY <1>7, Ended DEF MemoryInv
<1>9. MemoryTypeOK'
  BY <1>1, <1>6, <1>8 DEF MemoryInv, MemoryTypeOK
<1>10. MemoryLinks'
  BY <1>1, <1>2, <1>4, <1>6, <1>8, LinksOfOver DEF MemoryInv
<1>11. \A l \in JobIds : /\ memoryJobs'[l].charge = memoryJobs[l].charge
                         /\ memoryJobs'[l].charge <= memoryJobs'[l].reserved
                         /\ memoryJobs'[l].status # "completed" =>
                               memoryJobs[l].status # "completed"
  BY <1>1, <1>4, <1>6 DEF MemoryInv, SpentIsSum
<1>12. SpentIsSum'
  BY <1>1, <1>8, <1>11, SpentUnmoved DEF MemoryInv
<1> QED
  BY <1>8, <1>9, <1>10, <1>12 DEF MemoryInv

-----------------------------------------------------------------------------
(* Everything else, and the whole *)

LEMMA BalanceIsSet ==
    ASSUME MemoryInv, NEW balance \in Balances, SetBalance(balance)
    PROVE  MemoryInv'
<1>1. balance \in Nat
  BY MemoryAssumption
<1>2. /\ wallet' \in [balance : Nat, reserved : Nat, spent : Nat]
      /\ wallet'.balance = balance /\ wallet'.reserved = wallet.reserved
      /\ wallet'.spent = wallet.spent /\ balance >= wallet.reserved
      /\ reservations' = reservations /\ memoryChats' = memoryChats /\ memoryJobs' = memoryJobs
  BY <1>1 DEF SetBalance, MemoryInv, MemoryTypeOK
<1>3. MemoryTypeOK'
  BY <1>2 DEF MemoryInv, MemoryTypeOK
<1>4. ReservedIsSum'
  <2>1. AmountOf' = AmountOf
    BY <1>2 DEF AmountOf
  <2>2. wallet.reserved \in Nat
    BY DEF MemoryInv, MemoryTypeOK
  <2> QED
    BY <1>1, <1>2, <2>1, <2>2 DEF MemoryInv, ReservedIsSum
<1>5. MemoryLinks'
  BY <1>2, LinksUnmoved DEF MemoryInv
<1>6. SpentIsSum'
  BY <1>2, SpentUnmoved DEF MemoryInv, SpentIsSum
<1> QED
  BY <1>3, <1>4, <1>5, <1>6 DEF MemoryInv

(* An empty wallet, as it is at a start.                                   *)
EmptyMemory ==
    /\ \E balance \in Balances : wallet = [balance |-> balance, reserved |-> 0, spent |-> 0]
    /\ reservations = [i \in ReservationIds |-> NoReservation]
    /\ memoryChats = [q \in MemoryChats |-> IdleChat]
    /\ memoryJobs = [j \in JobIds |-> NoMemoryJob]

LEMMA EmptyIsSound == EmptyMemory => MemoryInv
<1> SUFFICES ASSUME EmptyMemory PROVE MemoryInv
  OBVIOUS
<1>1. PICK balance \in Nat : wallet = [balance |-> balance, reserved |-> 0, spent |-> 0]
  BY MemoryAssumption DEF EmptyMemory
<1>2. \A i \in ReservationIds : reservations[i] = NoReservation
  BY DEF EmptyMemory
<1>3. \A q \in MemoryChats : memoryChats[q] = IdleChat
  BY DEF EmptyMemory
<1>4. \A j \in JobIds : memoryJobs[j] = NoMemoryJob
  BY DEF EmptyMemory
<1>5. /\ IdleChat \in MemoryChatRows /\ IdleChat.step = "idle" /\ IdleChat.id = 0
      /\ IdleChat.step \notin UnderWay
  BY DEF IdleChat, MemoryChatRows, Steps, UnderWay
<1>6. /\ NoMemoryJob \in MemoryJobRows /\ NoMemoryJob.status = "none" /\ NoMemoryJob.id = 0
      /\ NoMemoryJob.charge = 0 /\ NoMemoryJob.reserved = 0
  BY DEF NoMemoryJob, MemoryJobRows
<1>7. MemoryTypeOK
  <2>1. wallet \in [balance : Nat, reserved : Nat, spent : Nat]
    BY <1>1
  <2>2. reservations \in [ReservationIds -> ReservationRows]
    BY NoReservationRow DEF EmptyMemory
  <2>3. memoryChats \in [MemoryChats -> MemoryChatRows]
    BY <1>5 DEF EmptyMemory
  <2>4. memoryJobs \in [JobIds -> MemoryJobRows]
    BY <1>6 DEF EmptyMemory
  <2> QED
    BY <2>1, <2>2, <2>3, <2>4 DEF MemoryTypeOK
<1>8. ReservedIsSum
  <2>1. AmountOf \in [ReservationIds -> Nat] /\ \A i \in ReservationIds : AmountOf[i] = 0
    <3>1. \A i \in ReservationIds : reservations[i].amount = 0
      BY <1>2, NoReservationRow
    <3> QED
      BY <3>1 DEF AmountOf
  <2>2. SumOf(AmountOf) = 0
    BY <2>1, SumOfZeros
  <2> QED
    BY <1>1, <2>2 DEF ReservedIsSum
<1>9. MemoryLinks
  <2>1. StandingAreHeld
    BY <1>2 DEF StandingAreHeld, Standing
  <2>2. ChatsHoldTheirs
    BY <1>3, <1>5, IdsAreNotNames DEF ChatsHoldTheirs
  <2>3. JobsHoldTheirs
    BY <1>2, <1>4, <1>6, NoReservationRow, IdsAreNotNames DEF JobsHoldTheirs, JobHolds, OnlyJobHolds
  <2> QED
    BY <2>1, <2>2, <2>3 DEF MemoryLinks
<1>10. SpentIsSum
  <2>1. DeliveredBy \in [MemoryChats -> Nat] /\ \A q \in MemoryChats : DeliveredBy[q] = 0
    BY <1>3, <1>5 DEF DeliveredBy
  <2>2. ChargeOf \in [JobIds -> Nat] /\ \A j \in JobIds : ChargeOf[j] = 0
    BY <1>4, <1>6 DEF ChargeOf
  <2>3. SumOf(DeliveredBy) = 0 /\ SumOf(ChargeOf) = 0
    BY <2>1, <2>2, SumOfZeros
  <2>4. wallet.spent = 0
    BY <1>1
  <2> QED
    BY <1>4, <1>6, <2>3, <2>4 DEF SpentIsSum
<1> QED
  BY <1>7, <1>8, <1>9, <1>10 DEF MemoryInv

LEMMA EmptyIsSoundNext == EmptyMemory' => MemoryInv'
<1>1. EmptyMemory => MemoryInv
  BY EmptyIsSound
<1> QED
  BY <1>1, PTL

LEMMA MemoryKept == MemoryInv /\ [NextMemory]_memoryVars => MemoryInv'
<1> SUFFICES ASSUME MemoryInv, [NextMemory]_memoryVars PROVE MemoryInv'
  OBVIOUS
<1>1. ASSUME NEW balance \in Balances, SetBalance(balance) PROVE MemoryInv'
  BY <1>1, BalanceIsSet
<1>2. ASSUME NEW balance \in Balances, RestartMemory(balance) PROVE MemoryInv'
  <2>1. EmptyMemory'
    BY <1>2 DEF RestartMemory, EmptyMemory
  <2> QED
    BY <2>1, EmptyIsSoundNext
<1>3. ASSUME NEW q \in MemoryChats, NEW request \in ChatIds, BeginChat(q, request)
      PROVE  MemoryInv'
  BY <1>3, ChatBegins
<1>4. ASSUME NEW q \in MemoryChats, NEW charge \in ChatCharges, RouteChat(q, charge)
      PROVE  MemoryInv'
  BY <1>4, ChatGoes
<1>5. ASSUME NEW q \in MemoryChats, ChargeChat(q) \/ FailChat(q) \/ ReleaseChat(q)
      PROVE  MemoryInv'
  BY <1>5, ChatIsCharged, ChatGoes, ChatIsReleased
<1>6. ASSUME NEW j \in JobIds, StartMemory(j) \/ AllowCall(j) \/ FailMemory(j)
      PROVE  MemoryInv'
  BY <1>6, JobStarts, JobCalls, JobFails
<1>7. ASSUME NEW j \in JobIds, NEW cost \in CallCosts, RecordCall(j, cost)
      PROVE  MemoryInv'
  BY <1>7, JobCalls
<1>8. ASSUME NEW j \in JobIds, NEW usable \in BOOLEAN, CompleteMemory(j, usable)
      PROVE  MemoryInv'
  BY <1>8, JobCompletes
<1>9. CASE UNCHANGED memoryVars
  <2>1. /\ wallet' = wallet /\ reservations' = reservations
        /\ memoryChats' = memoryChats /\ memoryJobs' = memoryJobs
    BY <1>9 DEF memoryVars
  <2>2. MemoryTypeOK'
    BY <2>1 DEF MemoryInv, MemoryTypeOK
  <2>3. ReservedIsSum'
    BY <2>1 DEF MemoryInv, ReservedIsSum, AmountOf
  <2>4. MemoryLinks'
    BY <2>1 DEF MemoryInv, MemoryLinks, StandingAreHeld, ChatsHoldTheirs, JobsHoldTheirs, JobHolds, OnlyJobHolds,
                HeldBySome, Standing
  <2>5. SpentIsSum'
    BY <2>1 DEF MemoryInv, SpentIsSum, DeliveredBy, ChargeOf
  <2> QED
    BY <2>2, <2>3, <2>4, <2>5 DEF MemoryInv
<1> QED
  BY <1>1, <1>2, <1>3, <1>4, <1>5, <1>6, <1>7, <1>8, <1>9 DEF NextMemory

SpecMemory == InitMemory /\ [][NextMemory]_memoryVars

(* For any number of chats, jobs and reservations, whoever shares one: what*)
(* is reserved in memory is held by somebody and is there, an active job   *)
(* that no chat has shared has its reservation to itself, and what was     *)
(* delivered was paid.                                                     *)
THEOREM MemoryIsSound == SpecMemory => [](MemoryReservedIsHeld /\ MemoryPaidIffDelivered)
<1>1. InitMemory => MemoryInv
  BY EmptyIsSound DEF InitMemory, EmptyMemory
<1>2. MemoryInv => MemoryReservedIsHeld
  <2> SUFFICES ASSUME MemoryInv PROVE MemoryReservedIsHeld
    OBVIOUS
  <2>1. /\ wallet.reserved = SumOf([i \in ReservationIds |-> reservations[i].amount])
        /\ wallet.reserved <= wallet.balance
    BY DEF MemoryInv, ReservedIsSum, AmountOf
  <2>2. \A i \in ReservationIds : Standing(i) => Holding(i) # {}
    BY DEF MemoryInv, MemoryLinks, StandingAreHeld, HeldBySome, Holding
  <2>3. ASSUME NEW j \in JobIds, memoryJobs[j].status = "active", memoryJobs[j].sharedBy = "nobody"
        PROVE  /\ reservations[memoryJobs[j].id].amount = memoryJobs[j].reserved
               /\ Holding(memoryJobs[j].id) = {j}
    <3>1. PICK i \in ReservationIds : /\ i = memoryJobs[j].id
                                      /\ reservations[i].request = j
                                      /\ reservations[i].amount = memoryJobs[j].reserved
      BY <2>3 DEF MemoryInv, MemoryLinks, JobsHoldTheirs, JobHolds, OnlyJobHolds
    <3>2. \A q \in MemoryChats : memoryChats[q].id # i
      BY <2>3, <3>1 DEF MemoryInv, MemoryLinks, JobsHoldTheirs, JobHolds, OnlyJobHolds
    <3>3. ASSUME NEW l \in JobIds, memoryJobs[l].id = i PROVE l = j
      <4>1. memoryJobs[l].status = "active"
        BY <3>3, IdsAreNotNames DEF MemoryInv, MemoryLinks, JobsHoldTheirs, JobHolds, OnlyJobHolds
      <4>2. reservations[i].request \in {"", l}
        BY <3>3, <4>1 DEF MemoryInv, MemoryLinks, JobsHoldTheirs, JobHolds, OnlyJobHolds
      <4> QED
        BY <3>1, <4>2, IdsAreNotNames
    <3>4. Holding(i) = {j}
      BY <3>1, <3>2, <3>3 DEF Holding
    <3> QED
      BY <3>1, <3>4
  <2> QED
    BY <2>1, <2>2, <2>3 DEF MemoryReservedIsHeld
<1>3. MemoryInv => MemoryPaidIffDelivered
  BY DEF MemoryInv, SpentIsSum, DeliveredBy, ChargeOf, MemoryPaidIffDelivered
<1> QED
  BY <1>1, <1>2, <1>3, MemoryKept, PTL DEF SpecMemory

-----------------------------------------------------------------------------
(* Both wallets *)

LEMMA MemberDoesOne ==
    SpecMember => SpecDirect /\ SpecMemory
<1>1. InitMember => InitDirect /\ InitMemory
  BY DEF InitMember
<1>2. [NextChats \/ NextInMemory \/ NextOnPage]_<<question, directVars, memoryVars, pageVars>>
        => [NextDirect]_directVars /\ [NextMemory]_memoryVars
  BY Zenon DEF NextChats, NextInMemory, NextOnPage
<1> QED
  BY <1>1, <1>2, PTL DEF SpecMember, SpecDirect, SpecMemory

(* The requests to chat are those of DirectCredit, where they are proved    *)
(* about: the same constants, the same steps.                              *)
LEMMA SameRequests == D!DirectAssumption
<1>1. \A S : D!IsFiniteSet(S) <=> IsFiniteSet(S)
  BY Zenon DEF D!IsFiniteSet, IsFiniteSet
<1> QED
  BY <1>1, DirectAssumption, Zenon DEF DirectAssumption, D!DirectAssumption

LEMMA SameRequestSteps ==
    ASSUME NEW q, ChatStep(q)
    PROVE  D!ChatStep(q)
BY Zenon DEF ChatStep, ReserveUnlimited, Reserve, ReserveUnheard, ReserveRefused, ReserveRows,
     Reserved, NewChat, Unposted, Post, PhaseTo, Answered, Thrown, Settle, SettleRows,
     Settleable, SettleKeys, SettleUnlimited, SettleRefused, SettleUnheard, Release,
     ReleaseFails, D!ChatStep, D!ReserveUnlimited, D!Reserve, D!ReserveUnheard,
     D!ReserveRefused, D!ReserveRows, D!Reserved, D!NewChat, D!Unposted, D!Post, D!PhaseTo,
     D!Answered, D!Thrown, D!Settle, D!SettleRows, D!Settleable, D!SettleKeys,
     D!SettleUnlimited, D!SettleRefused, D!SettleUnheard, D!Release, D!ReleaseFails

LEMMA SameRequestSpec ==
    /\ InitDirect => D!InitDirect
    /\ [NextDirect]_directVars => [D!NextDirect]_(D!directVars)
<1>1. InitDirect => D!InitDirect
  BY Zenon DEF InitDirect, D!InitDirect, NewChat, D!NewChat
<1>2. directVars = D!directVars
  BY Zenon DEF directVars, D!directVars
<1>3. CrashChats => D!CrashChats
  BY Zenon DEF CrashChats, D!CrashChats, Open, D!Open
<1>4. \A amount : Deposit(amount) => D!Deposit(amount)
  BY Zenon DEF Deposit, D!Deposit
<1>5. NextDirect => D!NextDirect
  BY <1>3, <1>4, SameRequestSteps, Zenon DEF NextDirect, D!NextDirect
<1>6. directVars' = D!directVars'
  BY Zenon DEF directVars, D!directVars
<1> QED
  BY <1>1, <1>2, <1>5, <1>6, Zenon

LEMMA SameRequestProperties ==
    /\ D!ReservedMatchesOpenChats => ReservedMatchesOpenChats
    /\ D!PaidIffDelivered => PaidIffDelivered
<1>1. \A f : D!SumOf(f) = SumOf(f)
  BY Zenon DEF D!SumOf, D!Units, SumOf, Units, D!Cardinality, Cardinality, D!IsFiniteSet,
               IsFiniteSet
<1>2. D!ReservedBy = ReservedBy
  BY Zenon DEF D!ReservedBy, ReservedBy, D!Open, Open
<1>3. D!ReservedMatchesOpenChats => ReservedMatchesOpenChats
  BY <1>1, <1>2, Zenon DEF D!ReservedMatchesOpenChats, ReservedMatchesOpenChats
<1>4. D!PaidIffDelivered => PaidIffDelivered
  BY <1>1, Zenon DEF D!PaidIffDelivered, PaidIffDelivered
<1> QED
  BY <1>3, <1>4

LEMMA DirectIsSound ==
    SpecDirect => [](ReservedMatchesOpenChats /\ PaidIffDelivered)
<1>1. SpecDirect => D!SpecDirect
  BY SameRequestSpec, PTL DEF SpecDirect, D!SpecDirect
<1>2. D!SpecDirect => []D!ReservedMatchesOpenChats
  BY SameRequests, D!OpenChatsAreCovered, PTL
<1>3. D!SpecDirect => []D!PaidIffDelivered
  BY SameRequests, D!DeliveredAndPaid, PTL
<1> QED
  BY <1>1, <1>2, <1>3, SameRequestProperties, PTL

THEOREM WhatIsReservedIsHeld == SpecMember => []ReservedIsHeld
BY MemberDoesOne, MemoryIsSound, DirectIsSound, PTL DEF ReservedIsHeld

THEOREM WhatIsDeliveredIsPaid == SpecMember => []DeliveredIsPaid
BY MemberDoesOne, MemoryIsSound, DirectIsSound, PTL DEF DeliveredIsPaid
=============================================================================
