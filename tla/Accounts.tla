------------------------------ MODULE Accounts ------------------------------
(***************************************************************************)
(* One member's account on PostgreSQL: AuthService, with the member's web  *)
(* sessions and the two ways to a new password, the mailed token and the   *)
(* temporary password an administrator issues.  Login, both resets and the *)
(* administrator's actions read the account in one statement and act in a  *)
(* later one; the desktop sessions of DesktopSessions end with the web     *)
(* sessions.  Everybody knows the password he uses; lifetimes and the      *)
(* throttle of failed logins only refuse requests and are left out.  The   *)
(* account may also be the one the environment names: the API writes it    *)
(* when it starts, and two scripts do.                                     *)
(***************************************************************************)
EXTENDS DesktopSessions

CONSTANTS
    Sessions,       \* ids of web sessions
    Tokens,         \* ids of mailed reset tokens
    Credentials,    \* ids of temporary passwords
    Resets,         \* ids of restricted reset sessions
    MaxEndings,     \* bound on the times the sessions of the account are ended
    MaxSyncs        \* bound on the times the account is written from the environment

ASSUME AccountsAssumption ==
    /\ MaxEndings \in Nat /\ MaxSyncs \in Nat
    /\ {} \notin Credentials      \* it stands for none

VARIABLES
    sessions,       \* sessions[w]: the Session row
    tokens,         \* tokens[t]: the PasswordResetToken row
    credentials,    \* credentials[c]: the PasswordResetCredential row
    resets          \* resets[r]: the PasswordResetSession row

webVars == <<sessions, tokens, credentials, resets>>
desktopVars == <<keys, devices, desktops>>
accessVars == <<user, keys, devices, desktops, handlers, sessions, tokens, credentials, resets>>

(* History: endings counts the times every session of the account was to   *)
(* end; unended, the last of them has not ended them yet; overtaken, a     *)
(* change of status had read the account before it was deleted.            *)
NewUser == [active |-> TRUE, deleted |-> FALSE, reset |-> FALSE, role |-> "member",
            endings |-> 0, unended |-> FALSE, syncs |-> 0, overtaken |-> FALSE]

NoSession == [status |-> "none", since |-> 0]

InitAccess ==
    /\ InitDesktop
    /\ user = NewUser
    /\ handlers = [h \in Handlers |-> NoHandler]
    /\ sessions = [w \in Sessions |-> NoSession]
    /\ tokens = [t \in Tokens |-> [status |-> "none", changes |-> 0]]
    /\ credentials = [c \in Credentials |-> "none"]
    /\ resets = [r \in Resets |-> [status |-> "none", credential |-> {}, changes |-> 0]]

-----------------------------------------------------------------------------
(* What ends with the sessions *)

(* Mutant: the web sessions are left. *)
EndDesktopSessions ==
    /\ UNCHANGED sessions
    /\ desktops' = DesktopsWithout(Desktops)

EndWebSessions ==
    sessions' = [w \in Sessions |-> IF sessions[w].status = "live"
                                    THEN [sessions[w] EXCEPT !.status = "revoked"]
                                    ELSE sessions[w]]

EndAllSessions ==
    /\ EndWebSessions
    /\ desktops' = DesktopsWithout(Desktops)

UserEnded == [user EXCEPT !.endings = @ + 1, !.unended = FALSE]

CredentialsWithout(statuses) ==
    [c \in Credentials |-> IF credentials[c] \in statuses THEN "revoked" ELSE credentials[c]]

(* Mutant: the restricted sessions of an older temporary password go on. *)
ResetsKept(spared) == resets

ResetsWithout(spared) ==
    [r \in Resets |-> IF resets[r].status = "open" /\ r \notin spared
                      THEN [resets[r] EXCEPT !.status = "revoked"] ELSE resets[r]]

(* applyPersistentAccessState "suspended" *)
SuspendAccess ==
    /\ EndAllSessions
    /\ credentials' = CredentialsWithout({"live"})
    /\ resets' = ResetsWithout({})
    /\ devices' = DevicesWithout(Devices)

(* Bounds: the endings of a history, and the ids left for new rows. *)
MayEnd == user.endings < MaxEndings
SessionsLeft == \E w \in Sessions : sessions[w].status = "none"
CredentialsLeft == \E c \in Credentials : credentials[c] = "none"

-----------------------------------------------------------------------------
(* login reads the account and compares the password ... *)
ReadLogin(h) ==
    /\ Idle(h)
    /\ SessionsLeft
    /\ user.active
    /\ \/ ~user.reset /\ GoTo(h, [step |-> "entering"])
       \/ /\ user.reset
          /\ \E c \in Credentials : credentials[c] = "live"
                                    /\ GoTo(h, [step |-> "exchanging", credential |-> c])
    /\ UNCHANGED <<user, desktopVars, webVars>>

(* ... and creates the session in a later statement, whatever has become   *)
(* of the account.                                                         *)
CreateSession(h, w) ==
    /\ At(h, "entering")
    /\ sessions[w].status = "none"
    /\ sessions' = [sessions EXCEPT ![w] = [status |-> "live", since |-> user.endings]]
    /\ Finish(h)
    /\ UNCHANGED <<user, desktopVars, tokens, credentials, resets>>

(* Mutant: usedAt is written without asking for its being null. *)
CanExchangeAny(c) == credentials[c] # "none"

CanExchange(c) == credentials[c] = "live"

(* createDatabasePasswordResetSession: a temporary password is good for    *)
(* one restricted session.                                                 *)
ExchangeCredential(h, r) ==
    LET c == handlers[h].credential IN
    /\ At(h, "exchanging")
    /\ IF CanExchange(c)
       THEN /\ resets[r].status = "none"
            /\ credentials' = [credentials EXCEPT ![c] = "used"]
            /\ resets' = [resets EXCEPT ![r] = [status |-> "open", credential |-> c, changes |-> 0]]
       ELSE UNCHANGED <<credentials, resets>>
    /\ Finish(h)
    /\ UNCHANGED <<user, desktopVars, sessions, tokens>>

Logout(w) ==
    /\ sessions[w].status = "live"
    /\ sessions' = [sessions EXCEPT ![w].status = "revoked"]
    /\ UNCHANGED <<user, desktopVars, handlers, tokens, credentials, resets>>

-----------------------------------------------------------------------------
(* requestPasswordReset.  When the mail cannot be sent the token is taken  *)
(* back, which reads as if it had not been there.                          *)
RequestPasswordReset(t) ==
    /\ user.active
    /\ tokens[t].status = "none"
    /\ tokens' = [tokens EXCEPT ![t].status = "live"]
    /\ UNCHANGED <<user, desktopVars, handlers, sessions, credentials, resets>>

ReadToken(h, t) ==
    /\ Idle(h)
    /\ tokens[t].status = "live"
    /\ user.active
    /\ GoTo(h, [step |-> "confirming", token |-> t])
    /\ UNCHANGED <<user, desktopVars, webVars>>

(* Mutant: the token is consumed whoever has consumed it since. *)
CanConsumeAny(t) == tokens[t].status # "none"

CanConsume(t) == tokens[t].status = "live"

(* confirmPasswordReset: a required reset stays required. *)
ConfirmPasswordReset(h) ==
    LET t == handlers[h].token IN
    /\ At(h, "confirming")
    /\ IF CanConsume(t)
       THEN /\ MayEnd
            /\ tokens' = [tokens EXCEPT ![t].status = "consumed", ![t].changes = @ + 1]
            /\ user' = UserEnded
            /\ EndAllSessions
       ELSE UNCHANGED <<tokens, user, sessions, desktops>>
    /\ Finish(h)
    /\ UNCHANGED <<keys, devices, credentials, resets>>

-----------------------------------------------------------------------------
(* issueAdminTemporaryPassword *)

ReadTarget(h) ==
    /\ Idle(h)
    /\ CredentialsLeft
    /\ user.active /\ ~user.deleted
    /\ GoTo(h, [step |-> "issuing password"])
    /\ UNCHANGED <<user, desktopVars, webVars>>

IssueTemporaryPassword(h, c) ==
    /\ At(h, "issuing password")
    /\ MayEnd
    /\ credentials[c] = "none"
    /\ credentials' = [CredentialsWithout({"live"}) EXCEPT ![c] = "live"]
    /\ resets' = ResetsWithout({})
    /\ EndAllSessions
    /\ user' = [UserEnded EXCEPT !.reset = TRUE]
    /\ Finish(h)
    /\ UNCHANGED <<keys, devices, tokens>>

(* completeTemporaryPasswordReset reads the restricted session and, in     *)
(* another statement, its credential, which is used by then.               *)
ReadReset(h, r) ==
    /\ Idle(h)
    /\ resets[r].status = "open"
    /\ user.active /\ user.reset
    /\ GoTo(h, [step |-> "reading credential", reset |-> r])
    /\ UNCHANGED <<user, desktopVars, webVars>>

ReadCredential(h) ==
    /\ At(h, "reading credential")
    /\ IF credentials[resets[handlers[h].reset].credential] = "revoked"
       THEN Finish(h)
       ELSE GoTo(h, [handlers[h] EXCEPT !.step = "completing"])
    /\ UNCHANGED <<user, desktopVars, webVars>>

(* The transaction asks for both conditions again. *)
CompleteReset(h, w) ==
    LET r == handlers[h].reset IN
    /\ At(h, "completing")
    /\ IF resets[r].status = "open" /\ user.active /\ user.reset
       THEN /\ MayEnd
            /\ sessions[w].status = "none"
            /\ user' = [UserEnded EXCEPT !.reset = FALSE]
            /\ sessions' = [v \in Sessions |->
                  IF v = w THEN [status |-> "live", since |-> user.endings + 1]
                  ELSE IF sessions[v].status = "live" THEN [sessions[v] EXCEPT !.status = "revoked"]
                  ELSE sessions[v]]
            /\ desktops' = DesktopsWithout(Desktops)
            /\ credentials' = CredentialsWithout({"live", "used"})
            /\ resets' = [ResetsWithout({r}) EXCEPT ![r].status = "consumed", ![r].changes = @ + 1]
       ELSE UNCHANGED <<user, sessions, desktops, credentials, resets>>
    /\ Finish(h)
    /\ UNCHANGED <<keys, devices, tokens>>

-----------------------------------------------------------------------------
(* updateMember, with a status *)

(* Mutant: the account is not asked whether it has been deleted. *)
MayUpdateAny == TRUE

MayUpdate == ~user.deleted /\ user.role # "super_admin"

ReadMember(h, status) ==
    /\ Idle(h)
    /\ MayUpdate
    /\ status = "suspended" => MayEnd
    /\ GoTo(h, [step |-> "updating", status |-> status])
    /\ UNCHANGED <<user, desktopVars, webVars>>

(* Keys keep their status: the account's gates them. *)
Suspend(h) ==
    /\ At(h, "updating")
    /\ handlers[h].status = "suspended"
    /\ MayEnd
    /\ user' = [UserEnded EXCEPT !.active = FALSE]
    /\ SuspendAccess
    /\ Finish(h)
    /\ UNCHANGED <<keys, tokens>>

(* Reactivation revives nothing that suspension has ended. *)
Reactivate(h) ==
    /\ At(h, "updating")
    /\ handlers[h].status = "active"
    /\ user' = [user EXCEPT !.active = TRUE]
    /\ Finish(h)
    /\ UNCHANGED <<desktopVars, webVars>>

(* deleteMember, which reads the account right before its transaction and  *)
(* is one step here: the read guards against a repetition, which would     *)
(* delete it alike.  A change of status under way will not look again.     *)
DeleteMember ==
    /\ ~user.deleted /\ user.role = "member"
    /\ MayEnd
    /\ SuspendAccess
    /\ keys' = [k \in Keys |-> IF keys[k] = "none" THEN "none" ELSE "revoked"]
    /\ tokens' = [t \in Tokens |-> IF tokens[t].status = "live"
                                   THEN [tokens[t] EXCEPT !.status = "consumed"] ELSE tokens[t]]
    /\ user' = [UserEnded EXCEPT !.active = FALSE, !.deleted = TRUE, !.reset = FALSE,
                                 !.overtaken = \E h \in Handlers : At(h, "updating")]
    /\ UNCHANGED handlers

-----------------------------------------------------------------------------
(* The account as the environment has it: syncProductionBootstrapAdmin     *)
(* before the API listens, if it is asked to, and the scripts for local    *)
(* development and for seeding.  Deletion has anonymized the address they  *)
(* look for.                                                               *)

MaySync(h) == Idle(h) /\ MayEnd /\ user.syncs < MaxSyncs /\ ~user.deleted

AccountWritten(role, reset) ==
    [user EXCEPT !.active = TRUE, !.role = role, !.reset = reset,
                 !.endings = @ + 1, !.unended = TRUE, !.syncs = @ + 1]

SyncAccount(h) ==
    /\ MaySync(h)
    /\ user' = AccountWritten("super_admin", FALSE)
    /\ GoTo(h, [step |-> "ending access"])
    /\ UNCHANGED <<desktopVars, webVars>>

SeedAccount(h, role) ==
    /\ MaySync(h)
    /\ user' = AccountWritten(role, user.reset)
    /\ GoTo(h, [step |-> "ending sessions"])
    /\ UNCHANGED <<desktopVars, webVars>>

(* Mutant: the sessions are taken to have ended with the account's row. *)
EndNothing(h) ==
    /\ At(h, "ending access")
    /\ user' = [user EXCEPT !.unended = FALSE]
    /\ Finish(h)
    /\ UNCHANGED <<desktopVars, webVars>>

(* In a transaction of its own, the resets are deleted with the sessions ... *)
EndAccess(h) ==
    /\ At(h, "ending access")
    /\ user' = [user EXCEPT !.unended = FALSE]
    /\ EndAllSessions
    /\ tokens' = [t \in Tokens |-> IF tokens[t].status = "live"
                                   THEN [tokens[t] EXCEPT !.status = "consumed"] ELSE tokens[t]]
    /\ credentials' = CredentialsWithout({"live", "used"})
    /\ resets' = ResetsWithout({})
    /\ Finish(h)
    /\ UNCHANGED <<keys, devices>>

(* ... while the scripts leave them, and the desktops. *)
EndSessions(h) ==
    /\ At(h, "ending sessions")
    /\ user' = [user EXCEPT !.unended = FALSE]
    /\ EndWebSessions
    /\ Finish(h)
    /\ UNCHANGED <<desktopVars, tokens, credentials, resets>>

NextAccess ==
    \/ NextDesktop /\ UNCHANGED webVars
    \/ DeleteMember
    \/ \E w \in Sessions : Logout(w)
    \/ \E t \in Tokens : RequestPasswordReset(t)
    \/ \E h \in Handlers :
          \/ ReadLogin(h) \/ ReadTarget(h) \/ ReadCredential(h)
          \/ ConfirmPasswordReset(h) \/ Suspend(h) \/ Reactivate(h)
          \/ SyncAccount(h) \/ EndAccess(h) \/ EndSessions(h)
          \/ \E role \in {"member", "super_admin"} : SeedAccount(h, role)
          \/ \E w \in Sessions : CreateSession(h, w) \/ CompleteReset(h, w)
          \/ \E r \in Resets : ExchangeCredential(h, r) \/ ReadReset(h, r)
          \/ \E t \in Tokens : ReadToken(h, t)
          \/ \E c \in Credentials : IssueTemporaryPassword(h, c)
          \/ \E status \in {"active", "suspended"} : ReadMember(h, status)

SpecAccess == InitAccess /\ [][NextAccess]_accessVars

(***************************************************************************)
(* Properties                                                              *)
(***************************************************************************)

(* A new password, a temporary password, a suspension and a deletion end   *)
(* every web session there is, so that none created before is live again   *)
(* when the account is.  (A login that read the account before may create  *)
(* one after: nothing promises that it is turned away.)  A password from   *)
(* the environment ends them in a second step: when the process dies       *)
(* before it, they are there until the next start.                         *)
EndingsEndSessions ==
    user.unended \/ \A w \in Sessions :
        sessions[w].status = "live" => sessions[w].since = user.endings

(* Whatever is handed out once changes the password once, also when two    *)
(* requests use it at a time: a mailed token, a temporary password, which  *)
(* yields one restricted session, and that session (confirmPasswordReset,  *)
(* createDatabasePasswordResetSession, completeTemporaryPasswordReset).    *)
(* And there is never more than one way in beside the password: the newest *)
(* temporary password (issueAdminTemporaryPassword), or the restricted     *)
(* session it was exchanged for.                                           *)
ResetsAreSpentOnce ==
    /\ \A t \in Tokens : tokens[t].changes <= 1
    /\ \A c \in Credentials :
          Cardinality({r \in Resets : resets[r].credential = c}) <= 1
    /\ \A r \in Resets : resets[r].changes <= 1
    /\ Cardinality({c \in Credentials : credentials[c] = "live"})
          + Cardinality({r \in Resets : resets[r].status = "open"}) <= 1

(* A deleted account is never active again, unless a change of status was  *)
(* under way when it was deleted: updateMember asks for deletedAt before   *)
(* its transaction and not in it.                                          *)
DeletedStaysInactive == user.deleted /\ ~user.overtaken => ~user.active
=============================================================================
