-------------------------- MODULE DesktopSessions ---------------------------
(***************************************************************************)
(* One member's keys, devices and desktop sessions on PostgreSQL:          *)
(* LicenseService and DesktopSessionService.  A key is activated on a      *)
(* device and yields a session, whose tokens are exchanged for new ones    *)
(* again and again.  Activation, refresh and rotation read, go on after    *)
(* other statements, and write what they have read; a revocation may come  *)
(* in between.  Signatures, nonces and lifetimes only refuse requests and  *)
(* are left out.                                                           *)
(***************************************************************************)
EXTENDS Integers, FiniteSets

CONSTANTS
    Keys,           \* ids of keys, of which none exists at first
    Devices,        \* fingerprints
    Desktops,       \* ids of desktop sessions
    Handlers,       \* HTTP requests in progress
    DeviceLimit     \* devices per key

ASSUME DesktopAssumption ==
    /\ IsFiniteSet(Devices)
    /\ DeviceLimit \in Nat \ {0}

VARIABLES
    user,       \* the User row
    keys,       \* keys[k]: status of the ApiKey row
    devices,    \* devices[f]: the Device row of fingerprint f
    desktops,   \* desktops[s]: the DesktopSession row
    handlers    \* handlers[h]: the locals of request h

NoHandler == [step |-> "idle"]
NoDevice == [status |-> "none", key |-> {}, contested |-> FALSE, crowded |-> FALSE]
NoDesktop == [status |-> "none", key |-> {}, device |-> {},
              revoked |-> FALSE, contested |-> FALSE]

Idle(h) == handlers[h].step = "idle"
At(h, step) == handlers[h].step = step
GoTo(h, next) == handlers' = [handlers EXCEPT ![h] = next]
Finish(h) == GoTo(h, NoHandler)

ActiveKeys == {k \in Keys : keys[k] = "active"}
ActiveDevices(k) == {f \in Devices : devices[f].status = "active" /\ devices[f].key = k}
KeyWorks(k) == user.active /\ keys[k] = "active"

(* What a session needs to be accepted. *)
Usable(s) == desktops[s].status = "live" /\ KeyWorks(desktops[s].key)

(* Requests that have read what a revocation is about to change: history   *)
(* records that it was contested.                                          *)
Refreshing(s) == \E h \in Handlers : At(h, "rotating") /\ handlers[h].session = s
Activating(f) == \E h \in Handlers : handlers[h].step \in {"claiming", "checking", "issuing"}
                                     /\ handlers[h].device = f

(* Bounds: a request that would create a row is made while there is an id  *)
(* left for it.                                                            *)
KeysLeft == \E k \in Keys : keys[k] = "none"
DesktopsLeft == \E s \in Desktops : desktops[s].status = "none"

InitDesktop ==
    /\ keys = [k \in Keys |-> "none"]
    /\ devices = [f \in Devices |-> NoDevice]
    /\ desktops = [s \in Desktops |-> NoDesktop]

-----------------------------------------------------------------------------
(* Revocations, for those that own the rows *)

DesktopsWithout(revoked) ==
    [s \in Desktops |->
        IF s \in revoked /\ desktops[s].status = "live"
        THEN [desktops[s] EXCEPT !.status = "revoked", !.revoked = TRUE,
                                 !.contested = @ \/ Refreshing(s)]
        ELSE desktops[s]]

DevicesWithout(revoked) ==
    [f \in Devices |->
        IF f \in revoked /\ devices[f].status = "active"
        THEN [devices[f] EXCEPT !.status = "revoked", !.contested = @ \/ Activating(f)
                  \/ \E s \in Desktops : desktops[s].device = f /\ Refreshing(s)]
        ELSE devices[f]]

-----------------------------------------------------------------------------
(* LicenseService *)

CreateKey(k) ==
    /\ keys[k] = "none"
    /\ keys' = [keys EXCEPT ![k] = "active"]
    /\ UNCHANGED <<user, devices, desktops, handlers>>

(* The sessions of a revoked key are left: hydrate refuses them. *)
RevokeKey(k) ==
    /\ keys[k] # "none"
    /\ keys' = [keys EXCEPT ![k] = "revoked"]
    /\ devices' = DevicesWithout(ActiveDevices(k))
    /\ UNCHANGED <<user, desktops, handlers>>

(* Mutant: the sessions on the device go on. *)
RevokeDeviceOnly(f) ==
    /\ devices[f].status # "none"
    /\ devices' = DevicesWithout({f})
    /\ UNCHANGED <<user, keys, desktops, handlers>>

RevokeDevice(f) ==
    /\ devices[f].status # "none"
    /\ devices' = DevicesWithout({f})
    /\ desktops' = DesktopsWithout({s \in Desktops : desktops[s].device = f})
    /\ UNCHANGED <<user, keys, handlers>>

(* rotateDesktopKey lists the active keys and then, at READ COMMITTED,     *)
(* replaces those it has listed.                                           *)
ListKeys(h) ==
    /\ Idle(h)
    /\ KeysLeft
    /\ GoTo(h, [step |-> "replacing", previous |-> ActiveKeys])
    /\ UNCHANGED <<user, keys, devices, desktops>>

ReplaceKeys(h, k) ==
    LET previous == handlers[h].previous IN
    /\ At(h, "replacing")
    /\ keys[k] = "none"
    /\ keys' = [i \in Keys |-> IF i = k THEN "active"
                               ELSE IF i \in previous THEN "revoked" ELSE keys[i]]
    /\ devices' = DevicesWithout({f \in Devices : devices[f].key \in previous})
    /\ desktops' = DesktopsWithout({s \in Desktops : desktops[s].key \in previous})
    /\ Finish(h)
    /\ UNCHANGED user

-----------------------------------------------------------------------------
(* activate *)

(* Mutant: a key that has as many devices as it may have takes one more. *)
HasSlotTooMany(k, f) == f \in ActiveDevices(k) \/ Cardinality(ActiveDevices(k)) <= DeviceLimit

HasSlot(k, f) == f \in ActiveDevices(k) \/ Cardinality(ActiveDevices(k)) < DeviceLimit

(* validatePersistent reads the key with its devices ... *)
ReadLicense(h, k, f) ==
    /\ Idle(h)
    /\ DesktopsLeft
    /\ KeyWorks(k)
    /\ HasSlot(k, f)
    /\ GoTo(h, [step |-> IF f \in ActiveDevices(k) THEN "checking" ELSE "claiming",
                key |-> k, device |-> f])
    /\ UNCHANGED <<user, keys, devices, desktops>>

(* ... and gives the device to the key, whatever has become of either and  *)
(* whoever had it.  History: crowded if another activation of the key was  *)
(* under way.                                                              *)
ClaimDevice(h) ==
    LET k == handlers[h].key
        f == handlers[h].device
        crowded == \E o \in Handlers \ {h} : At(o, "claiming") /\ handlers[o].key = k
    IN /\ At(h, "claiming")
       /\ devices' = [d \in Devices |->
              IF d = f THEN [devices[f] EXCEPT !.status = "active", !.key = k, !.crowded = crowded]
              ELSE IF crowded /\ devices[d].key = k
              THEN [devices[d] EXCEPT !.crowded = TRUE] ELSE devices[d]]
       /\ GoTo(h, [handlers[h] EXCEPT !.step = "checking"])
       /\ UNCHANGED <<user, keys, desktops>>

(* sessionContext asks for the key once more. *)
CheckKey(h) ==
    /\ At(h, "checking")
    /\ IF KeyWorks(handlers[h].key)
       THEN GoTo(h, [handlers[h] EXCEPT !.step = "issuing"])
       ELSE Finish(h)
    /\ UNCHANGED <<user, keys, devices, desktops>>

IssueSession(h, s) ==
    /\ At(h, "issuing")
    /\ desktops[s].status = "none"
    /\ desktops' = [desktops EXCEPT ![s] =
          [NoDesktop EXCEPT !.status = "live", !.key = handlers[h].key,
                            !.device = handlers[h].device]]
    /\ Finish(h)
    /\ UNCHANGED <<user, keys, devices>>

-----------------------------------------------------------------------------
(* findByRefreshHash, findByAccessHash, findById: hydrate.  Only the tokens *)
(* written last find a session; tokens are not told apart.                 *)

(* Mutant: hydrate does not look at revokedAt. *)
FoundAnyway(s) == desktops[s].status # "none"

Found(s) == desktops[s].status = "live"

(* A session whose owner or key is out of use is refused, and revoked in a *)
(* statement of its own.                                                   *)
RefuseSession(h, s) ==
    /\ Idle(h)
    /\ Found(s)
    /\ ~KeyWorks(desktops[s].key)
    /\ GoTo(h, [step |-> "revoking", session |-> s])
    /\ UNCHANGED <<user, keys, devices, desktops>>

RevokeStored(h) ==
    /\ At(h, "revoking")
    /\ \/ desktops' = DesktopsWithout({handlers[h].session})
       \/ UNCHANGED desktops
    /\ Finish(h)
    /\ UNCHANGED <<user, keys, devices>>

(* refresh reads the session and writes the whole row with new tokens,     *)
(* revokedAt as it was read.                                               *)
ReadSession(h, s) ==
    /\ Idle(h)
    /\ Found(s)
    /\ KeyWorks(desktops[s].key)
    /\ GoTo(h, [step |-> "rotating", session |-> s])
    /\ UNCHANGED <<user, keys, devices, desktops>>

PersistSession(h) ==
    /\ At(h, "rotating")
    /\ desktops' = [desktops EXCEPT ![handlers[h].session].status = "live"]
    /\ Finish(h)
    /\ UNCHANGED <<user, keys, devices>>

(* The process, or the statement, fails between two steps. *)
Abandon(h) ==
    /\ ~Idle(h)
    /\ Finish(h)
    /\ UNCHANGED <<user, keys, devices, desktops>>

NextDesktop ==
    \/ \E k \in Keys : CreateKey(k) \/ RevokeKey(k)
    \/ \E f \in Devices : RevokeDevice(f)
    \/ \E h \in Handlers :
          \/ ListKeys(h) \/ ClaimDevice(h) \/ CheckKey(h) \/ RevokeStored(h)
          \/ PersistSession(h) \/ Abandon(h)
          \/ \E k \in Keys : ReplaceKeys(h, k)
          \/ \E k \in Keys, f \in Devices : ReadLicense(h, k, f)
          \/ \E s \in Desktops : IssueSession(h, s) \/ RefuseSession(h, s) \/ ReadSession(h, s)

(***************************************************************************)
(* Properties                                                              *)
(***************************************************************************)

(* A session that was revoked, by its owner, an administrator, a change of *)
(* password or hydrate, is never live again.  Unless a refresh had read it *)
(* by then: that one writes back revokedAt as it read it (persist).        *)
SessionsStayRevoked ==
    \A s \in Desktops :
        desktops[s].revoked /\ desktops[s].status = "live" => desktops[s].contested

(* A device that was revoked has no usable session of the key it belonged  *)
(* to, unless an activation or refresh on it was under way.  (A device     *)
(* that was activated with a second key belongs to that one, and revoking  *)
(* the second key spares the session of the first.)                        *)
RevokedDevicesAreOut ==
    \A s \in Desktops :
        LET device == devices[desktops[s].device] IN
        Usable(s) /\ device.key = desktops[s].key /\ ~device.contested
            => device.status = "active"

(* What was revoked, session or device, stays out (see the two above).     *)
RevokedStaysRevoked == SessionsStayRevoked /\ RevokedDevicesAreOut

(* A key has no more devices than it may have, unless two activations of   *)
(* it overlapped: each counts them before the other's is there             *)
(* (validatePersistent).                                                   *)
DevicesWithinLimit ==
    \A k \in Keys :
        Cardinality(ActiveDevices(k)) > DeviceLimit
            => \E f \in ActiveDevices(k) : devices[f].crowded
=============================================================================
