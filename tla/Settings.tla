------------------------------ MODULE Settings ------------------------------
(***************************************************************************)
(* AdminStoreService on several replicas: prices, providers and a route,   *)
(* which PostgreSQL keeps and every replica holds a copy of in memory.  An *)
(* administrator's change goes to the memory of the replica that serves    *)
(* it, then to the database, where the write may fail, then as a new       *)
(* revision to Redis; the gateway of every replica asks Redis now and then *)
(* and reloads what has changed.  BackupService.restore replaces the rows. *)
(* Revisions are only compared, so that a replica's is modelled by whether *)
(* it is the one in Redis.                                                 *)
(***************************************************************************)
EXTENDS Integers, Sequences, FiniteSets, Functions

CONSTANTS
    Replicas,       \* API processes
    Admins,         \* requests of administrators that a replica serves at once
    Codes,          \* codes of providers
    Preference,     \* Preference[c]: place of provider c for the module
    Instances       \* what the database and a backup may hold at first,
                    \* with how many changes of each kind the administrators
                    \* make, and how many calls of the database and of Redis
                    \* fail (bounds)

(* The rows: of a provider, of which there may be none; of the route, ""   *)
(* for no provider; of the prices, a number that tells them apart.         *)
Absent == [status |-> "absent", id |-> 0]
ProviderRows == {Absent} \union [status : {"on", "off"}, id : Nat]
Routes == [primary : Codes \union {""}, fallback : Codes \union {""}, enabled : BOOLEAN]
RowsOfTables == [pricing : Nat, providers : [Codes -> ProviderRows], route : Routes]

ASSUME SettingsAssumption ==
    /\ "gateway" \notin Admins
    /\ IsFiniteSet(Codes)
    /\ Preference \in [Codes -> Nat]
    /\ \A c, d \in Codes : Preference[c] = Preference[d] => c = d
    /\ "" \notin Codes
    /\ \A instance \in Instances :
          /\ {instance.rows, instance.archived} \subseteq RowsOfTables
          /\ \A kind \in DOMAIN instance.changes : instance.changes[kind] \in Nat

VARIABLES
    database,   \* the rows, by table
    archive,    \* the backup an administrator may restore
    published,  \* whether Redis has a revision
    replicas,   \* replicas[i]: memory and what it knows of the revision
    tasks,      \* tasks[i][w]: what replica i is at, for w
    changes     \* bound: how many more changes are made, by kind

settingsVars == <<database, archive, published, replicas, tasks, changes>>

(* Requests to the gateway share one refresh. *)
Workers == Admins \union {"gateway"}

NoTask == [step |-> "idle"]
Idle(i, w) == tasks[i][w].step = "idle"
Memory(i) == replicas[i].memory

(* seen: the revision a refresh has read is still the one in Redis.        *)
(* History: blind is a replica that has missed a change for good, behind   *)
(* one that another has written a row since it read the rows; of a running *)
(* refresh, passed tells that a row was written since it asked, and        *)
(* crossed that the rows were changed and nobody will announce it.         *)
NewReplica(memory) ==
    [memory |-> memory, known |-> FALSE, seen |-> FALSE,
     blind |-> FALSE, behind |-> FALSE, passed |-> FALSE, crossed |-> FALSE]

(* onModuleInit has loaded the rows; no revision is known. *)
InitSettings ==
    /\ \E instance \in Instances :
          /\ database = instance.rows
          /\ archive = instance.archived
          /\ changes = instance.changes
    /\ published = FALSE
    /\ replicas = [i \in Replicas |-> NewReplica(database)]
    /\ tasks = [i \in Replicas |-> [w \in Workers |-> NoTask]]

-----------------------------------------------------------------------------
(* repairRoutesForProviders *)

Present(providers) == {c \in Codes : providers[c] # Absent}
Usable(providers) == {c \in Codes : providers[c].status = "on"}

First(codes) ==
    IF codes = {} THEN ""
    ELSE CHOOSE c \in codes : \A d \in codes : Preference[c] <= Preference[d]

Repaired(route, providers) ==
    LET usable == Usable(providers)
        primary == IF route.primary \in usable THEN route.primary ELSE First(usable)
        fallback == IF route.fallback \in usable \ {primary} THEN route.fallback
                    ELSE First(usable \ {primary})
    IN IF usable = {} THEN route
       ELSE [route EXCEPT !.primary = primary, !.fallback = fallback]

-----------------------------------------------------------------------------
(* persistProvider, persistProviderDeletion, persistRoute, ...: the rows   *)
(* to write are taken from memory when it is called.                       *)

ProviderWrite(c, row) == [table |-> "providers", code |-> c, value |-> row]
RouteWrite(route) == [table |-> "route", code |-> "", value |-> route]
PricingWrite(pricing) == [table |-> "pricing", code |-> "", value |-> pricing]

(* A provider is written by its code, so that a row which is gone is       *)
(* created again and one that exists keeps its id; it is deleted by the id *)
(* that the replica has in memory, and stays when that is another.         *)
Stored(old, row) ==
    IF row.status = "absent" THEN IF old.id = row.id THEN Absent ELSE old
    ELSE IF old = Absent THEN row
    ELSE [row EXCEPT !.id = old.id]

Written(rows, write) ==
    IF write.table = "providers"
    THEN [rows EXCEPT !.providers[write.code] = Stored(@, write.value)]
    ELSE IF write.table = "route" THEN [rows EXCEPT !.route = write.value]
    ELSE [rows EXCEPT !.pricing = write.value]

(* What is left to do when the writes are through. *)
Writing(writes, rest) == [step |-> "writing", writes |-> writes, rest |-> rest]

Goto(i, w, task) == [tasks EXCEPT ![i][w] = task]

(* Where a request is with a reload: of the gateway, or of a restore.      *)
RestsOfReload == {"filled", "ending"}
Reloading(task) ==
    \/ task.step \in {"reading"} \union RestsOfReload
    \/ task.step \in {"writing", "publishing"} /\ task.rest.step \in RestsOfReload

OthersReload(i, w) == \E v \in Admins \ {w} : Reloading(tasks[i][v])

WriteRow(i, w) ==
    LET task == tasks[i][w] IN
    /\ task.step = "writing"
    /\ database' = Written(database, Head(task.writes))
    /\ tasks' = Goto(i, w, [task EXCEPT !.step = "publishing"])
    /\ replicas' = [j \in Replicas |->
          [replicas[j] EXCEPT !.behind = @ \/ j # i \/ OthersReload(i, w),
                              !.passed = ~Idle(j, "gateway")]]
    /\ UNCHANGED <<archive, published, changes>>

AfterWrite(task) ==
    IF Len(task.writes) > 1 THEN Writing(Tail(task.writes), task.rest) ELSE task.rest

Unaware(replica) == [replica EXCEPT !.known = FALSE, !.seen = FALSE]

(* A change that nobody will announce.                                     *)
Crossed(i) == [replicas[i] EXCEPT !.crossed = ~Idle(i, "gateway")]

Overtaken(i) == [Crossed(i) EXCEPT !.blind = TRUE]

CountChange(kind) ==
    /\ kind \in DOMAIN changes /\ changes[kind] > 0
    /\ changes' = [changes EXCEPT ![kind] = @ - 1]

(* A refresh is over, and has brought no revision.                         *)
Refreshed(replica) == [replica EXCEPT !.seen = FALSE, !.passed = FALSE, !.crossed = FALSE]

(* The database refuses the write: the memory stays as it was changed and  *)
(* nothing is published.  The writes that a reload started together with   *)
(* it still go on.                                                         *)
FailWrite(i, w) ==
    LET task == tasks[i][w] IN
    /\ task.step = "writing"
    /\ CountChange("failure")
    /\ tasks' = Goto(i, w, AfterWrite([task EXCEPT !.rest = NoTask]))
    /\ replicas' = [replicas EXCEPT ![i] =
          IF w = "gateway" THEN [Refreshed(@) EXCEPT !.blind = TRUE] ELSE Overtaken(i)]
    /\ UNCHANGED <<database, archive, published>>

(* publishConfigRevision.  The replica takes the revision for its own, and *)
(* one of another that it has not seen yet is never looked for: it misses  *)
(* the rows it is behind.  When Redis does not run the command, the others *)
(* will not look for the change.                                           *)
Publish(i, w) ==
    LET task == tasks[i][w] IN
    /\ task.step = "publishing"
    /\ tasks' = Goto(i, w, AfterWrite(task))
    /\ \/ /\ published' = TRUE
          /\ UNCHANGED changes
          /\ replicas' = [j \in Replicas |->
                IF j = i THEN [replicas[i] EXCEPT !.known = TRUE, !.seen = FALSE,
                                                  !.blind = @ \/ replicas[i].behind]
                ELSE Unaware(replicas[j])]
       \/ /\ CountChange("failure")
          /\ UNCHANGED published
          /\ replicas' = [j \in Replicas |->
                IF j = i THEN [Crossed(i) EXCEPT !.known = FALSE]
                ELSE Overtaken(j)]
    /\ UNCHANGED <<database, archive>>

(* 24 hours after the last change, or sooner when Redis loses it. *)
ExpireRevision ==
    /\ published
    /\ published' = FALSE
    /\ replicas' = [i \in Replicas |-> Unaware(replicas[i])]
    /\ UNCHANGED <<database, archive, tasks, changes>>

-----------------------------------------------------------------------------
(* The administrator's requests.  Each changes the memory and hands the    *)
(* rows on at once.                                                        *)

(* Another request of this replica is about to write the same row, or is   *)
(* at a restore: what it does to the memory and the database may come      *)
(* before or after.                                                        *)
Pending(task) ==
    IF task.step = "writing" THEN Range(task.writes)
    ELSE IF task.step = "publishing" THEN Range(Tail(task.writes))
    ELSE {}

Contended(i, w, write) ==
    \/ OthersReload(i, w)
    \/ \E v \in Admins \ {w} : \E other \in Pending(tasks[i][v]) :
          other.table = write.table /\ other.code = write.code

Store(i, w, memory, write, rest) ==
    /\ replicas' = [replicas EXCEPT ![i].memory = memory, ![i].blind = @ \/ Contended(i, w, write)]
    /\ tasks' = Goto(i, w, Writing(<<write>>, rest))
    /\ UNCHANGED <<database, archive, published>>

Change(i, w, kind, memory, write, rest) ==
    /\ Idle(i, w)
    /\ CountChange(kind)
    /\ Store(i, w, memory, write, rest)

(* updatePricingPolicy: the whole row, as this replica has it.  Every      *)
(* change asks for another price.                                          *)
UpdatePricing(i, w) ==
    /\ "pricing" \in DOMAIN changes
    /\ Change(i, w, "pricing", [Memory(i) EXCEPT !.pricing = changes["pricing"]],
              PricingWrite(changes["pricing"]), NoTask)

(* createProvider; the connection was tested before.  A provider that the  *)
(* memory has not gets a new id.  The routes are repaired when the         *)
(* provider is stored.                                                     *)
SaveProvider(i, w, c) ==
    LET row == [status |-> "on",
                id |-> IF c \in Present(Memory(i).providers) THEN Memory(i).providers[c].id
                       ELSE changes["save"]]
    IN /\ "save" \in DOMAIN changes
       /\ Change(i, w, "save", [Memory(i) EXCEPT !.providers[c] = row], ProviderWrite(c, row),
                 [step |-> "repairing"])

RepairRoutes(i, w) ==
    LET route == Repaired(Memory(i).route, Memory(i).providers) IN
    /\ tasks[i][w].step = "repairing"
    /\ IF route = Memory(i).route
       THEN /\ tasks' = Goto(i, w, NoTask)
            /\ UNCHANGED <<database, archive, published, replicas>>
       ELSE Store(i, w, [Memory(i) EXCEPT !.route = route], RouteWrite(route), NoTask)
    /\ UNCHANGED changes

UpdateProvider(i, w, c, status) ==
    LET row == [Memory(i).providers[c] EXCEPT !.status = status] IN
    /\ c \in Present(Memory(i).providers)
    /\ Change(i, w, "update", [Memory(i) EXCEPT !.providers[c] = row], ProviderWrite(c, row), NoTask)

(* The routes are asked in memory. *)
DeleteProvider(i, w, c) ==
    /\ c \in Present(Memory(i).providers)
    /\ ~(Memory(i).route.enabled /\ c \in {Memory(i).route.primary, Memory(i).route.fallback})
    /\ Change(i, w, "delete", [Memory(i) EXCEPT !.providers[c] = Absent],
              ProviderWrite(c, [Memory(i).providers[c] EXCEPT !.status = "absent"]), NoTask)

UpdateRoute(i, w, primary, fallback, enabled) ==
    LET route == [primary |-> primary, fallback |-> fallback, enabled |-> enabled] IN
    /\ primary # fallback
    /\ {primary, fallback} \subseteq Usable(Memory(i).providers)
    /\ Change(i, w, "route", [Memory(i) EXCEPT !.route = route], RouteWrite(route), NoTask)

-----------------------------------------------------------------------------
(* reloadFromDatabase *)

(* The three tables are asked for at a time, and each answers with what it *)
(* holds between the question and the last answer: here, at either end.    *)
Reload(rows) == [step |-> "reading", start |-> rows]

RowsRead(start) ==
    {[pricing |-> p, providers |-> q, route |-> r] :
        p \in {start.pricing, database.pricing},
        q \in {start.providers, database.providers},
        r \in {start.route, database.route}}

UpToDate(i) == published /\ replicas[i].known

(* refreshIfStale, called by the gateway when the interval has passed.     *)
(* Nothing happens when the revision found is the known one.               *)
Refresh(i, seen) ==
    /\ Idle(i, "gateway")
    /\ replicas' = [replicas EXCEPT ![i] = [Refreshed(@) EXCEPT !.seen = seen]]
    /\ tasks' = Goto(i, "gateway", Reload(database))
    /\ UNCHANGED <<database, archive, published>>

CheckRevision(i) ==
    /\ ~UpToDate(i)
    /\ Refresh(i, published)
    /\ UNCHANGED changes

(* Redis does not answer, which reads as no revision. *)
MissRevision(i) == Refresh(i, FALSE) /\ CountChange("failure")

(* Mutant: an empty table of providers is not filled. *)
FillNever(i, read) == FALSE

ToFill(i, read) == Present(read.providers) = {} /\ Present(Memory(i).providers) # {}

(* An empty table of providers is taken for a new installation and filled  *)
(* from memory.                                                            *)
FillProviders(i, w, read) ==
    LET mine == Memory(i).providers
        inOrder == {s \in [1..Cardinality(Present(mine)) -> Present(mine)] :
                      \A j, k \in DOMAIN s : j # k => s[j] # s[k]}
    IN /\ ToFill(i, read)
       /\ \E s \in inOrder :
             tasks' = Goto(i, w, Writing([j \in DOMAIN s |-> ProviderWrite(s[j], mine[s[j]])],
                                         [step |-> "filled", read |-> read]))
       /\ UNCHANGED <<database, archive, published, replicas, changes>>

(* Mutant: the revision is read after the tables. *)
RevisionReadLate(replica) == published

RevisionRead(replica) == replica.seen

(* The prices follow last, and a refresh remembers the revision it read    *)
(* before the tables.  A request of an administrator that it ends in the   *)
(* middle of has changed the memory before, or will write over it.         *)
Reloaded(i, replica, w, pricing) ==
    LET loaded == [replica EXCEPT !.memory.pricing = pricing]
    IN IF w # "gateway" THEN loaded
       ELSE [Refreshed(loaded) EXCEPT !.known = RevisionRead(replica),
                !.blind = replica.crossed \/ \E v \in Admins : ~Idle(i, v),
                !.behind = replica.passed]

(* Providers and routes become what was read; a repaired route is written  *)
(* before the reload goes on.                                              *)
ApplyReload(i, w, read) ==
    LET providers == IF Present(read.providers) = {} THEN Memory(i).providers
                     ELSE read.providers
        route == Repaired(read.route, providers)
        applied == [replicas[i] EXCEPT !.memory.providers = providers, !.memory.route = route]
    IN /\ IF route = read.route
          THEN /\ replicas' = [replicas EXCEPT ![i] = Reloaded(i, applied, w, read.pricing)]
               /\ tasks' = Goto(i, w, NoTask)
          ELSE /\ replicas' = [replicas EXCEPT ![i] = applied]
               /\ tasks' = Goto(i, w, Writing(<<RouteWrite(route)>>,
                                              [step |-> "ending", pricing |-> read.pricing]))
       /\ UNCHANGED <<database, archive, published, changes>>

LoadRows(i, w) ==
    /\ tasks[i][w].step = "reading"
    /\ \E read \in RowsRead(tasks[i][w].start) :
          FillProviders(i, w, read) \/ (~ToFill(i, read) /\ ApplyReload(i, w, read))

GoOnFilled(i, w) ==
    /\ tasks[i][w].step = "filled"
    /\ ApplyReload(i, w, tasks[i][w].read)

EndReload(i, w) ==
    /\ tasks[i][w].step = "ending"
    /\ replicas' = [replicas EXCEPT ![i] = Reloaded(i, @, w, tasks[i][w].pricing)]
    /\ tasks' = Goto(i, w, NoTask)
    /\ UNCHANGED <<database, archive, published, changes>>

(* The database does not answer: a refresh has changed nothing, and a      *)
(* restore has replaced the rows.                                          *)
FailReading(i, w) ==
    /\ tasks[i][w].step = "reading"
    /\ CountChange("failure")
    /\ tasks' = Goto(i, w, NoTask)
    /\ replicas' = [replicas EXCEPT ![i] =
          IF w = "gateway" THEN Refreshed(@) ELSE [@ EXCEPT !.blind = TRUE]]
    /\ UNCHANGED <<database, archive, published>>

(* BackupService.restore: all rows in one transaction, then a reload of    *)
(* this replica; no revision is published.                                 *)
Restore(i, w) ==
    /\ Idle(i, w)
    /\ CountChange("restore")
    /\ database' = archive
    /\ tasks' = Goto(i, w, Reload(archive))
    /\ replicas' = [j \in Replicas |->
          IF j = i THEN [Crossed(i) EXCEPT !.behind = FALSE,
                                           !.blind = @ \/ \E v \in Admins : ~Idle(i, v)]
          ELSE Overtaken(j)]
    /\ UNCHANGED <<archive, published>>

-----------------------------------------------------------------------------
ReloadStep(i, w) == LoadRows(i, w) \/ GoOnFilled(i, w) \/ EndReload(i, w)

TaskStep(i, w) == WriteRow(i, w) \/ Publish(i, w) \/ ReloadStep(i, w)

FailStep(i, w) == FailWrite(i, w) \/ FailReading(i, w)

AdminStep(i, w) ==
    \/ UpdatePricing(i, w) \/ Restore(i, w)
    \/ \E c \in Codes :
          \/ SaveProvider(i, w, c) \/ DeleteProvider(i, w, c)
          \/ \E status \in {"on", "off"} : UpdateProvider(i, w, c, status)
    \/ \E primary, fallback \in Codes, enabled \in BOOLEAN :
          UpdateRoute(i, w, primary, fallback, enabled)

(* A new request takes any place that is free. *)
Free(i) == {w \in Admins : Idle(i, w)}

(* What a request, or the gateway on its way to a chat, does next. *)
GoOn(i, w) ==
    \/ TaskStep(i, w)
    \/ w \in Admins /\ RepairRoutes(i, w)
    \/ w = "gateway" /\ CheckRevision(i)

NextSettings ==
    \/ ExpireRevision
    \/ \E i \in Replicas :
          \/ MissRevision(i)
          \/ Free(i) # {} /\ AdminStep(i, CHOOSE w \in Free(i) : TRUE)
          \/ \E w \in Workers : GoOn(i, w) \/ FailStep(i, w)

(* Administrators' requests, of which there are finitely many, run on, the *)
(* revision's time to live passes, and every replica has chats to serve    *)
(* now and then.                                                           *)
FairnessSettings ==
    /\ WF_settingsVars(ExpireRevision)
    /\ WF_settingsVars(\E i \in Replicas, w \in Admins : GoOn(i, w))
    /\ \A i \in Replicas : WF_settingsVars(GoOn(i, "gateway"))

SpecSettings == InitSettings /\ [][NextSettings]_settingsVars /\ FairnessSettings

(***************************************************************************)
(* Properties                                                              *)
(***************************************************************************)

Quiet == \A i \in Replicas, w \in Workers : Idle(i, w)

(* A replica that takes its copy for the current one has the rows of the   *)
(* database.  There are six gaps, at each of which a replica becomes blind *)
(* until its next refresh: it publishes a change of its own while another  *)
(* has written a row since it read the rows (publishConfigRevision); Redis *)
(* loses the publication of a change; a restore publishes nothing; a       *)
(* refresh ends in the middle of a request of an administrator; a write,   *)
(* or a restore's reload, fails after the memory, or the rows, have        *)
(* changed; two administrators at one replica change the same row, or one  *)
(* restores meanwhile.                                                     *)
KnownIsCurrent ==
    \A i \in Replicas :
        Quiet /\ published /\ replicas[i].known /\ ~replicas[i].blind
            => Memory(i) = database

(* In spite of those gaps, when administrators stop, every replica has the *)
(* rows of the database in the end: at the latest when the revision has    *)
(* expired and is not found any more (refreshIfStale).                     *)
SettingsConverge == <>[](\A i \in Replicas : Memory(i) = database)
=============================================================================
