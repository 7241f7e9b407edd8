------------------------------ MODULE Releases ------------------------------
(***************************************************************************)
(* The catalogue of desktop releases (ReleaseCatalogService): an           *)
(* administrator creates and edits releases, one of which, of whatever     *)
(* channel, is the current one.  An edit reads the release, merges its     *)
(* input into the fields it read and writes them all, in a transaction at  *)
(* READ COMMITTED that first takes the mark from every other release it    *)
(* sees with it.                                                           *)
(***************************************************************************)
EXTENDS Integers, FiniteSets

CONSTANTS
    Catalogue,      \* releases
    Editors         \* requests of administrators

VARIABLES
    releases,       \* releases[r]: the row of r
    edits,          \* edits[e]: where request e is
    overlapped      \* history: two requests were under way at a time

releaseVars == <<releases, edits, overlapped>>

ReleaseStates == {"DRAFT", "PUBLISHED", "ARCHIVED"}

NoRelease == [state |-> "none", current |-> FALSE, files |-> FALSE]
NoEdit == [step |-> "idle", release |-> {}, draft |-> NoRelease, others |-> {}]

InitReleases ==
    /\ releases = [r \in Catalogue |-> NoRelease]
    /\ edits = [e \in Editors |-> NoEdit]
    /\ overlapped = FALSE

Merged(given, read) == IF given = "as it was" THEN read ELSE given = "yes"

(* Mutant: the mark is kept whatever becomes of the release. *)
DraftMarked(existing, input) ==
    [state |-> IF input.state = "as it was" THEN existing.state ELSE input.state,
     current |-> Merged(input.current, existing.current),
     files |-> Merged(input.files, existing.files)]

(* normalizeInput: what the input leaves out is as it was read; only a     *)
(* published release can be the current one.                               *)
Draft(existing, input) ==
    LET state == IF input.state = "as it was" THEN existing.state ELSE input.state
    IN  [state |-> state,
         current |-> Merged(input.current, existing.current) /\ state = "PUBLISHED",
         files |-> Merged(input.files, existing.files)]

(* assertPublishable: there is something to download. *)
Publishable(draft) == draft.state = "PUBLISHED" => draft.files

Given == {"yes", "no", "as it was"}
Inputs == [state : ReleaseStates \union {"as it was"}, current : Given, files : Given]

(* create and update.  What is created is without a row until it is        *)
(* written, and nobody else knows its id.                                  *)
BeginEdit(e, r, input) ==
    /\ edits[e].step = "idle"
    /\ releases[r] = NoRelease =>
           /\ "as it was" \notin {input.state, input.current, input.files}
           /\ \A other \in Editors : edits[other].release # {r}
    /\ LET draft == Draft(releases[r], input) IN
           /\ Publishable(draft)
           /\ edits' = [edits EXCEPT ![e] =
                 [step |-> IF draft.current THEN "look" ELSE "write",
                  release |-> {r}, draft |-> draft, others |-> {}]]
    /\ overlapped' = (overlapped \/ \E other \in Editors \ {e} : edits[other].step # "idle")
    /\ UNCHANGED releases

(* Rows that a transaction has updated are locked until it commits. *)
LockedByOthers(e) ==
    UNION {edits[other].others :
              other \in {f \in Editors \ {e} : edits[f].step = "write"}}

(* updateMany finds the rows it sees, waits for the locks on them, and     *)
(* leaves alone those that are no longer marked.                           *)
LookForOthers(e) ==
    /\ edits[e].step = "look"
    /\ edits' = [edits EXCEPT ![e].step = "clear",
                     ![e].others = {r \in Catalogue \ edits[e].release : releases[r].current}]
    /\ UNCHANGED <<releases, overlapped>>

ClearOthers(e) ==
    /\ edits[e].step = "clear"
    /\ edits[e].others \intersect LockedByOthers(e) = {}
    /\ edits' = [edits EXCEPT ![e].step = "write",
                     ![e].others = {r \in @ : releases[r].current}]
    /\ UNCHANGED <<releases, overlapped>>

(* The release is written and the transaction commits. *)
WriteRelease(e) ==
    /\ edits[e].step = "write"
    /\ edits[e].release \intersect LockedByOthers(e) = {}
    /\ releases' = [r \in Catalogue |->
          IF r \in edits[e].release THEN edits[e].draft
          ELSE [releases[r] EXCEPT !.current = @ /\ r \notin edits[e].others]]
    /\ edits' = [edits EXCEPT ![e] = NoEdit]
    /\ UNCHANGED overlapped

(* The transaction fails; the database ends one of two that wait for each  *)
(* other.                                                                  *)
FailEdit(e) ==
    /\ edits[e].step # "idle"
    /\ edits' = [edits EXCEPT ![e] = NoEdit]
    /\ UNCHANGED <<releases, overlapped>>

NextReleases ==
    \E e \in Editors :
        \/ \E r \in Catalogue, input \in Inputs : BeginEdit(e, r, input)
        \/ LookForOthers(e) \/ ClearOthers(e) \/ WriteRelease(e) \/ FailEdit(e)

SpecReleases == InitReleases /\ [][NextReleases]_releaseVars

-----------------------------------------------------------------------------
CurrentReleases == {r \in Catalogue : releases[r].current}

(* latestPublished offers the current release first.  It is one that can   *)
(* be downloaded and has not been withdrawn, however edits with stale      *)
(* reads overlap, and there is a single one unless they did: each of two   *)
(* requests that publish at a time may fail to see the other's mark, or    *)
(* write back the one it read.                                             *)
CurrentIsPublished ==
    /\ \A r \in CurrentReleases : releases[r].state = "PUBLISHED" /\ releases[r].files
    /\ overlapped \/ Cardinality(CurrentReleases) <= 1
=============================================================================
