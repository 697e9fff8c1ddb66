------------------------------ MODULE WebClient ------------------------------
(***************************************************************************)
(* The map page of the web client (apps/web/app/page.tsx with              *)
(* lib/api-client.ts): searches, map clicks and candidate choices, each of *)
(* which supersedes the request before it, while answers arrive late.      *)
(*                                                                         *)
(* A request and a map click take the next number (requestIdRef).  The     *)
(* place a request resolves, or a click points at, is called by that       *)
(* number.  fetchJsonOnce listens to the abort signal and to its timer     *)
(* until the headers are there; the body is read after both are removed,   *)
(* so an answer is a stage of its own.  A retry is part of the first stage.*)
(***************************************************************************)
EXTENDS Naturals

CONSTANT MaxEvents   \* bound: searches, clicks and choices

ASSUME MaxEventsAssumption == MaxEvents \in Nat

VARIABLES
  latestId,   \* requestIdRef
  control,    \* the request in searchAbortRef, 0 for none
  aborted,    \* requests whose controller has been aborted
  fetching,   \* request -> what it waits for
  goal,       \* request -> the place it assesses
  spot,       \* coordinate and location label: the place shown
  shown,      \* assessment: the request that set it, 0 for none
  evidence,   \* evidenceStatus
  loading,    \* isLoading
  failed,     \* errorMessage is shown
  offered     \* geocodeCandidates are shown

page == <<spot, shown, evidence, loading, failed, offered>>
webVars == <<latestId, control, aborted, fetching, goal, page>>

Ids == 1..MaxEvents
Waiting == {"geocode", "assess", "evidence"}
Reading == {"geocode body", "assess body", "evidence body"}
BodyOf == [what \in Waiting |-> CASE what = "geocode" -> "geocode body"
                                   [] what = "assess" -> "assess body"
                                   [] what = "evidence" -> "evidence body"]
Current(r) == latestId = r

WebInit ==
  /\ latestId = 0 /\ control = 0 /\ aborted = {}
  /\ fetching = [r \in Ids |-> "nothing"]
  /\ goal = [r \in Ids |-> 0]
  /\ spot = 0 /\ shown = 0 /\ evidence = "idle"
  /\ loading = FALSE /\ failed = FALSE /\ offered = FALSE

\* requestIdRef.current + 1, after searchAbortRef.current?.abort()
Supersede ==
  /\ latestId < MaxEvents
  /\ latestId' = latestId + 1
  /\ aborted' = aborted \cup ({control} \ {0})

\* The part handleSearch and handleSelectGeocodeCandidate begin with.
BeginRequest ==
  /\ Supersede
  /\ control' = latestId + 1
  /\ loading' = TRUE /\ failed' = FALSE /\ offered' = FALSE

\* handleSearch: a text is geocoded first; without one the place shown is assessed.
SearchText ==
  /\ ~loading
  /\ BeginRequest
  /\ fetching' = [fetching EXCEPT ![latestId + 1] = "geocode"]
  /\ goal' = [goal EXCEPT ![latestId + 1] = latestId + 1]
  /\ UNCHANGED <<spot, shown, evidence>>

SearchHere ==
  /\ ~loading
  /\ BeginRequest
  /\ fetching' = [fetching EXCEPT ![latestId + 1] = "assess"]
  /\ goal' = [goal EXCEPT ![latestId + 1] = spot]
  /\ UNCHANGED <<spot, shown, evidence>>

\* handleSelectGeocodeCandidate; the buttons stay enabled.
SelectCandidate ==
  /\ offered
  /\ BeginRequest
  /\ fetching' = [fetching EXCEPT ![latestId + 1] = "assess"]
  /\ goal' = [goal EXCEPT ![latestId + 1] = latestId + 1]
  /\ spot' = latestId + 1
  /\ UNCHANGED <<shown, evidence>>

\* onMapClick
MapClick ==
  /\ Supersede
  /\ control' = 0
  /\ spot' = latestId + 1
  /\ shown' = 0 /\ evidence' = "idle"
  /\ loading' = FALSE /\ failed' = FALSE /\ offered' = FALSE
  /\ UNCHANGED <<fetching, goal>>

\* onQueryChange
TypeQuery ==
  /\ offered /\ offered' = FALSE
  /\ UNCHANGED <<latestId, control, aborted, fetching, goal, spot, shown, evidence,
                 loading, failed>>

Await(r, what) == fetching' = [fetching EXCEPT ![r] = what]

\* The finally clause.  Mutant: a superseded request is taken for the current one.
EndRequestStale(r) ==
  /\ Await(r, "nothing")
  /\ control' = IF control = r THEN 0 ELSE control
  /\ loading' = (loading /\ Current(r))

EndRequest(r) ==
  /\ Await(r, "nothing")
  /\ control' = IF control = r THEN 0 ELSE control
  /\ loading' = (loading /\ ~Current(r))

\* await fetch(...) returns: from here neither the timer nor an abort reaches the request.
Headers(r) ==
  /\ fetching[r] \in Waiting /\ r \notin aborted
  /\ Await(r, BodyOf[fetching[r]])
  /\ UNCHANGED <<latestId, control, aborted, goal, page>>

\* An abort, the timeout, a network or HTTP error, or a body that is not JSON.
FetchFails(r) ==
  /\ fetching[r] \in (Waiting \cup Reading)
  /\ IF fetching[r] \in {"evidence", "evidence body"}
     THEN /\ evidence' = IF Current(r) THEN "error" ELSE evidence
          /\ UNCHANGED failed
     ELSE /\ failed' = (failed \/ (r \notin aborted /\ Current(r)))
          /\ UNCHANGED evidence
  /\ EndRequest(r)
  /\ UNCHANGED <<latestId, aborted, goal, spot, shown, offered>>

\* The geocode answer is used whether or not the request is still the current one.
PlaceFound(r) ==
  /\ fetching[r] = "geocode body"
  /\ spot' = r
  /\ Await(r, "assess")
  /\ UNCHANGED <<latestId, control, aborted, goal, shown, evidence, loading, failed, offered>>

\* No candidate, or a first one below MIN_GEOCODE_CONFIDENCE.
PlaceUnclear(r) ==
  /\ fetching[r] = "geocode body"
  /\ shown' = 0 /\ evidence' = "idle" /\ failed' = TRUE
  /\ offered' \in {offered, TRUE}
  /\ EndRequest(r)
  /\ UNCHANGED <<latestId, aborted, goal, spot>>

\* Mutant: runRiskAssessment without the check of its request number.
RiskArrivesAny(r) ==
  /\ fetching[r] = "assess body"
  /\ shown' = r /\ evidence' = "loading" /\ loading' = FALSE
  /\ Await(r, "evidence")
  /\ UNCHANGED <<latestId, control, aborted, goal, spot, failed, offered>>

\* runRiskAssessment, after the first await: an answer to a superseded request is dropped.
RiskArrives(r) ==
  /\ fetching[r] = "assess body" /\ Current(r)
  /\ shown' = r /\ loading' = FALSE
  /\ \/ evidence' = "loading" /\ Await(r, "evidence") /\ UNCHANGED control
     \/ \* shouldFetchEvidenceList is false
        /\ evidence' = "ready" /\ Await(r, "nothing")
        /\ control' = IF control = r THEN 0 ELSE control
  /\ UNCHANGED <<latestId, aborted, goal, spot, failed, offered>>

EvidenceArrives(r) ==
  /\ fetching[r] = "evidence body" /\ Current(r)
  /\ evidence' = "ready"
  /\ EndRequest(r)
  /\ UNCHANGED <<latestId, aborted, goal, spot, shown, failed, offered>>

DropAnswer(r) ==
  /\ fetching[r] \in {"assess body", "evidence body"} /\ ~Current(r)
  /\ EndRequest(r)
  /\ UNCHANGED <<latestId, aborted, goal, spot, shown, evidence, failed, offered>>

UserActs == SearchText \/ SearchHere \/ SelectCandidate \/ MapClick \/ TypeQuery
\* What the timer brings about if the network does not.
Respond(r) == fetching[r] \in Waiting /\ (Headers(r) \/ FetchFails(r))
BodyRead(r) ==
  \/ fetching[r] \in Reading /\ FetchFails(r)
  \/ PlaceFound(r) \/ PlaceUnclear(r) \/ RiskArrives(r) \/ EvidenceArrives(r) \/ DropAnswer(r)

WebNext == UserActs \/ \E r \in Ids : Respond(r) \/ BodyRead(r)

\* API_REQUEST_TIMEOUT_MS bounds the wait for headers; nothing bounds the body.
WebFair == \A r \in Ids : WF_webVars(Respond(r))
WebSpec == WebInit /\ [][WebNext]_webVars /\ WebFair

-----------------------------------------------------------------------------
\* page.tsx 143-312: an assessment on the page without an error message and without a
\* request in progress answers the last thing the user asked, and is about the place shown,
\* unless a search that had been superseded has moved the place since (PlaceFound).
ShownIsAsked ==
  (shown # 0 /\ ~loading /\ ~failed) =>
    shown = latestId /\ (spot = goal[shown] \/ spot \in aborted)

\* The query button comes back: the wait ends, or the headers are there and the current
\* request waits for a body.
BusyEnds == loading ~> (~loading \/ (latestId > 0 /\ fetching[latestId] \in Reading))

\* Evidence is not left "loading": the current request is at work, or an error is shown.
\* (It is left so beside the error of a later search whose request fails.)
EvidenceIsOnItsWay ==
  evidence = "loading" => failed \/ (latestId > 0 /\ fetching[latestId] # "nothing")
==============================================================================
