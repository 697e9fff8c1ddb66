--------------------------- MODULE WebClientProofs ---------------------------
(***************************************************************************)
(* What the map page shows, for any number of searches, clicks and         *)
(* choices, and for answers that come in any order.                        *)
(***************************************************************************)
EXTENDS WebClient, TLAPS

WebTypeOK ==
  /\ latestId \in Nat /\ control \in Nat /\ aborted \subseteq Nat
  /\ fetching \in [Ids -> {"nothing"} \cup Waiting \cup Reading]
  /\ goal \in [Ids -> Nat]
  /\ spot \in Nat /\ shown \in Nat
  /\ evidence \in {"idle", "loading", "ready", "error"}
  /\ loading \in BOOLEAN /\ failed \in BOOLEAN /\ offered \in BOOLEAN

\* Whatever is under way belongs to the current request, which is in control and not
\* aborted, or to an aborted one.
Superseded ==
  /\ latestId <= MaxEvents /\ control <= latestId /\ \A r \in aborted : r < latestId
  /\ \A r \in Ids : fetching[r] # "nothing" =>
       /\ r <= latestId
       /\ r = latestId => control = r
       /\ r < latestId => r \in aborted

\* The page is busy exactly while the current request has no assessment yet.
Busy ==
  loading <=> (latestId \in Ids
               /\ fetching[latestId] \in {"geocode", "geocode body", "assess", "assess body"})

\* What is being assessed is the place shown, but for a superseded search's doing.
OnCourse ==
  (latestId \in Ids /\ fetching[latestId] \in {"assess", "assess body"}) =>
    spot = goal[latestId] \/ spot \in aborted

\* A text is geocoded to a place of the request's own.
OwnPlace ==
  \A r \in Ids : fetching[r] \in {"geocode", "geocode body"} => goal[r] = r

WInv ==
  /\ WebTypeOK /\ Superseded /\ Busy /\ OnCourse /\ OwnPlace
  /\ ShownIsAsked /\ EvidenceIsOnItsWay

-----------------------------------------------------------------------------
LEMMA WInitial == WebInit => WInv
<1> SUFFICES ASSUME WebInit
             PROVE  WInv
  OBVIOUS
<1>1. WebTypeOK
  BY DEF WebInit, WebTypeOK
<1>2. Superseded /\ OnCourse /\ OwnPlace /\ ShownIsAsked /\ EvidenceIsOnItsWay
  BY MaxEventsAssumption
     DEF WebInit, Superseded, OnCourse, OwnPlace, ShownIsAsked, EvidenceIsOnItsWay, Ids
<1>3. Busy
  BY 0 \notin Ids DEF WebInit, Busy, Ids
<1> QED
  BY <1>1, <1>2, <1>3 DEF WInv

\* A new request takes over; what was under way is aborted with its controller.
LEMMA WBegin ==
  ASSUME WInv, SearchText \/ SearchHere \/ SelectCandidate
  PROVE  WInv'
<1> DEFINE n == latestId + 1
<1>1. /\ latestId \in Nat /\ latestId < MaxEvents /\ n \in Ids /\ latestId' = n
      /\ aborted' = aborted \cup ({control} \ {0}) /\ control' = n
      /\ loading' = TRUE /\ failed' = FALSE /\ offered' = FALSE
      /\ UNCHANGED <<shown, evidence>>
  BY MaxEventsAssumption DEF SearchText, SearchHere, SelectCandidate, BeginRequest, Supersede,
     WInv, WebTypeOK, Ids
<1>2. \E what \in {"geocode", "assess"} : fetching' = [fetching EXCEPT ![n] = what]
  BY DEF SearchText, SearchHere, SelectCandidate
<1>3. /\ goal' = [goal EXCEPT ![n] = goal'[n]] /\ goal'[n] \in Nat
      /\ spot' \in Nat
      /\ (fetching'[n] = "assess" => spot' = goal'[n])
      /\ (fetching'[n] = "geocode" => goal'[n] = n)
  BY <1>1, MaxEventsAssumption
     DEF SearchText, SearchHere, SelectCandidate, WInv, WebTypeOK
<1>4. WebTypeOK'
  <2>1. fetching' \in [Ids -> {"nothing"} \cup Waiting \cup Reading]
    BY <1>1, <1>2 DEF WInv, WebTypeOK, Waiting, Reading
  <2>2. goal' \in [Ids -> Nat]
    BY <1>1, <1>3 DEF WInv, WebTypeOK
  <2>3. latestId' \in Nat /\ control' \in Nat /\ aborted' \subseteq Nat
    BY <1>1 DEF WInv, WebTypeOK
  <2> QED
    BY <1>1, <1>3, <2>1, <2>2, <2>3 DEF WInv, WebTypeOK
<1>5. Superseded'
  BY <1>1, <1>2 DEF WInv, WebTypeOK, Superseded, Ids
<1>6. Busy' /\ OnCourse' /\ OwnPlace'
  BY <1>1, <1>2, <1>3 DEF WInv, WebTypeOK, Busy, OnCourse, OwnPlace
<1>7. ShownIsAsked' /\ EvidenceIsOnItsWay'
  BY <1>1, <1>2 DEF WInv, WebTypeOK, ShownIsAsked, EvidenceIsOnItsWay
<1> QED
  BY <1>4, <1>5, <1>6, <1>7 DEF WInv

LEMMA WClick ==
  ASSUME WInv, MapClick
  PROVE  WInv'
<1>1. /\ latestId \in Nat /\ latestId + 1 \in Ids /\ latestId' = latestId + 1
      /\ aborted' = aborted \cup ({control} \ {0}) /\ control' = 0
      /\ spot' = latestId + 1 /\ shown' = 0 /\ evidence' = "idle"
      /\ loading' = FALSE /\ failed' = FALSE /\ offered' = FALSE
      /\ UNCHANGED <<fetching, goal>>
  BY MaxEventsAssumption DEF MapClick, Supersede, WInv, WebTypeOK, Ids
<1>2. fetching[latestId + 1] = "nothing"
  BY <1>1 DEF WInv, WebTypeOK, Superseded
<1>3. WebTypeOK'
  <2>1. latestId' \in Nat /\ control' \in Nat /\ aborted' \subseteq Nat /\ spot' \in Nat
    BY <1>1 DEF WInv, WebTypeOK
  <2> QED
    BY <1>1, <2>1 DEF WInv, WebTypeOK
<1>4. Superseded'
  BY <1>1, <1>2 DEF WInv, WebTypeOK, Superseded, Ids
<1>5. Busy' /\ OnCourse' /\ OwnPlace' /\ ShownIsAsked' /\ EvidenceIsOnItsWay'
  BY <1>1, <1>2 DEF WInv, Busy, OnCourse, OwnPlace, ShownIsAsked, EvidenceIsOnItsWay
<1> QED
  BY <1>3, <1>4, <1>5 DEF WInv

LEMMA WType ==
  ASSUME WInv, TypeQuery
  PROVE  WInv'
BY DEF TypeQuery, WInv, WebTypeOK, Superseded, Busy, OnCourse, OwnPlace, ShownIsAsked,
   EvidenceIsOnItsWay

\* Where a request stands: current, in control and not aborted, or aborted.
LEMMA UnderWay ==
  ASSUME WInv, NEW r \in Ids, fetching[r] # "nothing"
  PROVE  /\ r \in Nat /\ latestId \in Ids /\ latestId >= r /\ latestId > 0
         /\ Current(r) => control = r /\ r \notin aborted
         /\ ~Current(r) => r < latestId /\ r \in aborted
BY MaxEventsAssumption DEF WInv, WebTypeOK, Superseded, Current, Ids

LEMMA WHeaders ==
  ASSUME WInv, NEW r \in Ids, Headers(r)
  PROVE  WInv'
<1>1. /\ fetching[r] \in Waiting /\ fetching' = [fetching EXCEPT ![r] = BodyOf[fetching[r]]]
      /\ UNCHANGED <<latestId, control, aborted, goal, spot, shown, evidence, loading, failed, offered>>
  <2>1. fetching[r] \in Waiting /\ fetching' = [fetching EXCEPT ![r] = BodyOf[fetching[r]]]
    BY DEF Headers, Await
  <2>2. UNCHANGED <<latestId, control, aborted, goal, spot, shown, evidence, loading, failed, offered>>
    BY DEF Headers, page
  <2> QED
    BY <2>1, <2>2
<1>0. BodyOf[fetching[r]] \in Reading
  BY <1>1 DEF Waiting, Reading, BodyOf
<1>5. /\ fetching[r] = "geocode" => BodyOf[fetching[r]] = "geocode body"
      /\ fetching[r] = "assess" => BodyOf[fetching[r]] = "assess body"
      /\ fetching[r] = "evidence" => BodyOf[fetching[r]] = "evidence body"
  BY DEF BodyOf, Waiting
<1>6. BodyOf[fetching[r]] # "nothing"
  BY <1>0 DEF Reading
<1>2. WebTypeOK' /\ Superseded'
  <2>1. WebTypeOK'
    BY <1>1, <1>0 DEF WInv, WebTypeOK
  <2>2. Superseded'
    BY <1>1 DEF WInv, WebTypeOK, Superseded, Waiting
  <2> QED
    BY <2>1, <2>2
<1>3. Busy' /\ OnCourse' /\ OwnPlace'
  BY <1>1, <1>0, <1>5 DEF WInv, WebTypeOK, Busy, OnCourse, OwnPlace, Waiting, Reading
<1>4. ShownIsAsked' /\ EvidenceIsOnItsWay'
  <2>1. ShownIsAsked'
    BY <1>1 DEF WInv, ShownIsAsked
  <2>2. fetching'[latestId] # "nothing" \/ fetching'[latestId] = fetching[latestId]
    BY <1>1, <1>6 DEF WInv, WebTypeOK
  <2>3. EvidenceIsOnItsWay'
    BY <1>1, <2>2 DEF WInv, EvidenceIsOnItsWay
  <2> QED
    BY <2>1, <2>3
<1> QED
  BY <1>2, <1>3, <1>4 DEF WInv

\* Requests that end, with or without having changed the page.
LEMMA WEnds ==
  ASSUME WInv, NEW r \in Ids,
         FetchFails(r) \/ PlaceUnclear(r) \/ EvidenceArrives(r) \/ DropAnswer(r)
  PROVE  WInv'
<1>1. /\ fetching[r] \in Waiting \cup Reading
      /\ fetching' = [fetching EXCEPT ![r] = "nothing"]
      /\ control' = IF control = r THEN 0 ELSE control
      /\ loading' = (loading /\ ~Current(r))
      /\ UNCHANGED <<latestId, aborted, goal, spot>>
  BY DEF FetchFails, PlaceUnclear, EvidenceArrives, DropAnswer, EndRequest, Await, Waiting, Reading
<1>2. /\ shown' \in {shown, 0} /\ evidence' \in {evidence, "idle", "ready", "error"}
      /\ failed' \in {failed, TRUE} /\ offered' \in BOOLEAN
  BY DEF FetchFails, PlaceUnclear, EvidenceArrives, DropAnswer, EndRequest, WInv, WebTypeOK
<1>3. /\ r \in Nat /\ latestId \in Ids /\ latestId >= r /\ latestId > 0
      /\ Current(r) => control = r /\ r \notin aborted
      /\ ~Current(r) => r < latestId /\ r \in aborted
  BY <1>1, UnderWay DEF Waiting, Reading
<1>8. /\ loading' \in BOOLEAN /\ loading' => loading
      /\ Current(r) => ~loading'
      /\ ~Current(r) /\ loading => loading'
  <2>1. loading' = (loading /\ ~Current(r)) /\ loading \in BOOLEAN
    BY <1>1 DEF WInv, WebTypeOK
  <2> HIDE DEF Current
  <2> QED
    BY <2>1, Zenon
<1>10. failed' \in BOOLEAN /\ (failed => failed')
  <2>1. failed \in BOOLEAN
    BY DEF WInv, WebTypeOK
  <2>2. failed' = failed \/ failed' = TRUE
    BY <1>2
  <2> QED
    BY <2>1, <2>2, Zenon
<1>9. control' = 0 \/ control' = control
  BY <1>1
<1>4. WebTypeOK' /\ Superseded'
  <2>1. fetching' \in [Ids -> {"nothing"} \cup Waiting \cup Reading]
    BY <1>1 DEF WInv, WebTypeOK
  <2>2. control' \in Nat /\ shown' \in Nat /\ evidence' \in {"idle", "loading", "ready", "error"}
    BY <1>2, <1>9 DEF WInv, WebTypeOK
  <2>4. WebTypeOK'
    BY <1>1, <1>2, <1>8, <1>10, <2>1, <2>2 DEF WInv, WebTypeOK
  <2>5. Superseded'
    BY <1>1, <1>3, <1>9 DEF WInv, WebTypeOK, Superseded, Current
  <2> QED
    BY <2>4, <2>5
<1>5. Busy' /\ OnCourse' /\ OwnPlace'
  BY <1>1, <1>3 DEF WInv, WebTypeOK, Busy, OnCourse, OwnPlace, Current
<1>6. ShownIsAsked'
  <2>1. CASE Current(r)
    <3>1. CASE fetching[r] \in {"evidence", "evidence body"}
      <4>1. ~loading
        BY <1>3, <2>1, <3>1 DEF WInv, Busy, Current
      <4> QED
        BY <1>1, <1>2, <1>10, <4>1 DEF WInv, ShownIsAsked
    <3>2. CASE fetching[r] \notin {"evidence", "evidence body"}
      <4>1. failed'
        BY <1>1, <1>3, <2>1, <3>2 DEF FetchFails, PlaceUnclear, EvidenceArrives, DropAnswer
      <4> QED
        BY <4>1 DEF ShownIsAsked
    <3> QED
      BY <3>1, <3>2
  <2>2. CASE ~Current(r)
    BY <1>1, <1>2, <1>8, <1>10, <2>2 DEF WInv, ShownIsAsked
  <2> QED
    BY <2>1, <2>2
<1>7. EvidenceIsOnItsWay'
  <2>1. CASE Current(r)
    <3>1. evidence' # "loading" \/ failed'
      BY <1>1, <1>3, <2>1 DEF FetchFails, PlaceUnclear, EvidenceArrives, DropAnswer
    <3> QED
      BY <3>1 DEF EvidenceIsOnItsWay
  <2>2. CASE ~Current(r)
    <3>1. fetching'[latestId] = fetching[latestId]
      BY <1>1, <1>3, <2>2 DEF WInv, WebTypeOK, Current
    <3> QED
      BY <1>1, <1>2, <1>3, <1>10, <3>1 DEF WInv, WebTypeOK, EvidenceIsOnItsWay
  <2> QED
    BY <2>1, <2>2
<1> QED
  BY <1>4, <1>5, <1>6, <1>7 DEF WInv

\* The one answer that is used although its request may have been superseded.
LEMMA WPlace ==
  ASSUME WInv, NEW r \in Ids, PlaceFound(r)
  PROVE  WInv'
<1>1. /\ fetching[r] = "geocode body" /\ fetching' = [fetching EXCEPT ![r] = "assess"]
      /\ spot' = r
      /\ UNCHANGED <<latestId, control, aborted, goal, shown, evidence, loading, failed, offered>>
  BY DEF PlaceFound, Await
<1>2. /\ r \in Nat /\ latestId \in Ids /\ latestId >= r /\ latestId > 0
      /\ Current(r) => control = r /\ r \notin aborted
      /\ ~Current(r) => r < latestId /\ r \in aborted
  BY <1>1, UnderWay
<1>3. WebTypeOK' /\ Superseded'
  BY <1>1, <1>2 DEF WInv, WebTypeOK, Superseded, Waiting, Reading
<1>4. goal[r] = r
  BY <1>1 DEF WInv, OwnPlace
<1>5. Busy' /\ OnCourse' /\ OwnPlace'
  BY <1>1, <1>2, <1>4 DEF WInv, WebTypeOK, Busy, OnCourse, OwnPlace, Current
<1>6. ShownIsAsked'
  <2>1. CASE Current(r)
    <3>1. loading'
      BY <1>1, <2>1 DEF WInv, Busy, Current
    <3> QED
      BY <3>1 DEF ShownIsAsked
  <2>2. CASE ~Current(r)
    BY <1>1, <1>2, <2>2 DEF WInv, ShownIsAsked
  <2> QED
    BY <2>1, <2>2
<1>7. EvidenceIsOnItsWay'
  <2>1. fetching'[latestId] # "nothing" \/ fetching'[latestId] = fetching[latestId]
    <3>1. CASE Current(r)
      BY <1>1, <3>1 DEF WInv, WebTypeOK, Current
    <3>2. CASE ~Current(r)
      BY <1>1, <1>2, <3>2 DEF WInv, WebTypeOK, Current
    <3> QED
      BY <3>1, <3>2
  <2> QED
    BY <1>1, <2>1 DEF WInv, EvidenceIsOnItsWay
<1> QED
  BY <1>3, <1>5, <1>6, <1>7 DEF WInv

LEMMA WRisk ==
  ASSUME WInv, NEW r \in Ids, RiskArrives(r)
  PROVE  WInv'
<1>1. /\ fetching[r] = "assess body" /\ Current(r)
      /\ \/ /\ evidence' = "loading" /\ fetching' = [fetching EXCEPT ![r] = "evidence"]
            /\ UNCHANGED control
         \/ /\ evidence' = "ready" /\ fetching' = [fetching EXCEPT ![r] = "nothing"]
            /\ control' = IF control = r THEN 0 ELSE control
      /\ shown' = r /\ loading' = FALSE
      /\ UNCHANGED <<latestId, aborted, goal, spot, failed, offered>>
  BY DEF RiskArrives, Await
<1>2. spot = goal[r] \/ spot \in aborted
  BY <1>1 DEF WInv, OnCourse, Current
<1>3. WebTypeOK' /\ Superseded'
  <2>1. r \in Nat /\ control' \in Nat /\ control' <= latestId
    <3>1. control' = control \/ control' = 0
      BY <1>1
    <3>2. r \in Nat
      BY MaxEventsAssumption DEF Ids
    <3> QED
      BY <3>1, <3>2 DEF WInv, WebTypeOK, Superseded
  <2>2. fetching' \in [Ids -> {"nothing"} \cup Waiting \cup Reading]
    BY <1>1 DEF WInv, WebTypeOK, Waiting
  <2>3. WebTypeOK'
    BY <1>1, <2>1, <2>2 DEF WInv, WebTypeOK
  <2>4. Superseded'
    BY <1>1, <2>1 DEF WInv, WebTypeOK, Superseded, Current
  <2> QED
    BY <2>3, <2>4
<1>4. Busy' /\ OnCourse' /\ OwnPlace'
  BY <1>1 DEF WInv, WebTypeOK, Busy, OnCourse, OwnPlace, Current
<1>5. ShownIsAsked'
  BY <1>1, <1>2 DEF ShownIsAsked, Current
<1>6. EvidenceIsOnItsWay'
  <2>1. latestId' = r /\ r > 0
    <3>1. latestId' = r
      BY <1>1 DEF Current
    <3>2. r > 0
      BY MaxEventsAssumption DEF Ids
    <3> QED
      BY <3>1, <3>2
  <2>2. evidence' = "ready" \/ fetching'[r] # "nothing"
    BY <1>1 DEF WInv, WebTypeOK
  <2> QED
    BY <2>1, <2>2 DEF EvidenceIsOnItsWay
<1> QED
  BY <1>3, <1>4, <1>5, <1>6 DEF WInv

LEMMA WStep == WInv /\ [WebNext]_webVars => WInv'
<1> SUFFICES ASSUME WInv, [WebNext]_webVars
             PROVE  WInv'
  OBVIOUS
<1>1. CASE UserActs
  BY <1>1, WBegin, WClick, WType DEF UserActs
<1>2. ASSUME NEW r \in Ids, Respond(r) \/ BodyRead(r)
      PROVE  WInv'
  BY <1>2, WHeaders, WEnds, WPlace, WRisk DEF Respond, BodyRead
<1>3. CASE UNCHANGED webVars
  BY <1>3 DEF webVars, page, WInv, WebTypeOK, Superseded, Busy, OnCourse, OwnPlace,
     ShownIsAsked, EvidenceIsOnItsWay
<1> QED
  BY <1>1, <1>2, <1>3 DEF WebNext

LEMMA WAlways == WebSpec => []WInv
BY WInitial, WStep, PTL DEF WebSpec

\* page.tsx 143-312: what is shown without an error answers the last thing asked and is
\* about the place shown, unless a superseded search has moved the place.
THEOREM PageAnswersLastRequest == WebSpec => []ShownIsAsked
BY WAlways, PTL DEF WInv

\* page.tsx 222-241: the evidence list is "loading" only while the current request is at
\* work, or beside an error message.
THEOREM EvidenceIsLoadedOrFails == WebSpec => []EvidenceIsOnItsWay
BY WAlways, PTL DEF WInv
==============================================================================
