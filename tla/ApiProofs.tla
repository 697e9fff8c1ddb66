------------------------------- MODULE ApiProofs -------------------------------
(***************************************************************************)
(* Theorems about the three stores behind the public API, for every number *)
(* of servers, reports, places and requests: the moderated user reports    *)
(* (UserReports), the shared rate limiter (RateLimit) and the two caches   *)
(* of an assessment (AssessmentCache).                                     *)
(***************************************************************************)
EXTENDS UserReports, RateLimit, AssessmentCache, FiniteSetTheorems, SequenceTheorems,
        WellFoundedInduction, TLAPS

-----------------------------------------------------------------------------
(* User reports and their audit log. *)

\* The row lock: the row a statement has locked is the one it read.
SeesLocked ==
  \A m \in Moderators : call[m].op # "none" =>
    /\ call[m].report \in Reports /\ rowLock[call[m].report] = m
    /\ call[m].seen = report[call[m].report] /\ call[m].seen.status # "none"
    /\ call[m].op = "moderate" => call[m].decision \in Decisions

RInv == ReportsTypeOK /\ SeesLocked /\ AuditExplainsRow /\ RedactedTextStaysGone

\* What a step does to one report: nothing, the submission, or the end of a statement
\* of the moderator who has it locked.
Decided(r, m) ==
  /\ call[m].op # "none" /\ call[m].report = r
  /\ \/ /\ call[m].op = "moderate" /\ report'[r] = ModeratedRow(m)
        /\ audit'[r] = Append(audit[r], Entry("moderated", report[r].status, call[m].decision))
     \/ /\ call[m].op = "redact" /\ report'[r] = RedactedRow(m)
        /\ audit'[r] = Append(audit[r], Entry("redacted", report[r].status, "deleted"))
Submitted(r) ==
  /\ report[r].status = "none"
  /\ report'[r] = [NotStored EXCEPT !.status = "pending", !.text = "submitted"]
  /\ audit'[r] = <<Entry("submitted", "none", "pending")>>

\* The steps grouped as the lemmas treat them: a submission, the start of a statement, or
\* its end.
LEMMA ReportsCases ==
  ASSUME ReportsNext
  PROVE  \/ \E r \in Reports : \E token \in {"absent", "accepted", "refused"} : Submit(r, token)
         \/ \E m \in Moderators, r \in Reports :
              \/ StartCall(m, r, "redact", "deleted")
              \/ \E decision \in Decisions : StartCall(m, r, "moderate", decision)
         \/ \E m \in Moderators : FinishModeration(m) \/ FinishRedaction(m) \/ CallFails(m)
BY DEF ReportsNext, StartRedaction, StartModeration

\* The end of a statement decides the one report its moderator has locked.
LEMMA FinishEffect ==
  ASSUME RInv, NEW m \in Moderators, FinishModeration(m) \/ FinishRedaction(m)
  PROVE  /\ Decided(call[m].report, m)
         /\ \A r \in Reports : r # call[m].report =>
              report'[r] = report[r] /\ audit'[r] = audit[r]
<1> DEFINE r == call[m].report
<1>1. /\ r \in Reports /\ call[m].seen = report[r] /\ call[m].op # "none" /\ report[r] \in Rows
      /\ call[m].op = "moderate" => call[m].decision \in Decisions
  BY DEF RInv, SeesLocked, FinishModeration, FinishRedaction, ReportsTypeOK
<1>2. CASE FinishModeration(m)
  <2>1. ModeratedRow(m).status = call[m].decision
    BY <1>1 DEF ModeratedRow, Rows
  <2>2. /\ report' = [report EXCEPT ![r] = ModeratedRow(m)]
        /\ audit' = [audit EXCEPT ![r] =
                       Append(audit[r], Entry("moderated", report[r].status, call[m].decision))]
    BY <1>1, <1>2, <2>1 DEF FinishModeration, Write
  <2> QED
    BY <1>1, <1>2, <2>2 DEF FinishModeration, Decided, RInv, ReportsTypeOK
<1>3. CASE FinishRedaction(m)
  <2>1. RedactedRow(m).status = "deleted"
    BY <1>1 DEF RedactedRow, Rows
  <2>2. /\ report' = [report EXCEPT ![r] = RedactedRow(m)]
        /\ audit' = [audit EXCEPT ![r] =
                       Append(audit[r], Entry("redacted", report[r].status, "deleted"))]
    BY <1>1, <1>3, <2>1 DEF FinishRedaction, Write
  <2> QED
    BY <1>1, <1>3, <2>2 DEF FinishRedaction, Decided, RInv, ReportsTypeOK
<1> QED
  BY <1>2, <1>3

\* The rows and their log, whatever step is taken.
LEMMA RowStep ==
  ASSUME RInv, [ReportsNext]_reportVars, NEW r \in Reports
  PROVE  \/ report'[r] = report[r] /\ audit'[r] = audit[r]
         \/ Submitted(r)
         \/ \E m \in Moderators : Decided(r, m)
<1>1. ASSUME NEW q \in Reports, NEW token, Submit(q, token)
      PROVE  (report'[r] = report[r] /\ audit'[r] = audit[r]) \/ Submitted(r)
  BY <1>1 DEF Submit, Submitted, RInv, ReportsTypeOK
<1>2. ASSUME NEW m \in Moderators, NEW q \in Reports, NEW op, NEW decision,
             StartCall(m, q, op, decision)
      PROVE  report'[r] = report[r] /\ audit'[r] = audit[r]
  BY <1>2 DEF StartCall
<1>3. ASSUME NEW m \in Moderators, FinishModeration(m) \/ FinishRedaction(m)
      PROVE  (report'[r] = report[r] /\ audit'[r] = audit[r]) \/ Decided(r, m)
  BY <1>3, FinishEffect
<1>4. ASSUME NEW m \in Moderators, CallFails(m)
      PROVE  report'[r] = report[r] /\ audit'[r] = audit[r]
  BY <1>4 DEF CallFails
<1>5. CASE UNCHANGED reportVars
  BY <1>5 DEF reportVars
<1> QED
  BY <1>1, <1>2, <1>3, <1>4, <1>5, ReportsCases

\* The row and the entry that a step writes have the right shape.
LEMMA WrittenType ==
  ASSUME RInv, NEW r \in Reports, Submitted(r) \/ \E m \in Moderators : Decided(r, m)
  PROVE  report'[r] \in Rows /\ audit'[r] \in Seq(Entries)
<1>1. report[r] \in Rows /\ audit[r] \in Seq(Entries)
  BY DEF RInv, ReportsTypeOK
<1>2. CASE Submitted(r)
  <2> DEFINE e == Entry("submitted", "none", "pending")
             row == [NotStored EXCEPT !.status = "pending", !.text = "submitted"]
  <2>1. e \in Entries
    BY DEF Entries, Entry, ReportStatuses
  <2>2. row \in Rows
    BY DEF NotStored, Rows, ReportStatuses
  <2> HIDE DEF e
  <2>3. <<e>> \in Seq(Entries)
    BY <2>1
  <2> QED
    BY <1>2, <2>2, <2>3 DEF Submitted, e
<1>3. ASSUME NEW m \in Moderators, Decided(r, m)
      PROVE  report'[r] \in Rows /\ audit'[r] \in Seq(Entries)
  <2>1. call[m].op = "moderate" => call[m].decision \in Decisions
    BY <1>3 DEF Decided, RInv, SeesLocked
  <2>2. report[r].status \in ReportStatuses \union {"none"}
    BY <1>1 DEF Rows
  <2>3. ModeratedRow(m) \in Rows \/ call[m].op # "moderate"
    BY <1>1, <1>3, <2>1 DEF Decided, ModeratedRow, Rows, ReportStatuses
  <2>4. RedactedRow(m) \in Rows
    BY <1>1, <1>3 DEF Decided, RedactedRow, Rows, ReportStatuses
  <2>5. Entry("redacted", report[r].status, "deleted") \in Entries
        /\ (call[m].op = "moderate" =>
              Entry("moderated", report[r].status, call[m].decision) \in Entries)
    BY <2>1, <2>2 DEF Entry, Entries, ReportStatuses
  <2> QED
    BY <1>1, <1>3, <2>3, <2>4, <2>5 DEF Decided
<1> QED
  BY <1>2, <1>3

\* No request takes the report rows, the audit log or the open statements out of their types.
LEMMA ReportsTypeKept ==
  ASSUME RInv, [ReportsNext]_reportVars
  PROVE  ReportsTypeOK'
<1> USE DEF RInv, ReportsTypeOK
<1>0. \A r \in Reports : report'[r] \in Rows /\ audit'[r] \in Seq(Entries)
  BY RowStep, WrittenType
<1>1. ASSUME NEW q \in Reports, NEW token, Submit(q, token) PROVE ReportsTypeOK'
  BY <1>0, <1>1 DEF Submit
<1>2. ASSUME NEW m \in Moderators, NEW q \in Reports,
             StartCall(m, q, "redact", "deleted")
               \/ \E decision \in Decisions : StartCall(m, q, "moderate", decision)
      PROVE  ReportsTypeOK'
  <2>1. PICK new \in Calls : call' = [call EXCEPT ![m] = new]
    <3>1. CASE StartCall(m, q, "redact", "deleted")
      BY <3>1 DEF StartCall, Calls
    <3>2. ASSUME NEW decision \in Decisions, StartCall(m, q, "moderate", decision)
          PROVE  \E new \in Calls : call' = [call EXCEPT ![m] = new]
      <4>1. [op |-> "moderate", report |-> q, seen |-> report[q], decision |-> decision] \in Calls
        BY DEF Calls
      <4> QED
        BY <3>2, <4>1 DEF StartCall
    <3> QED
      BY <1>2, <3>1, <3>2
  <2> QED
    BY <1>2, <2>1 DEF StartCall
<1>3. ASSUME NEW m \in Moderators, FinishModeration(m) \/ FinishRedaction(m)
      PROVE  ReportsTypeOK'
  <2>1. NoCall \in Calls
    BY DEF NoCall, Calls, NotStored, Rows
  <2> QED
    BY <1>0, <1>3, <2>1 DEF FinishModeration, FinishRedaction, Write, Done
<1>4. ASSUME NEW m \in Moderators, CallFails(m) PROVE ReportsTypeOK'
  <2>1. NoCall \in Calls
    BY DEF NoCall, Calls, NotStored, Rows
  <2> QED
    BY <1>4, <2>1 DEF CallFails, Done
<1>5. CASE UNCHANGED reportVars
  BY <1>5 DEF reportVars
<1> QED
  BY <1>1, <1>2, <1>3, <1>4, <1>5, ReportsCases

\* SELECT ... FOR UPDATE: nobody else changes a locked row, so what was read still holds.
LEMMA SeesLockedKept ==
  ASSUME RInv, [ReportsNext]_reportVars
  PROVE  SeesLocked'
<1> DEFINE Sees(n) == /\ call[n].report \in Reports /\ rowLock[call[n].report] = n
                      /\ call[n].seen = report[call[n].report] /\ call[n].seen.status # "none"
                      /\ call[n].op = "moderate" => call[n].decision \in Decisions
<1> SUFFICES ASSUME NEW n \in Moderators, call'[n].op # "none"
             PROVE  Sees(n)'
  BY DEF SeesLocked
<1> USE DEF RInv, ReportsTypeOK, SeesLocked
<1>0. n # NoModerator
  BY ReportsAssumption
<1>1. ASSUME NEW q \in Reports, NEW token, Submit(q, token) PROVE Sees(n)'
  BY <1>1 DEF Submit
<1>2. ASSUME NEW m \in Moderators, NEW q \in Reports,
             StartCall(m, q, "redact", "deleted")
               \/ \E decision \in Decisions : StartCall(m, q, "moderate", decision)
      PROVE  Sees(n)'
  <2>1. PICK op, decision :
           /\ StartCall(m, q, op, decision)
           /\ op = "moderate" => decision \in Decisions
    BY <1>2
  <2>2. /\ report' = report /\ rowLock[q] = NoModerator /\ report[q].status # "none"
        /\ rowLock' = [rowLock EXCEPT ![q] = m]
        /\ call' = [call EXCEPT ![m] = [op |-> op, report |-> q, seen |-> report[q],
                                        decision |-> decision]]
    BY <2>1 DEF StartCall, CanLock
  <2>3. CASE n = m
    BY <2>1, <2>2, <2>3
  <2>4. CASE n # m
    BY <1>0, <2>2, <2>4
  <2> QED
    BY <2>3, <2>4
<1>3. ASSUME NEW m \in Moderators, Done(m),
             \A r \in Reports : r # call[m].report => report'[r] = report[r],
             call[m].op # "none"
      PROVE  Sees(n)'
  BY <1>3 DEF Done, NoCall
<1>4. ASSUME NEW m \in Moderators, FinishModeration(m) \/ FinishRedaction(m)
      PROVE  Sees(n)'
  BY <1>3, <1>4, FinishEffect DEF FinishModeration, FinishRedaction, Write
<1>5. ASSUME NEW m \in Moderators, CallFails(m) PROVE Sees(n)'
  BY <1>3, <1>5 DEF CallFails
<1>6. CASE UNCHANGED reportVars
  BY <1>6 DEF reportVars
<1> QED
  BY <1>1, <1>2, <1>4, <1>5, <1>6, ReportsCases

\* Each decision appends the entry that leads from the status the row had to the one it gets.
LEMMA ChainKept ==
  ASSUME RInv, [ReportsNext]_reportVars
  PROVE  AuditExplainsRow'
<1> SUFFICES ASSUME NEW r \in Reports
             PROVE  /\ (report'[r].status = "none") <=> (audit'[r] = <<>>)
                    /\ \A i \in 1 .. Len(audit'[r]) :
                          audit'[r][i].previous = IF i = 1 THEN "none"
                                                  ELSE audit'[r][i - 1].status
                    /\ audit'[r] # <<>> => Last(audit'[r]).status = report'[r].status
  BY DEF AuditExplainsRow
<1>0. /\ (report[r].status = "none") <=> (audit[r] = <<>>)
      /\ \A i \in 1 .. Len(audit[r]) :
            audit[r][i].previous = IF i = 1 THEN "none" ELSE audit[r][i - 1].status
      /\ audit[r] # <<>> => audit[r][Len(audit[r])].status = report[r].status
      /\ report[r] \in Rows /\ audit[r] \in Seq(Entries)
  BY DEF RInv, AuditExplainsRow, ReportsTypeOK, Last
<1>1. CASE report'[r] = report[r] /\ audit'[r] = audit[r]
  BY <1>0, <1>1 DEF Last
<1>2. CASE Submitted(r)
  <2> DEFINE e == Entry("submitted", "none", "pending")
  <2>1. audit'[r] = <<e>> /\ Len(<<e>>) = 1 /\ <<e>>[1] = e /\ <<e>> # <<>>
    BY <1>2 DEF Submitted
  <2>2. e.previous = "none" /\ e.status = "pending" /\ report'[r].status = "pending"
    BY <1>2 DEF Submitted, Entry, NotStored
  <2> QED
    BY <2>1, <2>2 DEF Last
<1>3. ASSUME NEW m \in Moderators, NEW e \in Entries,
             audit'[r] = Append(audit[r], e), e.previous = report[r].status,
             e.status = report'[r].status, report[r].status # "none"
      PROVE  /\ (report'[r].status = "none") <=> (audit'[r] = <<>>)
             /\ \A i \in 1 .. Len(audit'[r]) :
                   audit'[r][i].previous = IF i = 1 THEN "none"
                                           ELSE audit'[r][i - 1].status
             /\ audit'[r] # <<>> => Last(audit'[r]).status = report'[r].status
  <2> DEFINE n == Len(audit[r])
  <2>1. n \in Nat /\ n >= 1
    BY <1>0, <1>3
  <2>2. Len(audit'[r]) = n + 1 /\ audit'[r][n + 1] = e
        /\ \A i \in 1..n : audit'[r][i] = audit[r][i]
    BY <1>0, <1>3
  <2>3. audit'[r] # <<>> /\ e.status # "none"
    BY <2>1, <2>2 DEF Entries, ReportStatuses, Decisions
  <2>4. \A i \in 1..(n + 1) : audit'[r][i].previous = IF i = 1 THEN "none"
                                                      ELSE audit'[r][i - 1].status
    <3> SUFFICES ASSUME NEW i \in 1..(n + 1)
                 PROVE  audit'[r][i].previous = IF i = 1 THEN "none" ELSE audit'[r][i - 1].status
      OBVIOUS
    <3>1. CASE i = n + 1
      <4>1. i - 1 = n /\ i # 1 /\ n \in 1..n
        BY <2>1, <3>1
      <4>2. audit'[r][n].status = report[r].status
        BY <1>0, <1>3, <2>2, <4>1
      <4> QED
        BY <1>3, <2>2, <3>1, <4>1, <4>2
    <3>2. CASE i # n + 1
      <4>1. i \in 1..n /\ (i # 1 => i - 1 \in 1..n)
        BY <2>1, <3>2
      <4> QED
        BY <1>0, <2>2, <4>1
    <3> QED
      BY <3>1, <3>2
  <2> QED
    BY <1>3, <2>2, <2>3, <2>4 DEF Last
<1>4. ASSUME NEW m \in Moderators, Decided(r, m)
      PROVE  \E e \in Entries : /\ audit'[r] = Append(audit[r], e)
                                /\ e.previous = report[r].status
                                /\ e.status = report'[r].status /\ report[r].status # "none"
  <2>1. report[r].status # "none" /\ (call[m].op = "moderate" => call[m].decision \in Decisions)
    BY <1>4 DEF Decided, RInv, SeesLocked
  <2>2. CASE call[m].op = "moderate"
    <3> DEFINE e == Entry("moderated", report[r].status, call[m].decision)
    <3>1. e \in Entries /\ e.previous = report[r].status /\ e.status = call[m].decision
      BY <1>0, <2>1, <2>2 DEF Entry, Entries, ReportStatuses, Rows
    <3>2. ModeratedRow(m).status = call[m].decision
      BY <1>0, <1>4 DEF Decided, ModeratedRow, Rows
    <3> QED
      BY <1>4, <2>1, <2>2, <3>1, <3>2 DEF Decided
  <2>3. CASE call[m].op # "moderate"
    <3> DEFINE e == Entry("redacted", report[r].status, "deleted")
    <3>1. e \in Entries /\ e.previous = report[r].status /\ e.status = "deleted"
      BY <1>0 DEF Entry, Entries, ReportStatuses, Rows
    <3>2. RedactedRow(m).status = "deleted"
      BY <1>0, <1>4 DEF Decided, RedactedRow, Rows
    <3> QED
      BY <1>4, <2>1, <2>3, <3>1, <3>2 DEF Decided
  <2> QED
    BY <2>2, <2>3
<1> QED
  BY <1>1, <1>2, <1>3, <1>4, RowStep

\* A redacted row is decided again only by statements that keep it redacted.
LEMMA RedactedKept ==
  ASSUME RInv, [ReportsNext]_reportVars
  PROVE  RedactedTextStaysGone'
<1> SUFFICES ASSUME NEW r \in Reports, NEW i \in 1 .. Len(audit'[r]),
                    audit'[r][i].action = "redacted"
             PROVE  report'[r].text = "redacted" /\ report'[r].redacted
  BY DEF RedactedTextStaysGone
<1>0. report[r] \in Rows /\ audit[r] \in Seq(Entries)
  BY DEF RInv, ReportsTypeOK
<1>1. (\E j \in 1 .. Len(audit[r]) : audit[r][j].action = "redacted")
         => report[r].text = "redacted" /\ report[r].redacted
  BY DEF RInv, RedactedTextStaysGone
<1>2. CASE report'[r] = report[r] /\ audit'[r] = audit[r]
  BY <1>1, <1>2
<1>3. CASE Submitted(r)
  <2> DEFINE e == Entry("submitted", "none", "pending")
  <2>1. audit'[r] = <<e>> /\ e.action = "submitted"
    BY <1>3 DEF Submitted, Entry
  <2> HIDE DEF e
  <2>2. Len(<<e>>) = 1 /\ <<e>>[1] = e
    OBVIOUS
  <2> QED
    BY <2>1, <2>2
<1>4. ASSUME NEW m \in Moderators, Decided(r, m)
      PROVE  report'[r].text = "redacted" /\ report'[r].redacted
  <2>1. CASE call[m].op = "redact"
    BY <1>0, <1>4, <2>1 DEF Decided, RedactedRow, Rows
  <2>2. CASE call[m].op # "redact"
    <3> DEFINE e == Entry("moderated", report[r].status, call[m].decision)
    <3>1. audit'[r] = Append(audit[r], e) /\ e.action = "moderated"
          /\ report'[r] = ModeratedRow(m)
      BY <1>4, <2>2 DEF Decided, Entry
    <3>2. report'[r].text = report[r].text /\ report'[r].redacted = report[r].redacted
      BY <1>0, <1>4, <3>1 DEF ModeratedRow, Decided, Rows
    <3> HIDE DEF e
    <3>3. i \in 1 .. Len(audit[r]) /\ audit[r][i].action = "redacted"
      BY <1>0, <3>1
    <3> QED
      BY <1>1, <3>2, <3>3
  <2> QED
    BY <2>1, <2>2
<1> QED
  BY <1>2, <1>3, <1>4, RowStep

\* An empty table satisfies the invariant.
LEMMA RInvInit == ReportsInit => RInv
<1> SUFFICES ASSUME ReportsInit PROVE RInv
  OBVIOUS
<1>1. ReportsTypeOK
  BY DEF ReportsInit, ReportsTypeOK, NotStored, NoCall, Rows, Calls
<1>2. SeesLocked
  BY DEF ReportsInit, SeesLocked, NoCall
<1>3. AuditExplainsRow /\ RedactedTextStaysGone
  BY DEF ReportsInit, AuditExplainsRow, RedactedTextStaysGone, NotStored, Last
<1> QED
  BY <1>1, <1>2, <1>3 DEF RInv

\* The invariant of the moderated reports is inductive.
LEMMA RInvNext == RInv /\ [ReportsNext]_reportVars => RInv'
BY ReportsTypeKept, SeesLockedKept, ChainKept, RedactedKept DEF RInv

\* The audit log explains every row, however the statements of moderators interleave.
THEOREM AuditLogIsComplete == ReportsSpec => []AuditExplainsRow
<1>1. RInv => AuditExplainsRow
  BY DEF RInv
<1> QED
  BY <1>1, RInvInit, RInvNext, PTL DEF ReportsSpec

\* Moderation after a redaction changes the status, and never brings the text back.
THEOREM RedactionIsFinal == ReportsSpec => []RedactedTextStaysGone
<1>1. RInv => RedactedTextStaysGone
  BY DEF RInv
<1> QED
  BY <1>1, RInvInit, RInvNext, PTL DEF ReportsSpec

-----------------------------------------------------------------------------
(* The shared rate limiter: what a bucket holds, what a client was told. *)

RequestStates == {"idle", "timed", "admitted", "refused", "lost"}

\* Where a request may be: one that has read its clock is stamped by its replica's, and
\* one in hand arrived at most MaxLag ago.
RequestOK(q) ==
  /\ request[q].state \in RequestStates
  /\ request[q].stamp \in Nat /\ request[q].turn \in Nat
  /\ request[q].state \in {"timed", "admitted"} =>
       /\ request[q].replica \in Replicas
       /\ request[q].at \in 0 .. instant
       /\ request[q].stamp = request[q].at + Skew[request[q].replica]
  /\ request[q].state = "timed" => instant <= request[q].at + MaxLag
  /\ request[q].turn > 0 => request[q].state \in {"admitted", "lost"}

RateTypeOK ==
  /\ shared \in BOOLEAN /\ instant \in Nat
  /\ bucket \in [Buckets -> SUBSET Asked] /\ hint \in [Buckets -> Int]
  /\ request \in [Asked -> [state : RequestStates, replica : Buckets, stamp : Nat,
                            at : Nat, turn : Nat]]
  /\ \A q \in Asked : RequestOK(q)

\* A request that was admitted and whose stamp may still count is in its bucket.
Held ==
  \A q \in Asked :
    (request[q].state = "admitted" /\ request[q].stamp > instant + MaxSkew - Span)
      => q \in bucket[BucketOf(request[q].replica)]

\* No two requests that were counted have the same turn, and the next turn is free.
TurnsApart ==
  /\ \A b \in Buckets : bucket[b] \subseteq Counted
  /\ \A q \in Asked : request[q].turn <= Cardinality(Counted)
  /\ \A p, q \in Counted : request[p].turn = request[q].turn => p = q

\* After a refusal its bucket is full, and the hint is when its oldest request leaves it.
IsOldest(q, counted) ==
  /\ q \in counted
  /\ \A p \in counted : IF shared THEN request[q].stamp <= request[p].stamp
                                  ELSE request[q].turn <= request[p].turn

HintIsOldest ==
  \A b \in Buckets :
    /\ Cardinality(bucket[b]) <= Quota
    /\ hint[b] # NoHint =>
         /\ Cardinality(bucket[b]) = Quota
         /\ \E q \in bucket[b] : IsOldest(q, bucket[b])
                                    /\ hint[b] >= request[q].stamp + Span

LimitInv == RateTypeOK /\ Held /\ QuotaKept /\ TurnsApart /\ HintIsOldest

(***************************************************************************)
(* Lemmas                                                                  *)
(***************************************************************************)
LEMMA LeastOf ==
  ASSUME NEW S, S \subseteq Nat, S # {}
  PROVE  \E n \in S : \A m \in S : n <= m
<1>1. PICK n \in S : \A m \in S : ~(<<m, n>> \in OpToRel(<, Nat))
  BY NatLessThanWellFounded, WFMin
<1>2. \A m \in S : n <= m
  <2> TAKE m \in S
  <2>1. m \in Nat /\ n \in Nat /\ ~(m < n)
    BY <1>1, <<m, n>> \in Nat \X Nat, <<m, n>>[1] = m, <<m, n>>[2] = n DEF OpToRel
  <2> QED
    BY <2>1
<1> QED
  BY <1>2

\* No replica's clock is ahead by more than MaxSkew.
LEMMA MaxSkewBounds == MaxSkew \in Nat /\ \A r \in Replicas : Skew[r] <= MaxSkew
<1>1. PICK s \in Replicas : \A r \in Replicas : Skew[r] <= Skew[s]
  BY QuotaAssumption
<1>2. \E k \in {Skew[r] : r \in Replicas} : \A r \in Replicas : Skew[r] <= k
  BY <1>1
<1>3. /\ MaxSkew \in {Skew[r] : r \in Replicas}
      /\ \A r \in Replicas : Skew[r] <= MaxSkew
  BY <1>2 DEF MaxSkew
<1> QED
  BY <1>3, QuotaAssumption

\* Requests are finitely many, so the ones that hold a place can be counted.
LEMMA AskedFinite ==
  /\ IsFiniteSet(Asked)
  /\ \A S \in SUBSET Asked : IsFiniteSet(S) /\ Cardinality(S) \in Nat
<1>1. IsFiniteSet(Asked)
  BY FS_Interval, QuotaAssumption, 1 \in Int, Requests \in Int DEF Asked
<1> QED
  BY <1>1, FS_Subset, FS_CardinalityType

\* A check keeps what is in its window, and nothing it had not counted.
LEMMA PruneKeeps ==
  ASSUME RateTypeOK, NEW b \in Buckets, NEW stamp \in Nat
  PROVE  /\ Prune(bucket[b], stamp) \subseteq bucket[b]
         /\ InWindow(bucket[b], stamp) \subseteq Prune(bucket[b], stamp)
         /\ Cardinality(Prune(bucket[b], stamp)) \in Nat
         /\ Cardinality(Prune(bucket[b], stamp)) <= Cardinality(bucket[b])
<1>1. bucket[b] \subseteq Asked
  BY DEF RateTypeOK
<1>2. Prune(bucket[b], stamp) \subseteq bucket[b]
  BY DEF Prune, InWindow, DropHead
<1>3. InWindow(bucket[b], stamp) \subseteq Prune(bucket[b], stamp)
  BY <1>1 DEF Prune, InWindow, DropHead, RateTypeOK, RequestOK
<1>4. IsFiniteSet(bucket[b])
  BY <1>1, AskedFinite
<1> QED
  BY <1>1, <1>2, <1>3, <1>4, AskedFinite, FS_Subset

\* Some request of a bucket that is not empty is the oldest.
LEMMA OldestExists ==
  ASSUME RateTypeOK, NEW S, S \subseteq Asked, S # {}
  PROVE  IsOldest(Oldest(S), S)
<1>1. PICK q \in S : \A p \in S : request[q].stamp <= request[p].stamp
  <2> DEFINE values == {request[p].stamp : p \in S}
  <2>1. values \subseteq Nat /\ values # {}
    BY DEF RateTypeOK, RequestOK
  <2>2. \E n \in values : \A m \in values : n <= m
    BY <2>1, LeastOf
  <2> QED
    BY <2>2
<1>2. PICK r \in S : \A p \in S : request[r].turn <= request[p].turn
  <2> DEFINE values == {request[p].turn : p \in S}
  <2>1. values \subseteq Nat /\ values # {}
    BY DEF RateTypeOK, RequestOK
  <2>2. \E n \in values : \A m \in values : n <= m
    BY <2>1, LeastOf
  <2> QED
    BY <2>2
<1>3. \E x \in S : \A p \in S : IF shared THEN request[x].stamp <= request[p].stamp
                                  ELSE request[x].turn <= request[p].turn
  BY <1>1, <1>2
<1> QED
  BY <1>3 DEF Oldest, IsOldest

\* A check at which the oldest request is no longer in the window drops it.
LEMMA OldestGoes ==
  ASSUME RateTypeOK, TurnsApart, NEW b \in Buckets, NEW stamp \in Nat,
         NEW q \in bucket[b], IsOldest(q, bucket[b]), request[q].stamp <= stamp - Span
  PROVE  q \notin Prune(bucket[b], stamp)
<1>1. bucket[b] \subseteq Asked /\ bucket[b] \subseteq Counted
  BY DEF RateTypeOK, TurnsApart
<1>2. \A p \in bucket[b] : request[p].stamp \in Nat /\ request[p].turn \in Nat
  BY <1>1 DEF RateTypeOK, RequestOK
<1>3. CASE shared
  BY <1>2, <1>3, QuotaAssumption DEF Prune, InWindow
<1>4. CASE ~shared
  <2>1. SUFFICES ASSUME NEW p \in bucket[b], request[p].stamp > stamp - Span,
                        request[p].turn <= request[q].turn
                 PROVE  FALSE
    BY <1>4 DEF Prune, DropHead, InWindow
  <2>2. request[q].turn <= request[p].turn
    BY <1>4 DEF IsOldest
  <2>3. p = q
    BY <1>1, <1>2, <2>1, <2>2 DEF TurnsApart
  <2> QED
    BY <1>2, <2>1, <2>3, QuotaAssumption
<1> QED
  BY <1>3, <1>4
(***************************************************************************)
(* The steps                                                               *)
(***************************************************************************)
LEMMA LimitInvInit == RateInit => LimitInv
<1>1. SUFFICES ASSUME RateInit PROVE LimitInv
  OBVIOUS
<1>2. RateTypeOK
  BY <1>1 DEF RateInit, RateTypeOK, RequestOK, RequestStates, Closed, Buckets, NoHint
<1>3. Held
  BY <1>1 DEF RateInit, Held, Closed
<1>4. \A b \in Buckets : \A from \in 0 .. LastInstant :
        AdmittedIn(b, from) = {}
  BY <1>1 DEF RateInit, AdmittedIn, Closed
<1>5. QuotaKept
  BY <1>4, FS_EmptySet, QuotaAssumption DEF QuotaKept
<1>6. Counted = {}
  BY <1>1 DEF RateInit, Counted, Closed
<1>7. TurnsApart
  BY <1>1, <1>6, FS_EmptySet DEF RateInit, TurnsApart, Closed
<1>8. HintIsOldest
  BY <1>1, FS_EmptySet, QuotaAssumption DEF RateInit, HintIsOldest
<1> QED
  BY <1>2, <1>3, <1>5, <1>7, <1>8 DEF LimitInv

\* A step that counts nobody and touches, of the requests, one that no bucket holds: a
\* refusal, an unreachable Redis, a clock that is read, time that passes.
LEMMA NobodyCounted ==
  ASSUME LimitInv, RateTypeOK', UNCHANGED shared, instant' >= instant,
         \A q \in Asked : \/ request'[q] = request[q]
                          \/ /\ request[q].state \in {"idle", "timed"}
                             /\ request'[q].state # "admitted" /\ request'[q].turn = 0,
         UNCHANGED bucket
  PROVE  /\ Held' /\ QuotaKept' /\ TurnsApart'
         /\ \A b \in Buckets : \A q \in bucket[b] : request'[q] = request[q]
<1>1. \A q \in Asked : \/ request'[q] = request[q]
                       \/ request[q].turn = 0 /\ request'[q].turn = 0
  BY DEF LimitInv, RateTypeOK, RequestOK
<1>2. Counted' = Counted /\ \A q \in Counted : request'[q] = request[q]
  BY <1>1 DEF Counted
<1>3. TurnsApart'
  BY <1>1, <1>2, AskedFinite DEF LimitInv, TurnsApart, Counted
<1>4. \A q \in Asked : request'[q].state = "admitted" => request'[q] = request[q]
  OBVIOUS
<1>5. Held'
  BY <1>4, MaxSkewBounds, QuotaAssumption
  DEF LimitInv, Held, RateTypeOK, RequestOK, BucketOf
<1>6. \A b \in Buckets, from \in 0 .. LastInstant :
        AdmittedIn(b, from)' = AdmittedIn(b, from)
  BY <1>4 DEF AdmittedIn, BucketOf
<1>7. QuotaKept'
  BY <1>6 DEF LimitInv, QuotaKept
<1> QED
  BY <1>2, <1>3, <1>5, <1>7 DEF LimitInv, TurnsApart
\* The same step keeps what is known of a hint it does not set.
LEMMA HintStays ==
  ASSUME LimitInv, UNCHANGED <<shared, bucket>>, NEW b \in Buckets, hint'[b] = hint[b],
         \A q \in bucket[b] : request'[q] = request[q], hint'[b] # NoHint
  PROVE  /\ Cardinality(bucket'[b]) = Quota
         /\ \E q \in bucket'[b] : IsOldest(q, bucket[b])'
                                    /\ hint'[b] >= request'[q].stamp + Span
<1>1. PICK q \in bucket[b] : IsOldest(q, bucket[b]) /\ hint[b] >= request[q].stamp + Span
  BY DEF LimitInv, HintIsOldest
<1>2. IsOldest(q, bucket[b])'
  BY <1>1 DEF IsOldest
<1> QED
  BY <1>1, <1>2 DEF LimitInv, HintIsOldest

\* Reading a replica's clock counts nobody.
LEMMA ReadClockKept ==
  ASSUME LimitInv, NEW q \in Asked, NEW r \in Replicas, ReadClock(q, r)
  PROVE  LimitInv'
<1>1. RateTypeOK'
  BY QuotaAssumption
  DEF LimitInv, RateTypeOK, RequestOK, RequestStates, ReadClock, Buckets
<1>2. \A p \in Asked : \/ request'[p] = request[p]
                       \/ /\ request[p].state \in {"idle", "timed"}
                          /\ request'[p].state # "admitted" /\ request'[p].turn = 0
  BY DEF ReadClock, LimitInv, RateTypeOK
<1>3. UNCHANGED <<shared, instant, bucket, hint>> /\ instant' >= instant
  BY DEF ReadClock, LimitInv, RateTypeOK
<1>4. /\ Held' /\ QuotaKept' /\ TurnsApart'
      /\ \A b \in Buckets : \A p \in bucket[b] : request'[p] = request[p]
  BY <1>1, <1>2, <1>3, NobodyCounted
<1>5. HintIsOldest'
  BY <1>3, <1>4, HintStays DEF LimitInv, HintIsOldest
<1> QED
  BY <1>1, <1>4, <1>5 DEF LimitInv

\* A request that finds Redis unreachable is answered 503, and no bucket changes.
LEMMA UnreachableKept ==
  ASSUME LimitInv, NEW q \in Asked, Unreachable(q)
  PROVE  LimitInv'
<1>1. RateTypeOK'
  BY DEF LimitInv, RateTypeOK, RequestOK, RequestStates, Unreachable, Closed, Buckets
<1>2. \A p \in Asked : \/ request'[p] = request[p]
                       \/ /\ request[p].state \in {"idle", "timed"}
                          /\ request'[p].state # "admitted" /\ request'[p].turn = 0
  BY DEF Unreachable, Closed, LimitInv, RateTypeOK
<1>3. UNCHANGED <<shared, instant, bucket, hint>> /\ instant' >= instant
  BY DEF Unreachable, LimitInv, RateTypeOK
<1>4. /\ Held' /\ QuotaKept' /\ TurnsApart'
      /\ \A b \in Buckets : \A p \in bucket[b] : request'[p] = request[p]
  BY <1>1, <1>2, <1>3, NobodyCounted
<1>5. HintIsOldest'
  BY <1>3, <1>4, HintStays DEF LimitInv, HintIsOldest
<1> QED
  BY <1>1, <1>4, <1>5 DEF LimitInv

\* Time passes no further than the slowest request in hand allows, and what a bucket must
\* still hold only shrinks.
LEMMA TimePassesKept ==
  ASSUME LimitInv, TimePasses
  PROVE  LimitInv'
<1>1. RateTypeOK'
  <2>1. \A q \in Asked : request[q].state = "timed" => instant + 1 <= request[q].at + MaxLag
    BY QuotaAssumption DEF TimePasses, LimitInv, RateTypeOK, RequestOK
  <2>2. \A q \in Asked : RequestOK(q)'
    BY <2>1 DEF TimePasses, LimitInv, RateTypeOK, RequestOK
  <2> QED
    BY <2>2 DEF TimePasses, LimitInv, RateTypeOK
<1>3. UNCHANGED <<shared, bucket, hint, request>> /\ instant' >= instant
  BY DEF TimePasses, LimitInv, RateTypeOK
<1>4. /\ Held' /\ QuotaKept' /\ TurnsApart'
      /\ \A b \in Buckets : \A p \in bucket[b] : request'[p] = request[p]
  BY <1>1, <1>3, NobodyCounted
<1>5. HintIsOldest'
  BY <1>3, <1>4, HintStays DEF LimitInv, HintIsOldest
<1> QED
  BY <1>1, <1>4, <1>5 DEF LimitInv

\* A refusal finds the bucket full of requests that still count, so it drops nothing, and
\* a request that waited for its bucket's hint is not the one it refuses.
LEMMA RefusedFull ==
  ASSUME LimitInv, NEW q \in Asked, Refuse(q), NEW b \in Buckets,
         b = BucketOf(request[q].replica)
  PROVE  /\ request[q].stamp \in Nat
         /\ Prune(bucket[b], request[q].stamp) = bucket[b]
         /\ Cardinality(bucket[b]) = Quota
         /\ hint[b] = NoHint \/ request[q].stamp < hint[b]
<1>1. request[q].stamp \in Nat /\ RateTypeOK /\ TurnsApart
  BY DEF LimitInv, RateTypeOK, RequestOK
<1>2. Cardinality(Prune(bucket[b], request[q].stamp)) >= Quota
  BY DEF Refuse
<1>3. bucket[b] \in SUBSET Asked /\ IsFiniteSet(bucket[b]) /\ Cardinality(bucket[b]) \in Nat
  BY <1>1, AskedFinite DEF RateTypeOK
<1>4. /\ Prune(bucket[b], request[q].stamp) \subseteq bucket[b]
      /\ Cardinality(Prune(bucket[b], request[q].stamp)) \in Nat
      /\ Cardinality(Prune(bucket[b], request[q].stamp)) <= Cardinality(bucket[b])
  BY <1>1, PruneKeeps
<1>5. Cardinality(bucket[b]) <= Quota
  BY DEF LimitInv, HintIsOldest
<1>6. Cardinality(Prune(bucket[b], request[q].stamp)) = Cardinality(bucket[b])
      /\ Cardinality(bucket[b]) = Quota
  BY <1>2, <1>3, <1>4, <1>5, QuotaAssumption
<1>7. Prune(bucket[b], request[q].stamp) = bucket[b]
  BY <1>3, <1>4, <1>6, FS_Subset
<1>8. ASSUME hint[b] # NoHint PROVE request[q].stamp < hint[b]
  <2>1. PICK p \in bucket[b] : IsOldest(p, bucket[b])
                               /\ hint[b] >= request[p].stamp + Span
    BY <1>8 DEF LimitInv, HintIsOldest
  <2>2. request[p].stamp \in Nat /\ hint[b] \in Int
    BY <1>1, <1>3 DEF RateTypeOK, RequestOK
  <2>3. ~(request[p].stamp <= request[q].stamp - Span)
    BY <1>1, <1>7, <2>1, OldestGoes
  <2> QED
    BY <1>1, <2>1, <2>2, <2>3, QuotaAssumption
<1> QED
  BY <1>1, <1>6, <1>7, <1>8

\* A refusal prunes the bucket, takes no place and tells when the oldest entry leaves.
LEMMA RefuseKept ==
  ASSUME LimitInv, NEW q \in Asked, Refuse(q)
  PROVE  LimitInv'
<1>0. PICK b \in Buckets, stamp \in Nat :
        /\ b = BucketOf(request[q].replica) /\ stamp = request[q].stamp
        /\ request[q].state = "timed"
  BY DEF Refuse, LimitInv, RateTypeOK, RequestOK, BucketOf, Buckets
<1>1. Prune(bucket[b], stamp) = bucket[b] /\ Cardinality(bucket[b]) = Quota
  BY <1>0, RefusedFull
<1>2. /\ UNCHANGED <<shared, instant, bucket>>
      /\ hint' = [hint EXCEPT ![b] = stamp + RetryAfter(bucket[b], stamp)]
      /\ request' = [request EXCEPT ![q] = Closed("refused")]
  BY <1>0, <1>1 DEF Refuse, LimitInv, RateTypeOK
<1>3. bucket[b] \subseteq Asked /\ bucket[b] # {}
  BY <1>0, <1>1, FS_EmptySet, QuotaAssumption DEF LimitInv, RateTypeOK
<1>4. PICK oldest : oldest = Oldest(bucket[b]) /\ IsOldest(oldest, bucket[b])
  BY <1>3, OldestExists DEF LimitInv
<1>5. oldest \in bucket[b] /\ request[oldest].stamp \in Nat
  BY <1>3, <1>4 DEF IsOldest, LimitInv, RateTypeOK, RequestOK
<1>6. /\ RetryAfter(bucket[b], stamp) \in Nat
      /\ stamp + RetryAfter(bucket[b], stamp) >= request[oldest].stamp + Span
  BY <1>0, <1>4, <1>5, QuotaAssumption DEF RetryAfter
<1>7. RateTypeOK'
  <2>1. \A p \in Asked : RequestOK(p)'
    BY <1>2 DEF LimitInv, RateTypeOK, RequestOK, RequestStates, Closed
  <2>2. hint' \in [Buckets -> Int]
    BY <1>0, <1>1, <1>2, <1>6 DEF LimitInv, RateTypeOK
  <2> QED
    BY <1>2, <2>1, <2>2 DEF LimitInv, RateTypeOK, RequestStates, Closed, Buckets
<1>8. \A p \in Asked : \/ request'[p] = request[p]
                       \/ /\ request[p].state \in {"idle", "timed"}
                          /\ request'[p].state # "admitted" /\ request'[p].turn = 0
  BY <1>0, <1>2 DEF Closed, LimitInv, RateTypeOK
<1>9. /\ Held' /\ QuotaKept' /\ TurnsApart'
      /\ \A a \in Buckets : \A p \in bucket[a] : request'[p] = request[p]
  BY <1>2, <1>7, <1>8, NobodyCounted DEF LimitInv, RateTypeOK
<1>10. HintIsOldest'
  <2>1. ASSUME NEW a \in Buckets, a # b, hint'[a] # NoHint
        PROVE  /\ Cardinality(bucket'[a]) = Quota
               /\ \E p \in bucket'[a] : IsOldest(p, bucket[a])'
                                          /\ hint'[a] >= request'[p].stamp + Span
    BY <1>2, <1>9, <2>1, HintStays DEF LimitInv, RateTypeOK
  <2>2. IsOldest(oldest, bucket[b])'
    BY <1>0, <1>2, <1>4, <1>9 DEF IsOldest
  <2>3. hint'[b] >= request'[oldest].stamp + Span
    BY <1>0, <1>2, <1>5, <1>6, <1>9 DEF LimitInv, RateTypeOK
  <2> QED
    BY <1>1, <1>2, <1>5, <2>1, <2>2, <2>3 DEF LimitInv, HintIsOldest
<1> QED
  BY <1>7, <1>9, <1>10 DEF LimitInv
\* A request is counted, whether or not its caller hears of it.
LEMMA CountedKept ==
  ASSUME LimitInv, NEW q \in Asked, NEW state \in {"admitted", "lost"},
         Admitted(q), TakePlace(q, state), UNCHANGED <<shared, instant>>
  PROVE  LimitInv'
<1>0. PICK b \in Buckets, stamp \in Nat :
        /\ b = BucketOf(request[q].replica) /\ stamp = request[q].stamp
        /\ request[q].state = "timed"
  BY DEF Admitted, LimitInv, RateTypeOK, RequestOK, BucketOf, Buckets
<1>1. PICK kept : kept = Prune(bucket[b], stamp)
  OBVIOUS
<1>2. PICK turn : turn = Cardinality(Counted) + 1
  OBVIOUS
<1>3. /\ request' = [request EXCEPT ![q].state = state, ![q].turn = turn]
      /\ bucket' = [bucket EXCEPT ![b] = kept \union {q}]
      /\ hint' = [hint EXCEPT ![b] = NoHint]
      /\ Cardinality(kept) < Quota
  BY <1>0, <1>1, <1>2 DEF Admitted, TakePlace
<1>4. /\ kept \subseteq bucket[b] /\ InWindow(bucket[b], stamp) \subseteq kept
      /\ kept \subseteq Asked /\ IsFiniteSet(kept) /\ Cardinality(kept) \in Nat
  BY <1>0, <1>1, PruneKeeps, AskedFinite DEF LimitInv, RateTypeOK
<1>5. Counted \subseteq Asked /\ IsFiniteSet(Counted) /\ Cardinality(Counted) \in Nat
      /\ turn \in Nat /\ turn > 0
  BY <1>2, AskedFinite DEF Counted
<1>6. q \notin Counted /\ q \notin bucket[b]
  BY <1>0 DEF LimitInv, RateTypeOK, RequestOK, TurnsApart, Counted
<1>7. /\ request'[q] = [request[q] EXCEPT !.state = state, !.turn = turn]
      /\ \A p \in Asked \ {q} : request'[p] = request[p]
      /\ \A p \in Asked : /\ request'[p].stamp = request[p].stamp
                          /\ request'[p].at = request[p].at
                          /\ request'[p].replica = request[p].replica
  BY <1>3 DEF LimitInv, RateTypeOK
<1>8. /\ request'[q].state = state /\ request'[q].turn = turn
      /\ bucket'[b] = kept \union {q} /\ hint'[b] = NoHint
      /\ \A a \in Buckets \ {b} : bucket'[a] = bucket[a] /\ hint'[a] = hint[a]
  BY <1>3, <1>7 DEF LimitInv, RateTypeOK
<1>9. RateTypeOK'
  <2>1. request' \in [Asked -> [state : RequestStates, replica : Buckets, stamp : Nat,
                                at : Nat, turn : Nat]]
    BY <1>3, <1>5 DEF LimitInv, RateTypeOK, RequestStates
  <2>2. bucket' \in [Buckets -> SUBSET Asked] /\ hint' \in [Buckets -> Int]
    BY <1>3, <1>4 DEF LimitInv, RateTypeOK, NoHint
  <2>3. \A p \in Asked : RequestOK(p)'
    <3> TAKE p \in Asked
    <3>1. CASE p = q
      BY <1>0, <1>5, <1>7, <1>8, <3>1 DEF LimitInv, RateTypeOK, RequestOK, RequestStates
    <3>2. CASE p # q
      BY <1>7, <3>2 DEF LimitInv, RateTypeOK, RequestOK
    <3> QED
      BY <3>1, <3>2
  <2> QED
    BY <2>1, <2>2, <2>3 DEF LimitInv, RateTypeOK
<1>10. stamp <= instant + MaxSkew /\ instant <= request[q].at + MaxLag
       /\ request[q].at \in 0 .. instant /\ instant \in Nat
  BY <1>0, MaxSkewBounds, QuotaAssumption DEF LimitInv, RateTypeOK, RequestOK
<1>11. \* what may still count of those admitted before is kept
       \A p \in Asked : (/\ request[p].state = "admitted"
                         /\ request[p].stamp > instant + MaxSkew - Span
                         /\ BucketOf(request[p].replica) = b) => p \in kept
  <2> TAKE p \in Asked
  <2> HAVE /\ request[p].state = "admitted"
           /\ request[p].stamp > instant + MaxSkew - Span
           /\ BucketOf(request[p].replica) = b
  <2>1. p \in bucket[b]
    BY DEF LimitInv, Held
  <2>2. request[p].stamp > stamp - Span
    BY <1>10, MaxSkewBounds, QuotaAssumption DEF LimitInv, RateTypeOK, RequestOK
  <2> QED
    BY <1>4, <2>1, <2>2 DEF InWindow
<1>12. Held'
  <2> SUFFICES ASSUME NEW p \in Asked, request'[p].state = "admitted",
                      request'[p].stamp > instant + MaxSkew - Span
               PROVE  p \in bucket'[BucketOf(request[p].replica)]
    BY <1>7 DEF Held, BucketOf
  <2>1. CASE p = q
    BY <1>0, <1>8, <2>1
  <2>2. CASE p # q
    BY <1>7, <1>8, <1>11, <2>2
    DEF LimitInv, Held, RateTypeOK, RequestOK, BucketOf, Buckets
  <2> QED
    BY <2>1, <2>2
<1>13. QuotaKept'
  <2> SUFFICES ASSUME NEW a \in Buckets, NEW from \in 0 .. LastInstant
               PROVE  Cardinality(AdmittedIn(a, from)') <= Quota
    BY DEF QuotaKept
  <2>1. CASE q \notin AdmittedIn(a, from)'
    <3>1. AdmittedIn(a, from)' = AdmittedIn(a, from)
      BY <1>0, <1>7, <2>1 DEF AdmittedIn, BucketOf
    <3> QED
      BY <3>1 DEF LimitInv, QuotaKept
  <2>2. CASE q \in AdmittedIn(a, from)'
    <3>1. /\ a = b /\ from <= request[q].at
          /\ request[q].at < from + Span - MaxLag - MaxSkew
      BY <1>0, <1>7, <2>2 DEF AdmittedIn, BucketOf
    <3>2. AdmittedIn(a, from)' = AdmittedIn(a, from) \union {q}
      BY <1>7, <2>2 DEF AdmittedIn, BucketOf
    <3>3. AdmittedIn(a, from) \subseteq kept
      <4> SUFFICES ASSUME NEW p \in AdmittedIn(a, from) PROVE p \in kept
        OBVIOUS
      <4>1. /\ p \in Asked /\ request[p].state = "admitted" /\ from <= request[p].at
            /\ BucketOf(request[p].replica) = b
        BY <3>1 DEF AdmittedIn
      <4>2. request[p].stamp >= request[p].at
            /\ request[p].at \in Nat /\ request[p].stamp \in Nat
        BY <4>1, QuotaAssumption DEF LimitInv, RateTypeOK, RequestOK
      <4>3. request[p].stamp > instant + MaxSkew - Span
        BY <1>10, <3>1, <4>1, <4>2, MaxSkewBounds, QuotaAssumption
      <4> QED
        BY <1>11, <4>1, <4>3
    <3>4. Cardinality(AdmittedIn(a, from)) <= Cardinality(kept)
          /\ IsFiniteSet(AdmittedIn(a, from)) /\ Cardinality(AdmittedIn(a, from)) \in Nat
      BY <1>4, <3>3, FS_Subset, FS_CardinalityType
    <3>5. Cardinality(AdmittedIn(a, from) \union {q})
            \in {Cardinality(AdmittedIn(a, from)), Cardinality(AdmittedIn(a, from)) + 1}
      BY <3>4, FS_AddElement
    <3>6. Cardinality(AdmittedIn(a, from)) + 1 <= Quota
      BY <1>3, <1>4, <3>4, QuotaAssumption
    <3> QED
      BY <3>2, <3>4, <3>5, <3>6, QuotaAssumption
  <2> QED
    BY <2>1, <2>2
<1>14. Counted' = Counted \union {q}
  BY <1>5, <1>7, <1>8 DEF Counted
<1>15. Cardinality(Counted') = turn
  BY <1>2, <1>5, <1>6, <1>14, FS_AddElement
<1>16. TurnsApart'
  <2>1. \A p \in Asked : request'[p].turn <= turn
    <3>1. \A p \in Asked : request[p].turn <= Cardinality(Counted) /\ request[p].turn \in Nat
      BY DEF LimitInv, TurnsApart, RateTypeOK, RequestOK
    <3>2. ASSUME NEW p \in Asked, p # q PROVE request'[p].turn <= turn
      BY <1>2, <1>5, <1>7, <3>1, <3>2
    <3> QED
      BY <1>5, <1>8, <3>2
  <2>2. \A p \in Counted : request'[p] = request[p] /\ request[p].turn \in Nat
                           /\ request[p].turn < turn
    BY <1>2, <1>5, <1>6, <1>7 DEF LimitInv, TurnsApart, RateTypeOK, RequestOK
  <2>3. \A p, r \in Counted' : request'[p].turn = request'[r].turn => p = r
    BY <1>5, <1>8, <1>14, <2>2 DEF LimitInv, TurnsApart
  <2>4. \A a \in Buckets : bucket'[a] \subseteq Counted'
    BY <1>4, <1>8, <1>14 DEF LimitInv, TurnsApart
  <2> QED
    BY <1>15, <2>1, <2>3, <2>4 DEF TurnsApart
<1>17. HintIsOldest'
  <2>1. Cardinality(bucket'[b]) <= Quota
    <3>1. Cardinality(kept \union {q}) \in {Cardinality(kept), Cardinality(kept) + 1}
      BY <1>4, FS_AddElement
    <3>2. Cardinality(bucket'[b]) \in {Cardinality(kept), Cardinality(kept) + 1}
      BY <1>8, <3>1
    <3>3. Cardinality(kept) < Quota
      BY <1>3
    <3> QED
      BY <1>4, <3>2, <3>3, QuotaAssumption
  <2>2. ASSUME NEW a \in Buckets, a # b
        PROVE  /\ Cardinality(bucket'[a]) <= Quota
               /\ hint'[a] # NoHint =>
                    /\ Cardinality(bucket'[a]) = Quota
                    /\ \E p \in bucket'[a] : IsOldest(p, bucket[a])'
                                               /\ hint'[a] >= request'[p].stamp + Span
    <3>1. bucket'[a] = bucket[a] /\ hint'[a] = hint[a] /\ shared' = shared
      BY <1>8, <2>2
    <3>2. \A p \in bucket[a] : request'[p] = request[p]
      BY <1>6, <1>7, <2>2 DEF LimitInv, RateTypeOK, TurnsApart
    <3>3. \A p \in bucket[a] : IsOldest(p, bucket[a]) => IsOldest(p, bucket[a])'
      BY <3>1, <3>2 DEF IsOldest
    <3> QED
      BY <3>1, <3>2, <3>3 DEF LimitInv, HintIsOldest
  <2> QED
    BY <1>8, <2>1, <2>2 DEF HintIsOldest
<1> QED
  BY <1>9, <1>12, <1>13, <1>16, <1>17 DEF LimitInv

\* The invariant of the rate limiter is inductive.
LEMMA LimitInvNext == LimitInv /\ [RateNext]_rateVars => LimitInv'
<1> SUFFICES ASSUME LimitInv, [RateNext]_rateVars PROVE LimitInv'
  OBVIOUS
<1>1. ASSUME NEW q \in Asked, Admit(q) PROVE LimitInv'
  BY <1>1, CountedKept DEF Admit
<1>2. ASSUME NEW q \in Asked, AnswerLost(q) PROVE LimitInv'
  BY <1>2, CountedKept DEF AnswerLost
<1>3. CASE UNCHANGED rateVars
  <2>1. \A b \in Buckets : hint'[b] = hint[b] /\ bucket'[b] = bucket[b]
    BY <1>3 DEF rateVars
  <2>2. RateTypeOK' /\ UNCHANGED <<shared, instant, bucket, request, hint>>
    BY <1>3 DEF rateVars, LimitInv, RateTypeOK, RequestOK
  <2>3. /\ Held' /\ QuotaKept' /\ TurnsApart'
        /\ \A b \in Buckets : \A q \in bucket[b] : request'[q] = request[q]
    BY <2>2, NobodyCounted DEF LimitInv, RateTypeOK
  <2>4. HintIsOldest'
    BY <2>2, <2>3, HintStays DEF LimitInv, HintIsOldest
  <2> QED
    BY <2>2, <2>3, <2>4 DEF LimitInv
<1> QED
  BY <1>1, <1>2, <1>3, RefuseKept, UnreachableKept, ReadClockKept, TimePassesKept
  DEF RateNext

\* So it holds in every state of every run.
LEMMA LimitInvHolds == RateSpec => []LimitInv
BY LimitInvInit, LimitInvNext, PTL DEF RateSpec

\* The quota of the limiter holds for the requests as they arrived, for any number of
\* replicas and requests, any skew between the clocks and any wait (abuse.py: the check
\* under the lock of the memory backend, and the Redis script).
THEOREM QuotaIsKept == RateSpec => []QuotaKept
BY LimitInvHolds, PTL DEF LimitInv

\* Who comes back when the Retry-After of the last refusal is over, and nobody was
\* admitted since, is not refused again: in both backends, although the memory backend
\* measures the wait from the head of its queue and not from its lowest stamp.
THEOREM RetryAfterIsHonoured == RateSpec => RetryHonoured
<1>1. ASSUME LimitInv, [RateNext]_rateVars
      PROVE  [\A q \in Asked :
                LET b == BucketOf(request[q].replica)
                IN  (request[q].state = "timed" /\ request'[q].state = "refused")
                      => (hint[b] = NoHint \/ request[q].stamp < hint[b])]_rateVars
  <2> SUFFICES ASSUME RateNext, NEW q \in Asked,
                      request[q].state = "timed", request'[q].state = "refused"
               PROVE  \/ hint[BucketOf(request[q].replica)] = NoHint
                      \/ request[q].stamp < hint[BucketOf(request[q].replica)]
    BY <1>1
  <2>1. Refuse(q)
    <3>1. ~TimePasses
      BY DEF TimePasses
    <3>2. PICK p \in Asked : \/ Admit(p) \/ Refuse(p) \/ AnswerLost(p) \/ Unreachable(p)
                             \/ \E r \in Replicas : ReadClock(p, r)
      BY <3>1 DEF RateNext
    <3>3. p = q
      BY <1>1, <3>2 DEF Admit, Refuse, AnswerLost, Unreachable, ReadClock, TakePlace,
                        LimitInv, RateTypeOK
    <3> QED
      BY <1>1, <3>2, <3>3 DEF Admit, AnswerLost, Unreachable, ReadClock, TakePlace, Closed,
                              LimitInv, RateTypeOK
  <2>2. BucketOf(request[q].replica) \in Buckets
    BY <1>1 DEF LimitInv, RateTypeOK, RequestOK, BucketOf, Buckets
  <2> QED
    BY <1>1, <2>1, <2>2, RefusedFull
<1> QED
  BY <1>1, LimitInvHolds, PTL DEF RateSpec, RetryHonoured

-----------------------------------------------------------------------------
(* The caches of an assessment: how old what they answer may be. *)

InHand == {"looking", "loading", "storing"}

CachedRow == [place : Places, asOf : Nat]
QueryRow == [state : InHand \cup {"idle", "hit", "answered"},
             server : Servers \cup {"none"}, place : Places \cup {"none"},
             begun : Nat, asOf : Nat, complete : BOOLEAN]

\* A query in hand began at most MaxWork ago at a server, and what it stores is as of then.
QueryOK(q) ==
  /\ query[q].begun \in Nat /\ query[q].begun <= moment
  /\ query[q].state \in InHand =>
       /\ query[q].server \in Servers /\ query[q].place \in Places
       /\ moment <= query[q].begun + MaxWork
  /\ query[q].state = "storing" => query[q].asOf = query[q].begun

\* An entry of Redis expires a TTL after it was stored, at most MaxWork after it was true.
RedisOK(p) ==
  redis[p] # NoEntry =>
    /\ redis[p].asOf \in Nat /\ redis[p].until \in Nat
    /\ redis[p].until <= redis[p].asOf + MaxWork + Ttl

CacheTypeOK ==
  /\ moment \in Nat
  /\ memory \in [Servers -> Seq(CachedRow)]
  /\ query \in [1 .. Queries -> QueryRow]
  /\ redis \in [Places -> [asOf : Int, until : Int]]

CInv ==
  /\ CacheTypeOK /\ HitsAreYoung
  /\ \A q \in 1 .. Queries : QueryOK(q)
  /\ \A p \in Places : RedisOK(p)

\* Whatever a query takes from a memory cache and puts there is an entry.
LEMMA EntriesStay ==
  ASSUME NEW s \in Seq(CachedRow), NEW i \in 1 .. Len(s)
  PROVE  RemoveAt(s, i) \in Seq(CachedRow)
<1>1. SubSeq(s, 1, i - 1) \in Seq(CachedRow) /\ SubSeq(s, i + 1, Len(s)) \in Seq(CachedRow)
  BY SubSeqProperties
<1> QED
  BY <1>1, ConcatProperties DEF RemoveAt

\* What a server remembers after it stored an answer is a list of cached rows.
LEMMA RememberedType ==
  ASSUME CInv, NEW q \in 1 .. Queries, NEW s \in Servers, query[q].place \in Places
  PROVE  Remembered(s, q) \in Seq(CachedRow)
<1> DEFINE at == IndexIn(s, query[q].place)
           entry == [place |-> query[q].place, asOf |-> query[q].asOf]
           set == IF at = {} THEN Append(memory[s], entry)
                  ELSE [memory[s] EXCEPT ![CHOOSE i \in at : TRUE] = entry]
<1>1. memory[s] \in Seq(CachedRow) /\ entry \in CachedRow
  BY DEF CInv, CacheTypeOK, CachedRow, QueryRow
<1>2. at # {} => (CHOOSE i \in at : TRUE) \in 1 .. Len(memory[s])
  BY DEF IndexIn
<1>3. set \in Seq(CachedRow)
  BY <1>1, <1>2, ExceptSeq, AppendProperties
<1>4. Len(set) > MemoryEntries => Tail(set) \in Seq(CachedRow)
  <2>1. set = <<>> => Len(set) = 0
    OBVIOUS
  <2> QED
    BY <1>3, <2>1, HeadTailProperties, CacheAssumption
<1> QED
  BY <1>3, <1>4 DEF Remembered

\* A step of one query, its answer aside, that leaves Redis alone.
LEMMA QueryMoves ==
  ASSUME CInv, NEW q \in 1 .. Queries, NEW row \in QueryRow,
         query' = [query EXCEPT ![q] = row], UNCHANGED <<moment, redis>>,
         memory' \in [Servers -> Seq(CachedRow)], row.begun <= moment,
         row.state \in InHand => row.server \in Servers /\ row.place \in Places
                                /\ moment <= row.begun + MaxWork,
         row.state = "storing" => row.asOf = row.begun,
         row.state = "hit" => row.begun - row.asOf < Ttl + MaxWork
  PROVE  CInv'
<1>1. query'[q] = row /\ \A r \in 1 .. Queries : r # q => query'[r] = query[r]
  BY DEF CInv, CacheTypeOK
<1>2. \A r \in 1 .. Queries : QueryOK(r)'
  <2> TAKE r \in 1 .. Queries
  <2>1. CASE r = q
    BY <1>1, <2>1 DEF QueryOK, QueryRow
  <2>2. CASE r # q
    BY <1>1, <2>2 DEF CInv, QueryOK
  <2> QED
    BY <2>1, <2>2
<1>3. HitsAreYoung'
  BY <1>1 DEF CInv, HitsAreYoung
<1>4. CacheTypeOK'
  BY DEF CInv, CacheTypeOK
<1>5. \A p \in Places : RedisOK(p)'
  BY DEF CInv, RedisOK
<1> QED
  BY <1>2, <1>3, <1>4, <1>5 DEF CInv

\* Empty caches satisfy the invariant.
LEMMA CacheInvInit == CacheInit => CInv
BY DEF CacheInit, CInv, CacheTypeOK, HitsAreYoung, QueryOK, RedisOK, NotBegun, NoEntry,
       InHand, CachedRow, QueryRow

\* A query begins now.
LEMMA BeginKept ==
  ASSUME CInv, NEW q \in 1 .. Queries, NEW s \in Servers, NEW p \in Places, Begin(q, s, p)
  PROVE  CInv'
<1>1. PICK row : row = [NotBegun EXCEPT !.state = "looking", !.server = s, !.place = p,
                                        !.begun = moment]
  OBVIOUS
<1>2. row \in QueryRow /\ row.state = "looking" /\ row.server = s /\ row.place = p
      /\ row.begun = moment
  <2>1. moment \in Nat
    BY DEF CInv, CacheTypeOK
  <2>2. row = [state |-> "looking", server |-> s, place |-> p, begun |-> moment,
               asOf |-> 0, complete |-> FALSE]
    BY <1>1 DEF NotBegun
  <2> QED
    BY <2>1, <2>2 DEF QueryRow, InHand
<1>3. /\ query' = [query EXCEPT ![q] = row] /\ UNCHANGED <<moment, redis>>
      /\ memory' \in [Servers -> Seq(CachedRow)]
  BY <1>1 DEF Begin, CInv, CacheTypeOK
<1>4. row.begun <= moment /\ moment <= row.begun + MaxWork
      /\ row.server \in Servers /\ row.place \in Places
  BY <1>2, CacheAssumption DEF CInv, CacheTypeOK
<1> QED
  BY <1>2, <1>3, <1>4, QueryMoves DEF InHand

\* What is taken out of a cache, as the answer of q.
LEMMA HitMoves ==
  ASSUME CInv, NEW q \in 1 .. Queries, NEW entry, entry.asOf \in Nat, Hit(q, entry),
         query[q].begun - entry.asOf < Ttl + MaxWork, UNCHANGED <<moment, memory, redis>>
  PROVE  CInv'
<1>1. PICK row : row = [NotBegun EXCEPT !.state = "hit", !.begun = query[q].begun,
                                        !.asOf = entry.asOf]
  OBVIOUS
<1>2. row \in QueryRow /\ row.state = "hit" /\ row.begun = query[q].begun
      /\ row.asOf = entry.asOf
  BY <1>1 DEF NotBegun, QueryRow, InHand, CInv, QueryOK
<1>3. /\ query' = [query EXCEPT ![q] = row] /\ row.begun <= moment
      /\ memory' \in [Servers -> Seq(CachedRow)]
  BY <1>1, <1>2 DEF Hit, CInv, CacheTypeOK, QueryOK
<1> QED
  BY <1>2, <1>3, QueryMoves DEF InHand

\* An entry of Redis that has not expired was true at most a TTL and a query's time ago.
LEMMA HitRedisKept ==
  ASSUME CInv, NEW q \in 1 .. Queries, HitRedis(q)
  PROVE  CInv'
<1>1. query[q].place \in Places /\ query[q].begun \in Nat /\ query[q].begun <= moment
  BY DEF HitRedis, CInv, QueryOK, InHand
<1>2. redis[query[q].place].asOf \in Nat
      /\ query[q].begun - redis[query[q].place].asOf < Ttl + MaxWork
  BY <1>1, CacheAssumption DEF HitRedis, InRedis, CInv, CacheTypeOK, RedisOK
<1> QED
  BY <1>2, HitMoves DEF HitRedis

\* An entry of the memory is answered while it is young, and removed when it is not.
LEMMA LookInMemoryKept ==
  ASSUME CInv, NEW q \in 1 .. Queries, LookInMemory(q)
  PROVE  CInv'
<1>1. PICK s \in Servers : s = query[q].server /\ query[q].state = "looking"
  BY DEF LookInMemory, CInv, QueryOK, InHand
<1> DEFINE here == CHOOSE i \in IndexIn(s, query[q].place) : TRUE
<1>2. memory[s] \in Seq(CachedRow) /\ query[q].begun \in Nat /\ query[q] \in QueryRow
  BY DEF CInv, CacheTypeOK, QueryOK
<1>3. UNCHANGED <<moment, redis>>
  BY DEF LookInMemory
<1>4. CASE IndexIn(s, query[q].place) # {} /\ Young(memory[s][here], query[q].begun)
  <2>1. here \in 1 .. Len(memory[s])
    BY <1>1, <1>4 DEF IndexIn
  <2>2. memory[s][here].asOf \in Nat
    <3>1. memory[s][here] \in CachedRow
      BY <1>2, <2>1, ElementOfSeq
    <3> QED
      BY <3>1 DEF CachedRow
  <2>3. query[q].begun - memory[s][here].asOf < Ttl + MaxWork
    BY <1>2, <1>4, <2>2, CacheAssumption DEF Young
  <2>4. Hit(q, memory[s][here]) /\ UNCHANGED memory
    BY <1>1, <1>4 DEF LookInMemory
  <2> QED
    BY <1>3, <2>2, <2>3, <2>4, HitMoves
<1>5. CASE ~(IndexIn(s, query[q].place) # {} /\ Young(memory[s][here], query[q].begun))
  <2>1. /\ query' = [query EXCEPT ![q].state = "loading"]
        /\ memory' = IF IndexIn(s, query[q].place) = {} THEN memory
                     ELSE [memory EXCEPT ![s] = RemoveAt(@, here)]
    BY <1>1, <1>5 DEF LookInMemory
  <2>2. memory' \in [Servers -> Seq(CachedRow)]
    <3>1. IndexIn(s, query[q].place) # {} => RemoveAt(memory[s], here) \in Seq(CachedRow)
      BY <1>1, <1>2, EntriesStay DEF IndexIn
    <3> QED
      BY <2>1, <3>1 DEF CInv, CacheTypeOK
  <2>3. PICK row : row = [query[q] EXCEPT !.state = "loading"]
    OBVIOUS
  <2>4. row \in QueryRow /\ row.state = "loading" /\ row.begun = query[q].begun
        /\ row.server = query[q].server /\ row.place = query[q].place
    BY <1>2, <2>3 DEF QueryRow, InHand
  <2>5. query' = [query EXCEPT ![q] = row]
    BY <2>1, <2>3 DEF CInv, CacheTypeOK
  <2>6. row.begun <= moment /\ row.server \in Servers /\ row.place \in Places
        /\ moment <= row.begun + MaxWork
    BY <1>1, <2>4 DEF CInv, QueryOK, InHand
  <2> QED
    BY <1>3, <2>2, <2>4, <2>5, <2>6, QueryMoves DEF InHand
<1> QED
  BY <1>4, <1>5

\* A computed answer is true as of the moment its query began.
LEMMA ComputeKept ==
  ASSUME CInv, NEW q \in 1 .. Queries, NEW complete \in BOOLEAN, Compute(q, complete)
  PROVE  CInv'
<1>1. query[q] \in QueryRow /\ query[q].state = "loading"
  BY DEF Compute, CInv, CacheTypeOK
<1>2. PICK row : row = [query[q] EXCEPT !.state = "storing", !.asOf = query[q].begun,
                                        !.complete = complete]
  OBVIOUS
<1>3. row \in QueryRow /\ row.state = "storing" /\ row.begun = query[q].begun
      /\ row.asOf = row.begun /\ row.server = query[q].server /\ row.place = query[q].place
  BY <1>1, <1>2 DEF QueryRow, InHand
<1>4. row.begun <= moment /\ row.server \in Servers /\ row.place \in Places
      /\ moment <= row.begun + MaxWork
  BY <1>1, <1>3 DEF CInv, QueryOK, InHand
<1>5. /\ query' = [query EXCEPT ![q] = row] /\ UNCHANGED <<moment, redis>>
      /\ memory' \in [Servers -> Seq(CachedRow)]
  BY <1>2 DEF Compute, CInv, CacheTypeOK
<1> QED
  BY <1>3, <1>4, <1>5, QueryMoves DEF InHand

\* The memory stores what an answer is as of; Redis keeps it a TTL from when it is stored,
\* which is at most a query's time after that.
LEMMA AnswerKept ==
  ASSUME CInv, NEW q \in 1 .. Queries, Answer(q)
  PROVE  CInv'
<1>1. PICK s \in Servers, p \in Places, old \in Nat :
        /\ s = query[q].server /\ p = query[q].place /\ old = query[q].asOf
        /\ moment <= old + MaxWork
  BY DEF Answer, CInv, QueryOK, InHand
<1>2. /\ query' = [query EXCEPT ![q] = [NotBegun EXCEPT !.state = "answered"]]
      /\ UNCHANGED moment
      /\ memory' = memory \/ memory' = [memory EXCEPT ![s] = Remembered(s, q)]
      /\ \/ redis' = redis
         \/ redis' = [redis EXCEPT ![p] = [asOf |-> old, until |-> moment + Ttl]]
  BY <1>1 DEF Answer
<1>3. memory' \in [Servers -> Seq(CachedRow)]
  <2>1. Remembered(s, q) \in Seq(CachedRow)
    BY <1>1, RememberedType
  <2>2. memory \in [Servers -> Seq(CachedRow)]
    BY DEF CInv, CacheTypeOK
  <2> QED
    BY <1>2, <2>1, <2>2
<1>4. redis' \in [Places -> [asOf : Int, until : Int]] /\ \A r \in Places : RedisOK(r)'
  <2>1. redis \in [Places -> [asOf : Int, until : Int]] /\ moment \in Nat
    BY DEF CInv, CacheTypeOK
  <2>2. moment + Ttl \in Nat /\ moment + Ttl <= old + MaxWork + Ttl
    BY <1>1, <2>1, CacheAssumption
  <2>3. redis' \in [Places -> [asOf : Int, until : Int]]
    BY <1>2, <2>1, <2>2
  <2>4. \A r \in Places : \/ redis'[r] = redis[r]
                         \/ redis'[r] = [asOf |-> old, until |-> moment + Ttl]
    BY <1>2, <2>1
  <2> QED
    BY <2>2, <2>3, <2>4 DEF CInv, RedisOK, NoEntry
<1>5. \A r \in 1 .. Queries : \/ query'[r] = query[r]
                              \/ query'[r] = [NotBegun EXCEPT !.state = "answered"]
  BY <1>2 DEF CInv, CacheTypeOK
<1>6. \A r \in 1 .. Queries : QueryOK(r)'
  BY <1>2, <1>5 DEF CInv, CacheTypeOK, QueryOK, NotBegun, InHand
<1>7. HitsAreYoung'
  BY <1>5 DEF CInv, HitsAreYoung, NotBegun
<1>8. CacheTypeOK'
  BY <1>2, <1>3, <1>4 DEF CInv, CacheTypeOK, NotBegun, QueryRow, InHand
<1> QED
  BY <1>4, <1>6, <1>7, <1>8 DEF CInv

\* Losing Redis or one of its entries leaves only fewer answers behind.
LEMMA EnvironmentKept ==
  ASSUME CInv, RedisGoes \/ RedisForgets \/ UNCHANGED cacheVars
  PROVE  CInv'
<1>1. /\ UNCHANGED <<moment, memory, query>>
      /\ redis' = redis \/ redis' = [p \in Places |-> NoEntry]
  BY DEF RedisGoes, RedisForgets, cacheVars
<1>2. redis' \in [Places -> [asOf : Int, until : Int]] /\ \A p \in Places : RedisOK(p)'
  BY <1>1 DEF CInv, CacheTypeOK, RedisOK, NoEntry
<1>3. \A q \in 1 .. Queries : QueryOK(q)'
  BY <1>1 DEF CInv, QueryOK
<1> QED
  BY <1>1, <1>2, <1>3 DEF CInv, CacheTypeOK, HitsAreYoung

\* A restarted server has an empty memory and no query in hand.
LEMMA ServerRestartsKept ==
  ASSUME CInv, NEW s \in Servers, ServerRestarts(s)
  PROVE  CInv'
<1>1. <<>> \in Seq(CachedRow)
  OBVIOUS
<1>2. /\ UNCHANGED <<moment, redis>> /\ memory' = [memory EXCEPT ![s] = <<>>]
      /\ query' = [q \in 1 .. Queries |->
                     IF query[q].server = s /\ query[q].state # "hit"
                     THEN [NotBegun EXCEPT !.state = "answered"] ELSE query[q]]
  BY DEF ServerRestarts
<1>3. memory' \in [Servers -> Seq(CachedRow)]
  BY <1>1, <1>2 DEF CInv, CacheTypeOK
<1>4. \A q \in 1 .. Queries : \/ query'[q] = query[q]
                              \/ query'[q] = [NotBegun EXCEPT !.state = "answered"]
  BY <1>2
<1>5. \A q \in 1 .. Queries : QueryOK(q)'
  BY <1>2, <1>4 DEF CInv, CacheTypeOK, QueryOK, NotBegun, InHand
<1>6. HitsAreYoung'
  BY <1>2, <1>4 DEF CInv, HitsAreYoung, NotBegun
<1>7. CacheTypeOK'
  BY <1>2, <1>3 DEF CInv, CacheTypeOK, NotBegun, QueryRow, InHand
<1>8. \A p \in Places : RedisOK(p)'
  BY <1>2 DEF CInv, RedisOK
<1> QED
  BY <1>5, <1>6, <1>7, <1>8 DEF CInv

\* Time passes no further than the slowest query in hand allows.
LEMMA MomentPassesKept ==
  ASSUME CInv, MomentPasses
  PROVE  CInv'
BY CacheAssumption
DEF MomentPasses, CInv, CacheTypeOK, HitsAreYoung, QueryOK, RedisOK, NoEntry, InHand

\* The invariant of the caches is inductive.
LEMMA CInvNext == CInv /\ [CacheNext]_cacheVars => CInv'
BY BeginKept, HitRedisKept, LookInMemoryKept, ComputeKept, AnswerKept, EnvironmentKept,
   ServerRestartsKept, MomentPassesKept DEF CacheNext

\* No answer out of a cache is older than the TTL and the time a query may take, for any
\* number of servers, queries and places, whatever Redis loses (public_response_cache.py).
THEOREM CachedAnswersAreYoung == CacheSpec => []HitsAreYoung
BY CacheInvInit, CInvNext, PTL DEF CacheSpec, CInv
================================================================================
