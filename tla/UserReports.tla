----------------------------- MODULE UserReports -----------------------------
(***************************************************************************)
(* User reports: intake (apps/api/app/api/routes/reports.py), moderation   *)
(* and privacy redaction (domain/reports/repository.py, routes/admin.py).  *)
(*                                                                         *)
(* Moderation and redaction are one SQL statement each that locks the row, *)
(* reads the previous status, updates the row and writes the audit entry.  *)
(* It is modelled as two steps, the lock with the read and the write, so   *)
(* that what the lock is for can be seen; the calls of two moderators      *)
(* interleave, and a moderator works from a list read earlier.             *)
(***************************************************************************)
EXTENDS Integers, Sequences, FiniteSets, SequencesExt

CONSTANTS Reports, Moderators, MaxDecisions, NoReport, NoModerator

ASSUME ReportsAssumption ==
    /\ NoReport \notin Reports /\ NoModerator \notin Moderators
    /\ MaxDecisions \in Nat

VARIABLES
    site,       \* how the deployment is configured
    report,     \* report[r]: the row
    audit,      \* audit[r]: the audit log's entries about r
    rowLock,    \* rowLock[r]: who holds the row
    call        \* call[m]: the statement m's request is executing

reportVars == <<site, report, audit, rowLock, call>>

Decisions == {"approved", "rejected", "spam"}
ReportStatuses == Decisions \union {"pending", "deleted"}
Reasons == {"verified_flood_signal", "duplicate", "not_flood_related",
            "insufficient_detail", "abuse_or_spam", "out_of_scope"}

\* MODERATION_REASONS_BY_STATUS
ReasonsFor(decision) ==
    CASE decision = "approved" -> {"verified_flood_signal"}
      [] decision = "spam" -> {"abuse_or_spam"}
      [] OTHER -> {"duplicate", "not_flood_related", "insufficient_detail",
                   "out_of_scope"}

Sites == [enabled : BOOLEAN, challengeRequired : BOOLEAN, hosted : BOOLEAN,
          bypass : BOOLEAN, turnstile : BOOLEAN]

NotStored == [status |-> "none", text |-> "none", reviewed |-> FALSE,
              redacted |-> FALSE]
NoCall == [op |-> "none", report |-> NoReport, seen |-> NotStored,
           decision |-> "none"]

ReportsInit ==
    /\ site \in Sites
    /\ report = [r \in Reports |-> NotStored]
    /\ audit = [r \in Reports |-> <<>>]
    /\ rowLock = [r \in Reports |-> NoModerator]
    /\ call = [m \in Moderators |-> NoCall]

(***************************************************************************)
(* Intake                                                                  *)
(***************************************************************************)

\* _user_report_challenge_gate; `bypass` stands for a site that may and does
\* use the non-production bypass.
ChallengeGate ==
    CASE site.challengeRequired -> "required"
      [] ~site.challengeRequired /\ (~site.hosted \/ site.bypass) -> "optional"
      [] ~site.challengeRequired /\ site.hosted /\ ~site.bypass
            /\ site.turnstile -> "required"
      [] OTHER -> "unavailable"

Entry(action, previous, status) ==
    [action |-> action, previous |-> previous, status |-> status]

\* A submission that passes the gate, whose token (if one is asked for) the
\* provider accepts and that is within the rate limit (RateLimit.tla).  The
\* report and its audit entry are one statement.
Submit(r, token) ==
    /\ site.enabled
    /\ \/ ChallengeGate = "optional"
       \/ ChallengeGate = "required" /\ token = "accepted"
    /\ report[r].status = "none"
    /\ report' = [report EXCEPT ![r] = [NotStored EXCEPT !.status = "pending",
                                                         !.text = "submitted"]]
    /\ audit' = [audit EXCEPT ![r] = <<Entry("submitted", "none", "pending")>>]
    /\ UNCHANGED <<site, rowLock, call>>

(***************************************************************************)
(* Moderation and redaction                                                *)
(***************************************************************************)
DecisionsOn(r) == Len(SelectSeq(audit[r], LAMBDA e : e.action # "submitted"))

\* Mutant: the row is not locked.
LockFree(r) == TRUE

\* SELECT ... FOR UPDATE waits for the row.
CanLock(r) == rowLock[r] = NoModerator

StartCall(m, r, op, decision) ==
    /\ call[m] = NoCall
    /\ report[r].status # "none"
    /\ CanLock(r)
    /\ rowLock' = [rowLock EXCEPT ![r] = m]
    /\ call' = [call EXCEPT ![m] = [op |-> op, report |-> r,
                                    seen |-> report[r], decision |-> decision]]
    /\ UNCHANGED <<site, report, audit>>

\* The decision and its reason come from the request; one that does not go with
\* the other is refused before the database is asked.  The status the row has
\* is no condition, so a second moderator overrides the first.
StartModeration(m, r, decision, reason) ==
    /\ reason \in ReasonsFor(decision)
    /\ StartCall(m, r, "moderate", decision)

StartRedaction(m, r) == StartCall(m, r, "redact", "deleted")

Done(m) ==
    /\ rowLock' = [rowLock EXCEPT ![call[m].report] = NoModerator]
    /\ call' = [call EXCEPT ![m] = NoCall]
    /\ UNCHANGED site

ModeratedRow(m) ==
    [report[call[m].report] EXCEPT !.status = call[m].decision,
                                   !.reviewed = TRUE]

RedactedRow(m) ==
    [report[call[m].report] EXCEPT !.status = "deleted", !.text = "redacted",
                                   !.reviewed = TRUE, !.redacted = TRUE]

Write(m, row, action) ==
    LET r == call[m].report
    IN  /\ report' = [report EXCEPT ![r] = row]
        /\ audit' = [audit EXCEPT ![r] =
                        Append(@, Entry(action, call[m].seen.status, row.status))]
        /\ Done(m)

FinishModeration(m) ==
    /\ call[m].op = "moderate"
    /\ Write(m, ModeratedRow(m), "moderated")

FinishRedaction(m) ==
    /\ call[m].op = "redact"
    /\ Write(m, RedactedRow(m), "redacted")

\* The connection or the statement fails: the transaction rolls back.
CallFails(m) ==
    /\ call[m].op # "none"
    /\ Done(m)
    /\ UNCHANGED <<report, audit>>

ReportsNext ==
    \/ \E r \in Reports, token \in {"absent", "accepted", "refused"} :
          Submit(r, token)
    \/ \E m \in Moderators, r \in Reports :
          /\ DecisionsOn(r) < MaxDecisions
          /\ \/ StartRedaction(m, r)
             \/ \E decision \in Decisions, reason \in Reasons :
                   StartModeration(m, r, decision, reason)
    \/ \E m \in Moderators :
          FinishModeration(m) \/ FinishRedaction(m) \/ CallFails(m)

ReportsSpec == ReportsInit /\ [][ReportsNext]_reportVars

(***************************************************************************)
(* Properties                                                              *)
(***************************************************************************)

Rows == [status : ReportStatuses \union {"none"},
         text : {"none", "submitted", "redacted"},
         reviewed : BOOLEAN, redacted : BOOLEAN]
Entries == [action : {"submitted", "moderated", "redacted"},
            previous : ReportStatuses \union {"none"}, status : ReportStatuses]
Calls == [op : {"none", "moderate", "redact"}, report : Reports \union {NoReport},
          seen : Rows, decision : Decisions \union {"none", "deleted"}]

\* The shape of the state.
ReportsTypeOK ==
    /\ site \in Sites
    /\ report \in [Reports -> Rows]
    /\ audit \in [Reports -> Seq(Entries)]
    /\ rowLock \in [Reports -> Moderators \union {NoModerator}]
    /\ call \in [Moderators -> Calls]

\* The audit log explains every row: it starts with the submission, each entry
\* starts from the status the one before it left, and the last one is the
\* status the row has, whatever calls of two moderators overlapped or failed.
AuditExplainsRow ==
    \A r \in Reports :
        /\ (report[r].status = "none") <=> (audit[r] = <<>>)
        /\ \A i \in 1 .. Len(audit[r]) :
              audit[r][i].previous = IF i = 1 THEN "none"
                                     ELSE audit[r][i - 1].status
        /\ audit[r] # <<>> => Last(audit[r]).status = report[r].status

\* What a redaction took away no later call brings back: once the log has a
\* redaction the row's text is the marker and it stays dated as redacted.
RedactedTextStaysGone ==
    \A r \in Reports :
        (\E i \in 1 .. Len(audit[r]) : audit[r][i].action = "redacted")
            => report[r].text = "redacted" /\ report[r].redacted
==============================================================================
