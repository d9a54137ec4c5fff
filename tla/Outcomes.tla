------------------------------- MODULE Outcomes -------------------------------
(***************************************************************************)
(* How a failure of the collection is classed (internal/collect/status.go) *)
(* and how the state of a unit is recorded (internal/model/collection.go). *)
(*                                                                         *)
(* A failure is what Classify can tell apart: the typed errors of Pepin,   *)
(* an error of a third-party SDK that exposes a code and a status, and the *)
(* causes of transport.  `code` is the documented error code the answer    *)
(* carries, or "none".                                                     *)
(***************************************************************************)
EXTENDS Integers

Outcome == {"permission_denied", "not_found", "rate_limited", "timeout", "truncated",
            "unreadable", "unauthenticated", "rejected", "unavailable"}

\* Outcome "" of the source: no class at all.
NoOutcome == "none"

Kinds == {"http", "truncated", "unreadable", "sdk", "timeout", "json", "transport"}

\* The codes of the bodies of Outscale and Scaleway, and those of the S3 client.
BodyCodes == {"outscale 4120", "outscale 1", "denied_authentication", "permissions_denied"}
SdkCodes == {"InvalidAccessKeyId", "AccessDenied", "SlowDown"}

Failure == [kind : Kinds, status : 0 .. 599, code : BodyCodes \cup SdkCodes \cup {"none"}]

\* What a call may end with when it is not read to its end: an answer of the API or of
\* the SDK, which carry a status and a code, or no answer that could be read.
Refusal == [kind : {"http", "sdk"}, status : 0 .. 599, code : BodyCodes \cup SdkCodes \cup {"none"}]
           \cup [kind : {"timeout", "json", "transport"}, status : {0}, code : {"none"}]

Truncation == [kind |-> "truncated", status |-> 0, code |-> "none"]
Unreadable == [kind |-> "unreadable", status |-> 0, code |-> "none"]

\* Any error Classify has no type for.
Untyped == [kind |-> "transport", status |-> 0, code |-> "none"]

\* A redirect, which the client does not follow, is below 400 and has no class.
OutcomeForStatus(status) ==
    CASE status \in {401, 403} -> "permission_denied"
      [] status \in {404, 410} -> "not_found"
      [] status = 429 -> "rate_limited"
      [] status \in {408, 504} -> "timeout"
      [] status \in 400 .. 499 \ {401, 403, 404, 410, 429, 408} -> "rejected"
      [] status \in 500 .. 599 \ {504} -> "unavailable"
      [] status < 400 -> NoOutcome

\* outcomeForAPIErrorCode and the codes of the SDK: what the provider publishes.
OutcomeForCode(code) ==
    CASE code \in {"outscale 4120", "outscale 1", "denied_authentication", "InvalidAccessKeyId"} ->
            "unauthenticated"
      [] code \in {"permissions_denied", "AccessDenied"} -> "permission_denied"
      [] code = "SlowDown" -> "rate_limited"
      [] code = "none" -> NoOutcome

\* (mutant) the status is believed before the code.
ClassifyStatusFirst(f) ==
    CASE f.kind \in {"http", "sdk"} ->
            IF OutcomeForStatus(f.status) # NoOutcome THEN OutcomeForStatus(f.status)
                                                     ELSE OutcomeForCode(f.code)
      [] f.kind \in {"truncated", "unreadable", "timeout"} -> f.kind
      [] f.kind = "json" -> "unreadable"
      [] f.kind = "transport" -> "unavailable"

Classify(f) ==
    CASE f.kind = "http" ->
            IF OutcomeForCode(f.code) # NoOutcome THEN OutcomeForCode(f.code)
                                                  ELSE OutcomeForStatus(f.status)
      [] f.kind = "sdk" ->
            IF OutcomeForCode(f.code) # NoOutcome THEN OutcomeForCode(f.code)
            ELSE IF OutcomeForStatus(f.status) # NoOutcome THEN OutcomeForStatus(f.status)
            ELSE "unavailable"
      [] f.kind \in {"truncated", "unreadable", "timeout"} -> f.kind
      [] f.kind = "json" -> "unreadable"
      [] f.kind = "transport" -> "unavailable"

----------------------------------------------------------------------------
(* The state of a unit.                                                     *)

\* A unit nobody tried has no entry: "untried" stands for its absence.
UnitState == [state : {"untried", "complete"}, error : {NoOutcome}]
             \cup [state : {"incomplete"}, error : Outcome \cup {NoOutcome}]

Untried == [state |-> "untried", error |-> NoOutcome]
Complete == [state |-> "complete", error |-> NoOutcome]
Incomplete(o) == [state |-> "incomplete", error |-> o]

\* (mutant) the last call that feeds the unit has the last word.
MergeLastWins(old, new) == new

\* (mutant) the error is recorded, the unit stays complete.
MergeErrorOnly(old, new) ==
    IF old.state = "untried" THEN new
    ELSE IF old.state = "complete" THEN [old EXCEPT !.error = new.error] ELSE old

\* Collection.Record is pessimistic: the first failure stays.
Merge(old, new) ==
    IF old.state = "untried" \/ (old.state = "complete" /\ new.state = "incomplete")
    THEN new ELSE old

=============================================================================
