--------------------------- MODULE UpstreamErrors ---------------------------
(***************************************************************************)
(* How an answer of the Timeweb API becomes a Go error                     *)
(* (internal/clients/timeweb/errors.go).  An answer is abstracted to what  *)
(* Classify looks at: the HTTP status, and the error_code of the JSON      *)
(* envelope ("" when the body is an HTML page, empty, or not an envelope). *)
(* Status 0 stands for a transport error, where no answer arrived.         *)
(***************************************************************************)
EXTENDS Integers

Verdicts == {"ok", "ErrNotFound", "TransientError", "APIError"}

\* isTransientStatus: request timeout, conflict, too early, rate limited, 5xx.
isTransientStatus(code) == code \in {408, 409, 425, 429} \cup (500 .. 599)

\* ClassifyNetworkError: no HTTP answer at all is always worth a retry.
ClassifyNetworkError == "TransientError"

\* The mistake of postmortem 124: the status alone decides.
ClassifyByStatusAlone(resp) ==
  IF resp.status = 404 THEN "ErrNotFound"
  ELSE IF resp.status \in 200 .. 299 THEN "ok" ELSE "TransientError"

\* Classify: a resource is gone only on a 404 that carries the envelope.
Classify(resp) ==
  IF resp.status = 0 THEN ClassifyNetworkError
  ELSE IF resp.status \in 200 .. 299 THEN "ok"
  ELSE IF resp.status = 404 /\ resp.code # "" THEN "ErrNotFound"
  ELSE IF \/ resp.status = 404
          \/ isTransientStatus(resp.status)
          \/ resp.status = 403 /\ resp.code = "networks_location_mismatch"
       THEN "TransientError"
  ELSE "APIError"

Answer(status, code) == [status |-> status, code |-> code]

\* What the edge in front of the API may answer to any request.
Flaps == {Answer(0, ""), Answer(404, ""), Answer(429, ""), Answer(502, ""),
          Answer(401, "unauthorized")}

\* What a GET or DELETE of one resource may be answered.
AnswersTo(exists) ==
  Flaps \cup {IF exists THEN Answer(200, "") ELSE Answer(404, "not_found")}
=============================================================================
