--------------------------- MODULE Classification ---------------------------
(***************************************************************************)
(* What pkg/opendrive makes of an answer from upstream: classify.go and    *)
(* the predicates of errors.go that the request loop and the               *)
(* authenticators act on.  A message is the group of phrases it belongs    *)
(* to; the order of the rules is the code's.                               *)
(***************************************************************************)
EXTENDS Integers

Shapes   == {"unset", "empty", "json", "html", "text"}
Statuses == {0, 400, 401, 403, 404, 405, 409, 413, 429, 500}

\* The groups of phrases and of OAuth error ids.
Sayings == {"nothing", "captcha", "invalid_token", "invalid_grant", "invalid_client",
            "denied", "credentials", "bandwidth", "quota", "name", "permission", "expired"}

Evidence == [status : Statuses, shape : Shapes \ {"unset"}, says : Sayings]

Verdict(kind, ambiguous, retry) ==
    [kind |-> kind, ambiguous |-> ambiguous, retry |-> retry]

Kinds == {"none", "network", "token_expired", "upstream_error", "edge_rejected", "captcha_required",
          "refresh_token_failed", "reauth_required", "keystore_unavailable", "bandwidth_exceeded",
          "quota_exceeded", "invalid_name", "invalid_request", "not_found", "conflict",
          "rate_limited"}

EdgeRetry(status) == IF status = 0 \/ status >= 500 \/ status = 429 THEN "yes" ELSE "no"

\* What a message settles, whatever the status.
Told == [captcha       |-> Verdict("captcha_required", FALSE, "no"),
         invalid_token |-> Verdict("token_expired", FALSE, "default"),
         invalid_grant |-> Verdict("refresh_token_failed", FALSE, "default"),
         invalid_client |-> Verdict("reauth_required", FALSE, "no"),
         denied        |-> Verdict("upstream_error", FALSE, "no"),
         credentials   |-> Verdict("reauth_required", FALSE, "no"),
         bandwidth     |-> Verdict("bandwidth_exceeded", FALSE, "no"),
         quota         |-> Verdict("quota_exceeded", FALSE, "no"),
         name          |-> Verdict("invalid_name", FALSE, "no"),
         expired       |-> Verdict("token_expired", FALSE, "default")]

ByStatus(ev) ==
    CASE ev.status = 401 -> IF ev.shape = "json" THEN Verdict("token_expired", FALSE, "default")
                            ELSE Verdict("upstream_error", TRUE, "no")
      [] ev.status = 403 -> Verdict("upstream_error", ev.says = "permission", "no")
      [] ev.status = 400 -> Verdict("invalid_request", FALSE, "no")
      [] ev.status = 404 -> Verdict("not_found", FALSE, "no")
      [] ev.status = 409 -> Verdict("conflict", FALSE, "no")
      [] ev.status = 429 -> Verdict("rate_limited", FALSE, "yes")
      [] ev.status = 413 -> Verdict("quota_exceeded", FALSE, "no")
      [] ev.status = 0 \/ ev.status >= 500 -> Verdict("upstream_error", FALSE, "yes")
      [] OTHER -> Verdict("upstream_error", ev.shape = "empty", "no")

\* A page or a text is a proxy's, and says nothing of the account.
classify(ev) ==
    IF ev.shape \in {"html", "text"} THEN Verdict("edge_rejected", FALSE, EdgeRetry(ev.status))
    ELSE IF ev.says \in DOMAIN Told THEN Told[ev.says]
    ELSE ByStatus(ev)

-----------------------------------------------------------------------------
(* APIError: the part of it that decides anything.                          *)

APIError(kind, status, shape, ambiguous, retry) ==
    [kind |-> kind, code |-> status, shape |-> shape, ambiguous |-> ambiguous,
     resolved |-> FALSE, retry |-> retry, budget |-> 0]

NoError == APIError("none", 0, "unset", FALSE, "default")

\* Errors the SDK makes itself, of no answer or of its own refusal to ask.
Local(kind) == APIError(kind, 0, "unset", FALSE, "default")

Classified(ev) ==
    LET v == classify(ev) IN APIError(v.kind, ev.status, ev.shape, v.ambiguous, v.retry)

Settled(e)    == e.ambiguous => e.resolved
apiShaped(e)  == e.shape \in {"unset", "json"}

\* Only these may move the authentication state machine.
drivesAuth(e) == Settled(e) /\ apiShaped(e)

Temporary(e) ==
    \/ e.retry = "yes"
    \/ /\ e.retry = "default"
       /\ \/ e.kind \in {"rate_limited", "network"}
          \/ e.kind \in {"upstream_error", "edge_rejected"} /\ (e.code = 0 \/ e.code >= 500)

\* "Upstream declined to act, so nothing happened."
replaySafe(e) == e.code \in {403, 429}
=============================================================================
