--------------------------- MODULE RequestsProofs ---------------------------
(***************************************************************************)
(* Proofs about Requests for every value of its constants: any number of   *)
(* callers, either authenticator, every fault, any bounds.                 *)
(*                                                                         *)
(* The inductive invariant, Sound, is about the authenticator's mutex: who *)
(* may be where while it is held across requests, what the gate, the store *)
(* and memory hold meanwhile, and that a token which a caller gives up was *)
(* refused.  A renewal that another caller has made is then always seen.   *)
(***************************************************************************)
EXTENDS Requests, TLAPS

USE AssumeCallers, AssumeChoices, AssumeBounds
USE DEF authVars, probeVars, pastVars, Idle, Cur, InProbe

-----------------------------------------------------------------------------
(* The inductive invariant.                                                 *)

\* A call that is somewhere only the mutex's holder can be.
Holding(c) == c.pc \in {"refresh", "password", "graded", "keep"} \/ (c.pc = "save" /\ c.way = "renew")

\* What a call has where it is: a session is only minted for a chunk; a token that is
\* called stale was refused; nothing that is looked into or graded is an expiry.
CallOK(c, m, gone) ==
    /\ c.pc \in {"session", "mint"} => c.class = "chunk" /\ m = "oauth2"
    /\ c.pc = "mint" => c.way = "mint"
    /\ c.pc \in {"save", "keep"} => c.got # 0 /\ (c.way = "mint" => c.class = "chunk" /\ m = "oauth2")
    /\ c.pc = "call" /\ c.class # "chunk" => c.used # 0
    /\ c.pc = "stale" /\ c.class # "chunk" => c.used # 0 /\ c.used \in gone
    /\ c.pc \in {"check", "graded"} => c.err.kind # "token_expired"
    /\ c.pc = "refresh" => m = "oauth2"
    /\ c.pc \in {"refresh", "password", "graded"} => c.way = "renew"
    /\ c.pc = "fresh" => c.class = "fresh"
    /\ c.pc = "erase" => m = "session"

\* A login that has a ticket of its own.
Signing(t) == At(t, "keep") /\ Cur(t).way \in {"login", "guest"}

\* The mutex is held by who is inside a renewal, a save, the look into a refused
\* grant, or the probe such a look has begun; and by nobody else.  Who renews a
\* session has given up the one there was.
StackOK(t) ==
    /\ CallOK(Cur(t), mode, refused)
    /\ Holding(Cur(t)) => lock = t
    /\ lock = t => \/ Holding(Cur(t))
                   \/ ~InProbe(t) /\ Cur(t).pc = "check" /\ Cur(t).way = "renew"
                   \/ InProbe(t) /\ Cur(t).pc = "creds"
    /\ lock = t /\ mode = "session" /\ ~Signing(t) => loaded /\ cred.ticket = 0
    /\ InProbe(t) => /\ Cur(t).class = "probe" /\ th[t][2].class # "probe" /\ th[t][2].pc = "check"
                     /\ CallOK(th[t][2], mode, refused)
    /\ ~InProbe(t) => Cur(t).class # "probe"

\* What must not be repeated has been done only if it is over.
Own(t) == th[t][Len(th[t])]
OnceOK(t) ==
    Own(t).class \in {"write", "stream"} => hits[t] <= IF Own(t).pc = "ended" THEN 1 ELSE 0

ThreadOK(t) == IF th[t] = Idle THEN lock # t ELSE StackOK(t) /\ OnceOK(t)

\* RotatedOnce, of one caller.
RotationOK(t) ==
    At(t, "refresh") /\ Cur(t).class \notin {"chunk", "fresh"} =>
        cred.age # "new" \/ cred.ticket \in refused

ThreadsOK == \A t \in Callers : ThreadOK(t) /\ RotationOK(t)

\* No pause and no end of the gate was brought about by an expiry.
GateOK == gate.err.kind # "token_expired"

\* The store has what memory has, or will have when the save that goes on is over.
StoreOK ==
    /\ ~store.dated
    /\ mode = "oauth2" /\ ~unsaved =>
          /\ \A t \in Callers : At(t, "keep") => store = Stored(Adopted(t))
          /\ loaded /\ (\A t \in Callers : ~At(t, "keep")) => store = Stored(cred)

\* A refused password: its grant is about to be graded as what shuts the gate, or
\* a login is about to replace it, or the gate is shut, or nothing is known.
Condemned(t) == At(t, "graded") /\ drivesAuth(Cur(t).err)
                   /\ Cur(t).err.kind \in {"reauth_required", "captcha_required"}
ShutOK ==
    mode = "session" /\ wrong =>
        /\ loaded /\ cred.ticket = 0
        /\ lock = NoCaller => cred.pw = "none" \/ gate.state \in Stopping
        /\ \A t \in Callers : lock = t => Condemned(t) \/ Signing(t)

Sound == TypeOK /\ GateOK /\ StoreOK /\ ShutOK /\ ThreadsOK

-----------------------------------------------------------------------------
(* Errors.                                                                  *)

\* An error the SDK makes itself.
LEMMA LocalTyped ==
    ASSUME NEW kind \in Kinds
    PROVE  /\ Local(kind) \in Errors /\ Local(kind).kind = kind /\ Local(kind).code = 0
           /\ ~Local(kind).ambiguous /\ drivesAuth(Local(kind))
BY DEF Local, APIError, Errors, Statuses, Shapes, drivesAuth, Settled, apiShaped

\* The error that is none is no expiry.
LEMMA NoErrorTyped == NoError \in Errors /\ NoError.kind = "none" /\ NoError.kind \in Kinds
BY DEF NoError, APIError, Errors, Statuses, Shapes, Kinds

\* The error an answer becomes has the verdict's kind and the answer's shape.
LEMMA ClassifiedAs ==
    ASSUME NEW ev \in Evidence, NEW k \in Kinds, NEW b \in BOOLEAN, NEW y \in {"yes", "no", "default"},
           classify(ev) = Verdict(k, b, y)
    PROVE  /\ Classified(ev) \in Errors /\ Classified(ev).kind = k
           /\ Classified(ev).shape = ev.shape
BY DEF Classified, APIError, Errors, Verdict, Evidence, Shapes

\* It is as doubtful as the verdict; apart, because that is a Boolean.
LEMMA ClassifiedDoubt ==
    ASSUME NEW ev \in Evidence, NEW k \in Kinds, NEW b \in BOOLEAN, NEW y \in {"yes", "no", "default"},
           classify(ev) = Verdict(k, b, y)
    PROVE  Classified(ev).ambiguous = b
BY DEF Classified, APIError, Verdict

\* An answer that says what upstream's answers say, and of the status says it.
LEMMA ToldKind ==
    ASSUME NEW ev \in Evidence, ev.shape = "json",
           NEW k \in Kinds, NEW y \in {"no", "default"},
           ev.says \in DOMAIN Told, Told[ev.says] = Verdict(k, FALSE, y)
    PROVE  /\ Classified(ev) \in Errors /\ Classified(ev).kind = k
           /\ Classified(ev).ambiguous = FALSE /\ drivesAuth(Classified(ev))
<1>1. classify(ev) = Verdict(k, FALSE, y)
  BY DEF classify
<1>2. Classified(ev) \in Errors /\ Classified(ev).kind = k /\ Classified(ev).shape = "json"
  BY <1>1, ClassifiedAs
<1>3. Classified(ev).ambiguous = FALSE
  BY <1>1, ClassifiedDoubt
<1> QED BY <1>2, <1>3 DEF drivesAuth, Settled, apiShaped

\* What the rules for a status make of those that say nothing.
LEMMA StatusKind ==
    ASSUME NEW ev \in Evidence, ev.shape \in {"json", "empty"}, ev.says \notin DOMAIN Told,
           \/ ev.status = 403
           \/ ev.status = 429
           \/ ev.status = 401 /\ ev.shape = "empty"
    PROVE  /\ Classified(ev) \in Errors
           /\ Classified(ev).kind \in {"upstream_error", "rate_limited"}
<1>1. classify(ev) = ByStatus(ev)
  BY DEF classify
<1>2. {"upstream_error", "rate_limited"} \subseteq Kinds
  BY DEF Kinds
<1>3. CASE ev.status = 403
  <2>1. ByStatus(ev) = Verdict("upstream_error", ev.says = "permission", "no")
    BY <1>3 DEF ByStatus
  <2>2. PICK b \in BOOLEAN : ByStatus(ev) = Verdict("upstream_error", b, "no")
    BY <2>1
  <2> QED BY <1>1, <1>2, <2>2, ClassifiedAs
<1>4. CASE ev.status = 429
  <2>1. ByStatus(ev) = Verdict("rate_limited", FALSE, "yes")
    BY <1>4 DEF ByStatus
  <2>2. PICK b \in BOOLEAN : classify(ev) = Verdict("rate_limited", b, "yes")
    BY <1>1, <2>1
  <2> QED BY <1>2, <2>2, ClassifiedAs
<1>5. CASE ev.status = 401 /\ ev.shape = "empty"
  <2>1. ByStatus(ev) = Verdict("upstream_error", TRUE, "no")
    BY <1>5 DEF ByStatus
  <2>2. PICK b \in BOOLEAN : classify(ev) = Verdict("upstream_error", b, "no")
    BY <1>1, <2>1
  <2> QED BY <1>2, <2>2, ClassifiedAs
<1> QED BY <1>3, <1>4, <1>5

\* A proxy's page.
LEMMA PageKind ==
    ASSUME NEW ev \in Evidence, ev.shape = "html", ev.status = 401
    PROVE  Classified(ev) \in Errors /\ Classified(ev).kind = "edge_rejected"
<1>1. classify(ev) = Verdict("edge_rejected", FALSE, "no")
  BY DEF classify, EdgeRetry
<1>2. PICK b \in BOOLEAN : classify(ev) = Verdict("edge_rejected", b, "no")
  BY <1>1
<1>3. "edge_rejected" \in Kinds
  BY DEF Kinds
<1> QED BY <1>2, <1>3, ClassifiedAs

\* The answers upstream gives, as the lemmas above see them.
LEMMA AnswersAreEvidence ==
    ASSUME NEW n \in {400, 401, 403, 429}, NEW s \in Sayings
    PROVE  /\ Json(n, s) \in Evidence /\ Json(n, s).shape = "json"
           /\ Json(n, s).status = n /\ Json(n, s).says = s
           /\ Page(n) \in Evidence /\ Page(n).shape = "html" /\ Page(n).status = n
           /\ Empty(n) \in Evidence /\ Empty(n).shape = "empty" /\ Empty(n).says = "nothing"
           /\ Empty(n).status = n
BY DEF Json, Page, Empty, Evidence, Statuses, Shapes, Sayings

\* What upstream may say, and what of it settles something.
LEMMA WhatIsTold ==
    /\ {"nothing", "permission"} \cap DOMAIN Told = {}
    /\ {"expired", "invalid_grant", "credentials", "captcha"} \subseteq DOMAIN Told
    /\ {"nothing", "permission", "expired", "invalid_grant", "credentials", "captcha"} \subseteq Sayings
    /\ Told["expired"] = Verdict("token_expired", FALSE, "default")
    /\ Told["invalid_grant"] = Verdict("refresh_token_failed", FALSE, "default")
    /\ Told["credentials"] = Verdict("reauth_required", FALSE, "no")
    /\ Told["captcha"] = Verdict("captcha_required", FALSE, "no")
    /\ {"token_expired", "refresh_token_failed", "reauth_required", "captcha_required"} \subseteq Kinds
BY DEF Told, Sayings, Kinds

\* What classify makes of the answers upstream gives to calls.
LEMMA AnswersTyped ==
    /\ Classified(Json(401, "expired")) \in Errors
    /\ Classified(Json(401, "expired")).kind = "token_expired"
    /\ Classified(Json(401, "expired")).ambiguous = FALSE
    /\ Classified(Page(401)) \in Errors
    /\ Classified(Page(401)).kind = "edge_rejected"
    /\ \A ev \in {Json(403, "permission"), Json(429, "nothing"), Page(401)} :
          Classified(ev) \in Errors /\ Classified(ev).kind # "token_expired"
<1>1. PICK ev : ev = Json(401, "expired")
  OBVIOUS
<1>2. ev \in Evidence /\ ev.shape = "json" /\ ev.says = "expired"
  BY <1>1, AnswersAreEvidence, WhatIsTold
<1>3. Classified(ev) \in Errors /\ Classified(ev).kind = "token_expired" /\ Classified(ev).ambiguous = FALSE
  BY <1>2, ToldKind, WhatIsTold
<1>4. Classified(Page(401)) \in Errors /\ Classified(Page(401)).kind = "edge_rejected"
  BY AnswersAreEvidence, WhatIsTold, PageKind
<1>5. ASSUME NEW e \in {Json(403, "permission"), Json(429, "nothing")}
      PROVE  Classified(e) \in Errors /\ Classified(e).kind # "token_expired"
  <2>1. e \in Evidence /\ e.shape = "json" /\ e.says \notin DOMAIN Told /\ e.status \in {403, 429}
    BY <1>5, AnswersAreEvidence, WhatIsTold
  <2> QED BY <2>1, StatusKind
<1> QED BY <1>1, <1>3, <1>4, <1>5

\* And to grants: a refused password always shuts the gate.
LEMMA GrantAnswersTyped ==
    /\ Classified(Json(400, "invalid_grant")) \in Errors
    /\ Classified(Json(400, "invalid_grant")).kind = "refresh_token_failed"
    /\ Classified(Empty(401)) \in Errors
    /\ Classified(Empty(401)).kind \in {"upstream_error", "rate_limited"}
    /\ \A s \in {"credentials", "captcha"} :
          LET e == Classified(Json(401, s)) IN
          /\ e \in Errors /\ e.ambiguous = FALSE /\ drivesAuth(e)
          /\ e.kind \in {"reauth_required", "captcha_required"}
<1>1. PICK ev : ev = Json(400, "invalid_grant")
  OBVIOUS
<1>2. ev \in Evidence /\ ev.shape = "json" /\ ev.says = "invalid_grant"
  BY <1>1, AnswersAreEvidence, WhatIsTold
<1>3. Classified(ev) \in Errors /\ Classified(ev).kind = "refresh_token_failed"
  BY <1>2, ToldKind, WhatIsTold
<1>4. Classified(Empty(401)) \in Errors
      /\ Classified(Empty(401)).kind \in {"upstream_error", "rate_limited"}
  BY AnswersAreEvidence, WhatIsTold, StatusKind
<1>5. ASSUME NEW s \in {"credentials", "captcha"}
      PROVE  LET e == Classified(Json(401, s)) IN
             /\ e \in Errors /\ e.ambiguous = FALSE /\ drivesAuth(e)
             /\ e.kind \in {"reauth_required", "captcha_required"}
  <2>1. PICK e : e = Json(401, s)
    OBVIOUS
  <2>2. e \in Evidence /\ e.shape = "json" /\ e.says = s
    BY <2>1, AnswersAreEvidence, WhatIsTold
  <2>3. PICK k \in {"reauth_required", "captcha_required"} : Told[e.says] = Verdict(k, FALSE, "no")
    BY <2>2, WhatIsTold
  <2>4. Classified(e) \in Errors /\ Classified(e).kind = k
        /\ Classified(e).ambiguous = FALSE /\ drivesAuth(Classified(e))
    BY <2>2, <2>3, ToldKind, WhatIsTold
  <2> QED BY <2>1, <2>4
<1>6. Classified(Json(400, "invalid_grant")) \in Errors
      /\ Classified(Json(400, "invalid_grant")).kind = "refresh_token_failed"
  BY <1>1, <1>3
<1>7. \A s \in {"credentials", "captcha"} :
          LET e == Classified(Json(401, s)) IN
          /\ e \in Errors /\ e.ambiguous = FALSE /\ drivesAuth(e)
          /\ e.kind \in {"reauth_required", "captcha_required"}
  BY <1>5
<1> QED BY <1>4, <1>6, <1>7

-----------------------------------------------------------------------------
(* Stacks.                                                                  *)

\* A sequence that is not the empty one has a first member.
LEMMA NotEmpty ==
    ASSUME NEW S, NEW s \in Seq(S), s # << >>
    PROVE  Len(s) \in Nat \ {0} /\ Head(s) = s[1] /\ s[1] \in S
OBVIOUS

\* A caller that is doing something has a call on top, and at most one under it.
LEMMA TopTyped ==
    ASSUME TypeOK, NEW t \in Callers, th[t] # Idle
    PROVE  /\ Cur(t) \in Calls /\ Cur(t) = th[t][1] /\ Len(th[t]) \in {1, 2}
           /\ InProbe(t) <=> Len(th[t]) = 2
           /\ InProbe(t) => th[t][2] \in Calls /\ Own(t) = th[t][2]
           /\ ~InProbe(t) => Own(t) = Cur(t)
<1>1. th[t] \in Seq(Calls) /\ Len(th[t]) <= 2
  BY DEF TypeOK
<1>2. Len(th[t]) \in {1, 2}
  <2>1. PICK n \in Nat \ {0} : n = Len(th[t])
    BY <1>1, NotEmpty
  <2>2. n <= 2
    BY <1>1, <2>1
  <2>3. n = 1 \/ n = 2
    BY <2>2
  <2> QED BY <2>1, <2>3
<1>3. th[t][1] \in Calls /\ Head(th[t]) = th[t][1]
  BY <1>1, NotEmpty
<1>4. Len(th[t]) = 2 => th[t][2] \in Calls
  BY <1>1
<1>5. InProbe(t) <=> Len(th[t]) = 2
  <2>1. CASE Len(th[t]) = 1
    BY <2>1
  <2>2. CASE Len(th[t]) = 2
    BY <2>2
  <2> QED BY <1>2, <2>1, <2>2
<1>6. InProbe(t) => Own(t) = th[t][2]
  BY <1>5 DEF Own
<1>7. ~InProbe(t) => Own(t) = th[t][1]
  BY <1>2, <1>5 DEF Own
<1> QED BY <1>2, <1>3, <1>4, <1>5, <1>6, <1>7

\* What a step that only changes the top of a stack comes to.
Moved(t, c) ==
    /\ th' \in [Callers -> Seq(Calls)] /\ \A u \in Callers : Len(th'[u]) <= 2
    /\ \A u \in Callers : u # t => th'[u] = th[u]
    /\ th'[t] # Idle /\ Len(th'[t]) = Len(th[t])
    /\ Head(th'[t]) = c /\ th'[t][1] = c
    /\ InProbe(t) => th'[t][2] = th[t][2]

\* Becomes is such a step.
LEMMA Becoming ==
    ASSUME TypeOK, NEW t \in Callers, th[t] # Idle, NEW c \in Calls, Becomes(t, c)
    PROVE  Moved(t, c)
<1> DEFINE s == <<c>> \o Tail(th[t])
<1>1. th[t] \in Seq(Calls) /\ Len(th[t]) \in {1, 2} /\ Len(th[t]) \in Nat
  BY TopTyped DEF TypeOK
<1>2. Tail(th[t]) \in Seq(Calls) /\ Len(Tail(th[t])) = Len(th[t]) - 1
  BY <1>1
<1>3. s \in Seq(Calls) /\ Len(s) = Len(th[t]) /\ s[1] = c /\ s # Idle
  BY <1>1, <1>2
<1>4. Len(th[t]) = 2 => s[2] = th[t][2]
  <2>1. Len(th[t]) = 2 => Tail(th[t])[1] = th[t][2]
    BY <1>1
  <2> QED BY <1>1, <1>2, <2>1
<1>5. Head(s) = c
  BY <1>3
<1>6. th' = [th EXCEPT ![t] = s]
  BY DEF Becomes
<1>7. th' \in [Callers -> Seq(Calls)] /\ th'[t] = s /\ \A u \in Callers : u # t => th'[u] = th[u]
  BY <1>3, <1>6 DEF TypeOK
<1>8. \A u \in Callers : Len(th'[u]) <= 2
  BY <1>1, <1>3, <1>7 DEF TypeOK
<1> HIDE DEF s
<1> QED BY <1>1, <1>3, <1>4, <1>5, <1>7, <1>8 DEF Moved

\* Where a call is that is over, begins again, or is looked into.
Fate(t, c) ==
    /\ c \in Calls /\ c.class = Cur(t).class /\ c.pc \in {"ended", "creds", "check"}
    /\ c.pc = "check" => ~InProbe(t) /\ c.err.kind # "token_expired"

\* A call that has ended.
LEMMA OverTyped ==
    ASSUME NEW c \in Calls, NEW e \in Errors
    PROVE  Over(c, e) \in Calls /\ Over(c, e).class = c.class /\ Over(c, e).pc = "ended"
<1>1. Local(e.kind) \in Errors
  BY LocalTyped DEF Errors
<1>2. Call(c.class, "ended") \in Calls /\ Call(c.class, "ended").class = c.class
      /\ Call(c.class, "ended").pc = "ended"
  BY NoErrorTyped DEF Call, Calls, Tickets
<1>3. Over(c, e) = [Call(c.class, "ended") EXCEPT !.err = Local(e.kind)]
  BY DEF Over
<1> HIDE DEF Over
<1> QED BY <1>1, <1>2, <1>3 DEF Calls

\* Do's verdict: the end, another attempt, or a renewal for an expiry.
LEMMA JudgedTyped ==
    ASSUME NEW c \in Calls
    PROVE  /\ Judged(c) \in Calls /\ Judged(c).class = c.class
           /\ Judged(c).pc \in {"ended", "creds", "stale"}
           /\ Judged(c).pc = "stale" => c.err.kind = "token_expired" /\ Judged(c).used = c.used
           /\ Judged(c).pc = "creds" => Retries(c)
<1> DEFINE a == [Call(c.class, "creds") EXCEPT !.tries = c.tries, !.refreshed = c.refreshed]
<1>1. Call(c.class, "creds") \in Calls /\ Call(c.class, "creds").class = c.class
      /\ Call(c.class, "creds").pc = "creds"
  BY NoErrorTyped DEF Call, Calls, Tickets
<1>2. a \in Calls /\ a.class = c.class /\ a.pc = "creds" /\ a.tries = c.tries
  BY <1>1 DEF Calls
<1>3. CASE Replays(c)
  <2>1. Judged(c) = [a EXCEPT !.refreshed = TRUE, !.used = c.used, !.then = "creds", !.pc = "stale"]
    BY <1>3 DEF Judged
  <2>2. c.err.kind = "token_expired"
    BY <1>3 DEF Replays
  <2> HIDE DEF a
  <2> QED BY <1>2, <2>1, <2>2 DEF Calls
<1>4. CASE ~Replays(c) /\ Retries(c)
  <2>1. Judged(c) = [a EXCEPT !.tries = @ + 1]
    BY <1>4 DEF Judged
  <2>2. c.tries \in 0 .. MaxRetries /\ c.tries + 1 \in 0 .. MaxRetries
    BY <1>4 DEF Retries, Calls, Errors
  <2> HIDE DEF a
  <2> QED BY <1>2, <1>4, <2>1, <2>2 DEF Calls
<1>5. CASE ~Replays(c) /\ ~Retries(c)
  <2>1. Judged(c) = Over(c, c.err) /\ c.err \in Errors
    BY <1>5 DEF Judged, Calls
  <2> QED BY <2>1, OverTyped
<1> QED BY <1>3, <1>4, <1>5

\* An error of a call, on its way to that verdict or to the look into it.
LEMMA Failing ==
    ASSUME TypeOK, NEW t \in Callers, th[t] # Idle, NEW e \in Errors, Fails(t, e)
    PROVE  \E c \in Calls :
               /\ Becomes(t, c) /\ c.class = Cur(t).class
               /\ \/ c.pc = "ended"
                  \/ c.pc = "creds" /\ Retries([Cur(t) EXCEPT !.err = e])
                  \/ c.pc = "check" /\ ~InProbe(t) /\ e.ambiguous /\ c.err = e
                  \/ c.pc = "stale" /\ e.kind = "token_expired" /\ c.used = Cur(t).used
<1>1. Cur(t) \in Calls
  BY TopTyped
<1>2. PICK d : d = [Cur(t) EXCEPT !.err = e]
  OBVIOUS
<1>3. d \in Calls /\ d.class = Cur(t).class /\ d.err = e /\ d.used = Cur(t).used
  BY <1>1, <1>2 DEF Calls
<1>4. CASE e.ambiguous /\ ~e.resolved /\ ~InProbe(t)
  <2>1. Becomes(t, [d EXCEPT !.pc = "check"])
    BY <1>2, <1>4 DEF Fails
  <2>2. [d EXCEPT !.pc = "check"] \in Calls /\ [d EXCEPT !.pc = "check"].class = Cur(t).class
        /\ [d EXCEPT !.pc = "check"].pc = "check" /\ [d EXCEPT !.pc = "check"].err = e
    BY <1>3 DEF Calls
  <2> QED BY <1>4, <2>1, <2>2
<1>5. CASE ~(e.ambiguous /\ ~e.resolved /\ ~InProbe(t))
  <2>1. Becomes(t, Judged(d))
    BY <1>2, <1>5 DEF Fails
  <2>2. /\ Judged(d) \in Calls /\ Judged(d).class = Cur(t).class
        /\ Judged(d).pc \in {"ended", "creds", "stale"}
        /\ Judged(d).pc = "stale" => e.kind = "token_expired" /\ Judged(d).used = Cur(t).used
        /\ Judged(d).pc = "creds" => Retries(d)
    BY <1>3, JudgedTyped
  <2> QED BY <1>2, <2>1, <2>2
<1> QED BY <1>4, <1>5

\* An error that is no expiry decides a call's fate, whichever way it is met.
LEMMA Fated ==
    ASSUME TypeOK, NEW t \in Callers, th[t] # Idle, NEW e \in Errors, e.kind # "token_expired",
           Fails(t, e) \/ Ends(t, e) \/ Denies(t, e)
    PROVE  \E c \in Calls : Fate(t, c) /\ Becomes(t, c)
<1>1. CASE Fails(t, e)
  <2>1. PICK c \in Calls :
            /\ Becomes(t, c) /\ c.class = Cur(t).class
            /\ \/ c.pc = "ended"
               \/ c.pc = "creds" /\ Retries([Cur(t) EXCEPT !.err = e])
               \/ c.pc = "check" /\ ~InProbe(t) /\ e.ambiguous /\ c.err = e
               \/ c.pc = "stale" /\ e.kind = "token_expired" /\ c.used = Cur(t).used
    BY <1>1, Failing
  <2> QED BY <2>1 DEF Fate
<1>2. CASE Ends(t, e)
  <2>1. Becomes(t, Over(Cur(t), e))
    BY <1>2 DEF Ends
  <2>2. Over(Cur(t), e) \in Calls /\ Over(Cur(t), e).class = Cur(t).class /\ Over(Cur(t), e).pc = "ended"
    BY TopTyped, OverTyped
  <2> QED BY <2>1, <2>2 DEF Fate
<1> QED BY <1>1, <1>2 DEF Denies

-----------------------------------------------------------------------------
(* What a step leaves of the invariant.                                     *)

\* A ticket that was refused stays refused, so a call stays as sound as it was.
LEMMA CallStaysOK ==
    ASSUME NEW c, NEW m, NEW R, NEW S, R \subseteq S, CallOK(c, m, R)
    PROVE  CallOK(c, m, S)
BY DEF CallOK

\* The callers that a step of somebody else leaves alone.
Others(t) ==
    \A u \in Callers : u # t => /\ hits'[u] = hits[u]
                                /\ lock' = u <=> lock = u
                                /\ lock = u => cred' = cred /\ loaded' = loaded

\* One of them.
LEMMA OtherKeeps ==
    ASSUME Sound, NEW u \in Callers, th'[u] = th[u], hits'[u] = hits[u],
           mode' = mode, refused \subseteq refused',
           lock' = u <=> lock = u, lock = u => cred' = cred /\ loaded' = loaded
    PROVE  ThreadOK(u)' /\ RotationOK(u)'
<1>1. ThreadOK(u) /\ RotationOK(u)
  BY DEF Sound, ThreadsOK
<1>2. ThreadOK(u)'
  <2>1. SUFFICES ASSUME th[u] # Idle PROVE (StackOK(u) /\ OnceOK(u))'
    BY <1>1 DEF ThreadOK
  <2>2. StackOK(u) /\ OnceOK(u)
    BY <1>1, <2>1 DEF ThreadOK
  <2>3. OnceOK(u)'
    BY <2>2 DEF OnceOK, Own
  <2>4. CallOK(Cur(u), mode, refused') /\ (InProbe(u) => CallOK(th[u][2], mode, refused'))
    BY <2>2, CallStaysOK DEF StackOK
  <2>5. StackOK(u)'
    BY <2>2, <2>4 DEF StackOK, Signing, At
  <2> QED BY <2>3, <2>5
<1>3. RotationOK(u)'
  <2>1. SUFFICES ASSUME At(u, "refresh"), Cur(u).class \notin {"chunk", "fresh"}
                 PROVE  cred'.age # "new" \/ cred'.ticket \in refused'
    BY DEF RotationOK, At
  <2>2. lock = u
    BY <1>1, <2>1 DEF ThreadOK, StackOK, At, Holding
  <2> QED BY <1>1, <2>1, <2>2 DEF RotationOK
<1> QED BY <1>2, <1>3

\* A step of one caller, whose call goes on as c.
LEMMA ThreadMoves ==
    ASSUME Sound, NEW t \in Callers, th[t] # Idle, NEW c \in Calls, Becomes(t, c),
           mode' = mode, refused \subseteq refused', Others(t),
           c.class = Cur(t).class,
           CallOK(c, mode, refused'),
           Holding(c) => lock' = t,
           lock' = t => \/ Holding(c)
                        \/ ~InProbe(t) /\ c.pc = "check" /\ c.way = "renew"
                        \/ InProbe(t) /\ c.pc = "creds",
           lock' = t /\ mode = "session" => \/ c.pc = "keep" /\ c.way \in {"login", "guest"}
                                            \/ loaded' /\ cred'.ticket = 0,
           InProbe(t) => hits'[t] = hits[t],
           ~InProbe(t) /\ c.class \in {"write", "stream"} =>
               hits'[t] <= IF c.pc = "ended" THEN 1 ELSE 0,
           c.pc = "refresh" /\ c.class \notin {"chunk", "fresh"} =>
               cred'.age # "new" \/ cred'.ticket \in refused'
    PROVE  Moved(t, c) /\ ThreadsOK'
<1>1. Moved(t, c)
  BY Becoming DEF Sound
<1>2. ASSUME NEW u \in Callers, u # t PROVE ThreadOK(u)' /\ RotationOK(u)'
  BY <1>1, <1>2, OtherKeeps DEF Moved, Others
<1>3. StackOK(t) /\ OnceOK(t)
  BY DEF Sound, ThreadsOK, ThreadOK
<1>4. Cur(t)' = c /\ (InProbe(t)' <=> InProbe(t)) /\ th'[t][1] = c
      /\ (InProbe(t) => th'[t][2] = th[t][2])
  BY <1>1 DEF Moved
<1>5. RotationOK(t)'
  BY <1>4 DEF RotationOK, At
<1>6. StackOK(t)'
  <2>1. InProbe(t) => CallOK(th[t][2], mode, refused')
    BY <1>3, CallStaysOK DEF StackOK
  <2>2. lock' = t /\ mode = "session" /\ ~Signing(t)' => loaded' /\ cred'.ticket = 0
    BY <1>1, <1>4 DEF Signing, At, Moved
  <2> QED BY <1>3, <1>4, <2>1, <2>2 DEF StackOK
<1>7. OnceOK(t)'
  <2>1. Len(th'[t]) = Len(th[t]) /\ Len(th[t]) \in {1, 2} /\ (InProbe(t) <=> Len(th[t]) = 2)
    BY <1>1, TopTyped DEF Moved, Sound
  <2>2. CASE InProbe(t)
    <3>1. Own(t)' = Own(t)
      BY <1>4, <2>1, <2>2 DEF Own
    <3> QED BY <1>3, <2>2, <3>1 DEF OnceOK
  <2>3. CASE ~InProbe(t)
    <3>1. Own(t)' = c
      BY <1>4, <2>1, <2>3 DEF Own
    <3> QED BY <2>3, <3>1 DEF OnceOK
  <2> QED BY <2>2, <2>3
<1>8. ThreadOK(t)'
  BY <1>1, <1>6, <1>7 DEF ThreadOK, Moved
<1> QED BY <1>1, <1>2, <1>5, <1>8 DEF ThreadsOK

\* The same where the call's fate is decided: nothing is held, or the mutex goes.
LEMMA FateMoves ==
    ASSUME Sound, NEW t \in Callers, th[t] # Idle, NEW c, Fate(t, c), Becomes(t, c),
           mode' = mode, refused \subseteq refused', Others(t), lock' # t,
           InProbe(t) => hits'[t] = hits[t],
           ~InProbe(t) /\ c.class \in {"write", "stream"} =>
               hits'[t] <= IF c.pc = "ended" THEN 1 ELSE 0
    PROVE  Moved(t, c) /\ ThreadsOK'
<1>1. CallOK(c, mode, refused') /\ ~Holding(c) /\ c.pc # "refresh"
  BY DEF Fate, CallOK, Holding
<1> QED BY <1>1, ThreadMoves DEF Fate

\* A call that is not over has not been done, if it must not be done twice.
LEMMA NotYetDone ==
    ASSUME Sound, NEW t \in Callers, th[t] # Idle, ~InProbe(t), Cur(t).pc # "ended",
           Cur(t).class \in {"write", "stream"}
    PROVE  hits[t] <= 0
<1>1. OnceOK(t) /\ Own(t) = Cur(t)
  BY TopTyped DEF Sound, ThreadsOK, ThreadOK
<1> QED BY <1>1 DEF OnceOK

\* Only the holder of the mutex is saving, and whoever holds it is where that is done.
LEMMA HolderKnown ==
    ASSUME Sound, NEW t \in Callers
    PROVE  /\ th[t] # Idle /\ Holding(Cur(t)) => lock = t
           /\ At(t, "keep") \/ At(t, "graded") => lock = t
           /\ lock = t => th[t] # Idle
BY DEF Sound, ThreadsOK, ThreadOK, StackOK, Holding, At

\* The store's part survives a step that neither saves, nor loads, nor ends a save.
LEMMA StoreKeeps ==
    ASSUME Sound, NEW t \in Callers, UNCHANGED <<mode, cred, loaded, store, unsaved>>,
           \A u \in Callers : u # t => th'[u] = th[u],
           ~At(t, "keep"), ~At(t, "keep")'
    PROVE  StoreOK'
<1>1. ASSUME NEW u \in Callers
      PROVE  /\ At(u, "keep")' <=> At(u, "keep")
             /\ At(u, "keep") => Adopted(u)' = Adopted(u)
  BY <1>1 DEF At, Adopted
<1> QED BY <1>1 DEF Sound, StoreOK

\* The gate's part survives a step of who does not hold the mutex.
LEMMA ShutKeeps ==
    ASSUME Sound, NEW t \in Callers, UNCHANGED <<mode, cred, loaded, gate, lock>>, lock # t,
           \A u \in Callers : u # t => th'[u] = th[u],
           mode = "session" /\ wrong' => wrong
    PROVE  ShutOK'
<1>1. ASSUME NEW u \in Callers, lock = u
      PROVE  (Condemned(u)' <=> Condemned(u)) /\ (Signing(u)' <=> Signing(u))
  BY <1>1 DEF Condemned, Signing, At
<1> QED BY <1>1 DEF Sound, ShutOK

\* Who is elsewhere does not hold the mutex.
LEMMA NotHolder ==
    ASSUME Sound, NEW t \in Callers, th[t] # Idle, ~Holding(Cur(t)),
           Cur(t).pc \notin {"check", "creds"} \/ lock = NoCaller
    PROVE  lock # t
BY DEF Sound, ThreadsOK, ThreadOK, StackOK

\* A step outside the mutex that changes no credentials.
LEMMA QuietMoves ==
    ASSUME Sound, NEW t \in Callers, th[t] # Idle, NEW c \in Calls, Becomes(t, c),
           UNCHANGED <<authVars, unsaved>>, mode = "session" /\ wrong' => wrong,
           refused \subseteq refused', lock # t,
           c.class = Cur(t).class, CallOK(c, mode, refused'), ~Holding(c),
           \A u \in Callers : u # t => hits'[u] = hits[u],
           InProbe(t) => hits'[t] = hits[t],
           ~InProbe(t) /\ c.class \in {"write", "stream"} =>
               hits'[t] <= IF c.pc = "ended" THEN 1 ELSE 0
    PROVE  Moved(t, c) /\ GateOK' /\ StoreOK' /\ ShutOK' /\ ThreadsOK'
<1>1. c.pc # "refresh" /\ c.pc # "keep"
  BY DEF Holding
<1>2. Others(t)
  BY DEF Others
<1>3. Moved(t, c) /\ ThreadsOK'
  BY <1>1, <1>2, ThreadMoves
<1>4. ~At(t, "keep") /\ ~At(t, "keep")'
  BY <1>1, <1>3, HolderKnown DEF Moved, At
<1>5. StoreOK'
  BY <1>3, <1>4, StoreKeeps DEF Moved
<1>6. ShutOK'
  BY <1>3, ShutKeeps DEF Moved
<1>7. GateOK'
  BY DEF Sound, GateOK
<1> QED BY <1>3, <1>5, <1>6, <1>7

\* A step that leaves hits alone does no call twice.
LEMMA QuietHits ==
    ASSUME Sound, NEW t \in Callers, th[t] # Idle, Cur(t).pc # "ended", hits' = hits, NEW c \in Calls,
           c.class = Cur(t).class
    PROVE  /\ \A u \in Callers : hits'[u] = hits[u]
           /\ ~InProbe(t) /\ c.class \in {"write", "stream"} =>
                  hits'[t] <= IF c.pc = "ended" THEN 1 ELSE 0
<1>1. ~InProbe(t) /\ c.class \in {"write", "stream"} => hits[t] <= 0
  BY NotYetDone
<1>2. hits[t] \in Nat \cup {-1}
  BY DEF Sound, TypeOK
<1> QED BY <1>1, <1>2

-----------------------------------------------------------------------------
(* Calls and what comes of them.                                            *)

\* Status goes on to its call, or ends.
LEMMA StatusKeeps == ASSUME Sound, NEW t \in Callers, Status(t) PROVE Sound'
<1>1. th[t] # Idle /\ Cur(t) \in Calls /\ Cur(t).pc = "status" /\ lock # t
  BY NotHolder, TopTyped DEF Status, At, Holding, Sound, Free
<1>2. \E c \in Calls : /\ c.class = Cur(t).class /\ c.pc \in {"creds", "ended"} /\ Becomes(t, c)
  <2>1. CASE Goto(t, "creds")
    <3>1. [Cur(t) EXCEPT !.pc = "creds"] \in Calls
          /\ [Cur(t) EXCEPT !.pc = "creds"].class = Cur(t).class
          /\ [Cur(t) EXCEPT !.pc = "creds"].pc = "creds"
      BY <1>1 DEF Calls
    <3> QED BY <2>1, <3>1 DEF Goto
  <2>2. CASE Ends(t, NoError)
    BY <1>1, <2>2, OverTyped, NoErrorTyped DEF Ends
  <2> QED BY <2>1, <2>2 DEF Status
<1>3. PICK c \in Calls : c.class = Cur(t).class /\ c.pc \in {"creds", "ended"} /\ Becomes(t, c)
  BY <1>2
<1>4. CallOK(c, mode, refused') /\ ~Holding(c)
  BY <1>3 DEF CallOK, Holding
<1>5. Moved(t, c) /\ GateOK' /\ StoreOK' /\ ShutOK' /\ ThreadsOK'
  BY <1>1, <1>3, <1>4, QuietMoves, QuietHits DEF Status
<1>6. TypeOK'
  BY <1>5 DEF TypeOK, Sound, Moved, Status
<1> QED BY <1>5, <1>6 DEF Sound

\* A session for a chunk: the one there is, a new one, or none to be had.
LEMMA SessionIDKeeps == ASSUME Sound, NEW t \in Callers, SessionID(t) PROVE Sound'
<1>1. /\ th[t] # Idle /\ Cur(t) \in Calls /\ Cur(t).pc = "session" /\ lock # t
      /\ Cur(t).class = "chunk" /\ mode = "oauth2" /\ cred \in Cred
  <2>1. th[t] # Idle /\ Cur(t).pc = "session" /\ lock = NoCaller
    BY DEF SessionID, Ready, At, Free
  <2>2. CallOK(Cur(t), mode, refused)
    BY <2>1 DEF Sound, ThreadsOK, ThreadOK, StackOK
  <2>3. Cur(t) \in Calls /\ cred \in Cred
    BY <2>1, TopTyped DEF Sound, TypeOK
  <2> QED BY <2>1, <2>2, <2>3 DEF CallOK
<1>2. \E c \in Calls : /\ c.class = Cur(t).class /\ c.pc \in {"call", "mint", "ended", "creds", "check"}
                       /\ c.pc = "check" => c.err.kind # "token_expired"
                       /\ c.pc = "mint" => c.way = "mint"
                       /\ Becomes(t, c)
  <2>1. CASE cred.sess # 0
    <3>1. PICK c : c = [Cur(t) EXCEPT !.sess = cred.sess, !.used = 0, !.pc = "call"]
      OBVIOUS
    <3>2. cred.sess \in Tickets /\ 0 \in Tickets
      BY <1>1 DEF Cred, Tickets
    <3>3. c \in Calls /\ c.class = Cur(t).class /\ c.pc = "call"
      BY <1>1, <3>1, <3>2 DEF Calls
    <3> QED BY <2>1, <3>1, <3>3 DEF SessionID
  <2>2. CASE cred.sess = 0 /\ cred.pw = "kept"
    <3>1. PICK c : c = [Cur(t) EXCEPT !.pc = "mint", !.way = "mint"]
      OBVIOUS
    <3>2. c \in Calls /\ c.class = Cur(t).class /\ c.pc = "mint" /\ c.way = "mint"
      BY <1>1, <3>1 DEF Calls
    <3> QED BY <2>2, <3>1, <3>2 DEF SessionID
  <2>3. CASE cred.sess = 0 /\ cred.pw # "kept"
    <3>1. Fails(t, Local("reauth_required"))
      BY <2>3 DEF SessionID
    <3>2. Local("reauth_required") \in Errors /\ Local("reauth_required").kind # "token_expired"
      BY LocalTyped DEF Kinds
    <3>3. \E c \in Calls : Fate(t, c) /\ Becomes(t, c)
      BY <1>1, <3>1, <3>2, Fated DEF Sound
    <3> QED BY <3>3 DEF Fate
  <2> QED BY <2>1, <2>2, <2>3
<1>3. PICK c \in Calls : /\ c.class = Cur(t).class /\ c.pc \in {"call", "mint", "ended", "creds", "check"}
                         /\ c.pc = "check" => c.err.kind # "token_expired"
                         /\ c.pc = "mint" => c.way = "mint"
                         /\ Becomes(t, c)
  BY <1>2
<1>4. CallOK(c, mode, refused') /\ ~Holding(c)
  BY <1>1, <1>3 DEF CallOK, Holding
<1>5. Moved(t, c) /\ GateOK' /\ StoreOK' /\ ShutOK' /\ ThreadsOK'
  BY <1>1, <1>3, <1>4, QuietMoves, QuietHits DEF SessionID
<1>6. TypeOK'
  BY <1>5 DEF TypeOK, Sound, Moved, SessionID
<1> QED BY <1>5, <1>6 DEF Sound

\* Upstream's own doing counts once, and not for a probe.
LEMMA HitTyped ==
    ASSUME Sound, NEW t \in Callers, th[t] # Idle, Cur(t).pc # "ended", hits' = Hit(t)
    PROVE  /\ hits' \in [Callers -> Nat \cup {-1}]
           /\ \A u \in Callers : u # t => hits'[u] = hits[u]
           /\ InProbe(t) => hits'[t] = hits[t]
           /\ ~InProbe(t) /\ Cur(t).class \in {"write", "stream"} => hits'[t] <= 1
<1>1. hits \in [Callers -> Nat \cup {-1}]
  BY DEF Sound, TypeOK
<1>2. ~InProbe(t) /\ Cur(t).class \in {"write", "stream"} => hits[t] <= 0
  BY NotYetDone
<1> QED BY <1>1, <1>2 DEF Hit

\* A lost answer ends what must not be repeated.
LEMMA LostIsFinal ==
    ASSUME NEW c, c.class \in {"write", "stream"}, c.err = Local("network")
    PROVE  ~Retries(c)
<1>1. Local("network").code = 0
  BY DEF Local, APIError
<1> QED BY <1>1 DEF Retries, Retryable, replaySafe, Streams

\* A call that was answered with an error that is no expiry.
LEMMA AnswerMoves ==
    ASSUME Sound, NEW t \in Callers, At(t, "call"), NEW e \in Errors, e.kind # "token_expired",
           Fails(t, e), UNCHANGED <<authVars, unsaved>>, mode = "session" /\ wrong' => wrong,
           refused \subseteq refused', hits' = hits
    PROVE  (\E c : Moved(t, c)) /\ GateOK' /\ StoreOK' /\ ShutOK' /\ ThreadsOK'
<1>1. th[t] # Idle /\ lock # t
  BY NotHolder DEF At, Holding
<1>2. PICK c \in Calls : Fate(t, c) /\ Becomes(t, c)
  BY <1>1, Fated DEF Sound
<1>3. CallOK(c, mode, refused') /\ ~Holding(c) /\ c.class = Cur(t).class
  BY <1>2 DEF Fate, CallOK, Holding
<1> QED BY <1>1, <1>2, <1>3, QuietMoves, QuietHits DEF At

\* One that was lost, whatever upstream has done.
LEMMA LostMoves ==
    ASSUME Sound, NEW t \in Callers, At(t, "call"), Fails(t, Local("network")),
           UNCHANGED <<authVars, unsaved, wrong>>, refused' = refused, hits' = Hit(t)
    PROVE  (\E c : Moved(t, c)) /\ GateOK' /\ StoreOK' /\ ShutOK' /\ ThreadsOK'
<1>1. th[t] # Idle /\ lock # t /\ Cur(t).pc # "ended"
  BY NotHolder DEF At, Holding
<1>2. Local("network") \in Errors /\ Local("network").kind = "network"
      /\ ~Local("network").ambiguous
  BY LocalTyped DEF Kinds
<1>3. PICK c \in Calls :
          /\ Becomes(t, c) /\ c.class = Cur(t).class
          /\ \/ c.pc = "ended"
             \/ c.pc = "creds" /\ Retries([Cur(t) EXCEPT !.err = Local("network")])
  BY <1>1, <1>2, Failing DEF Sound
<1>4. c.class \in {"write", "stream"} => c.pc = "ended"
  <2>1. PICK d : d = [Cur(t) EXCEPT !.err = Local("network")]
    OBVIOUS
  <2>2. Cur(t) \in Calls
    BY <1>1, TopTyped DEF Sound
  <2>3. d.class = Cur(t).class /\ d.err = Local("network")
    BY <2>1, <2>2 DEF Calls
  <2>4. d.class \in {"write", "stream"} => ~Retries(d)
    BY <2>3, LostIsFinal
  <2>5. c.pc = "ended" \/ Retries(d)
    BY <1>3, <2>1
  <2> QED BY <1>3, <2>3, <2>4, <2>5
<1>5. CallOK(c, mode, refused') /\ ~Holding(c)
  BY <1>3 DEF CallOK, Holding
<1>6. \A u \in Callers : u # t => hits'[u] = hits[u]
  BY <1>1, HitTyped
<1>7. InProbe(t) => hits'[t] = hits[t]
  BY <1>1, HitTyped
<1>8. ~InProbe(t) /\ c.class \in {"write", "stream"} => hits'[t] <= IF c.pc = "ended" THEN 1 ELSE 0
  BY <1>1, <1>3, <1>4, HitTyped
<1> QED BY <1>1, <1>3, <1>5, <1>6, <1>7, <1>8, QuietMoves

\* A call that is done.
LEMMA SucceedsKeeps == ASSUME Sound, NEW t \in Callers, Succeeds(t) PROVE Sound'
<1>1. th[t] # Idle /\ Cur(t).pc = "call" /\ Cur(t) \in Calls /\ lock # t
  BY NotHolder, TopTyped DEF Succeeds, At, Holding, Sound
<1>2. PICK c : c = Over(Cur(t), NoError)
  OBVIOUS
<1>3. c \in Calls /\ c.class = Cur(t).class /\ c.pc = "ended" /\ Becomes(t, c)
  BY <1>1, <1>2, OverTyped, NoErrorTyped DEF Succeeds, Ends
<1>4. CallOK(c, mode, refused') /\ ~Holding(c)
  BY <1>3 DEF CallOK, Holding
<1>5. hits' = Hit(t)
  BY DEF Succeeds
<1>6. Moved(t, c) /\ GateOK' /\ StoreOK' /\ ShutOK' /\ ThreadsOK'
  BY <1>1, <1>3, <1>4, <1>5, HitTyped, QuietMoves DEF Succeeds
<1>7. hits' \in [Callers -> Nat \cup {-1}]
  BY <1>1, <1>5, HitTyped
<1>8. Cur(t).class \in AllClasses \cup {"probe"}
  BY <1>1 DEF Calls
<1>9. TypeOK'
  BY <1>6, <1>7, <1>8 DEF TypeOK, Sound, Moved, Succeeds, Witnessed
<1> QED BY <1>6, <1>9 DEF Sound

\* A stream whose reader has bytes when it breaks: it is not begun again.
LEMMA StreamBreaksKeeps == ASSUME Sound, NEW t \in Callers, StreamBreaks(t) PROVE Sound'
<1>1. th[t] # Idle /\ Cur(t).pc = "call"
  BY DEF StreamBreaks, At
<1>2. (\E c : Moved(t, c)) /\ GateOK' /\ StoreOK' /\ ShutOK' /\ ThreadsOK'
  BY LostMoves DEF StreamBreaks
<1>3. hits' \in [Callers -> Nat \cup {-1}]
  BY <1>1, HitTyped DEF StreamBreaks
<1>4. TypeOK'
  BY <1>2, <1>3 DEF TypeOK, Sound, Moved, StreamBreaks, Witnessed, AllClasses
<1> QED BY <1>2, <1>4 DEF Sound

\* A call that is declined, or whose answer is lost.
LEMMA ErrsKeeps == ASSUME Sound, NEW t \in Callers, Errs(t) PROVE Sound'
<1>1. th[t] # Idle /\ Cur(t).pc = "call"
  BY DEF Errs, At
<1>2. CASE \E ev \in Declines : Fails(t, Classified(ev)) /\ UNCHANGED hits
  <2>1. PICK ev \in Declines : Fails(t, Classified(ev)) /\ UNCHANGED hits
    BY <1>2
  <2>2. ev \in {Json(403, "permission"), Json(429, "nothing"), Page(401)}
    BY DEF Declines
  <2>3. Classified(ev) \in Errors /\ Classified(ev).kind # "token_expired"
    BY <2>2, AnswersTyped
  <2>4. (\E c : Moved(t, c)) /\ GateOK' /\ StoreOK' /\ ShutOK' /\ ThreadsOK'
    BY <2>1, <2>3, AnswerMoves DEF Errs
  <2>5. TypeOK'
    BY <2>1, <2>4 DEF TypeOK, Sound, Moved, Errs
  <2> QED BY <2>4, <2>5 DEF Sound
<1>3. CASE \E e \in Doubtful : Fails(t, e) /\ hits' \in {hits, Hit(t)}
  <2>1. Fails(t, Local("network")) /\ hits' \in {hits, Hit(t)}
    BY <1>3 DEF Doubtful
  <2>2. Local("network") \in Errors /\ Local("network").kind # "token_expired"
    BY LocalTyped DEF Kinds
  <2>3. (\E c : Moved(t, c)) /\ GateOK' /\ StoreOK' /\ ShutOK' /\ ThreadsOK'
    <3>1. CASE hits' = hits
      BY <2>1, <2>2, <3>1, AnswerMoves DEF Errs
    <3>2. CASE hits' = Hit(t)
      BY <2>1, <3>2, LostMoves DEF Errs
    <3> QED BY <2>1, <3>1, <3>2
  <2>4. hits' \in [Callers -> Nat \cup {-1}]
    BY <1>1, <2>1, HitTyped DEF Sound, TypeOK
  <2>5. TypeOK'
    BY <2>3, <2>4 DEF TypeOK, Sound, Moved, Errs
  <2> QED BY <2>3, <2>5 DEF Sound
<1> QED BY <1>2, <1>3 DEF Errs

\* A ticket or a session that is no good: only an expiry that was refused is renewed.
LEMMA IsRefusedKeeps == ASSUME Sound, NEW t \in Callers, IsRefused(t) PROVE Sound'
<1>1. th[t] # Idle /\ Cur(t).pc = "call" /\ Cur(t) \in Calls /\ lock # t
  BY NotHolder, TopTyped DEF IsRefused, At, Holding, Sound
<1>2. refused \subseteq refused' /\ refused' \subseteq Tickets
      /\ (Cur(t).used # 0 => Cur(t).used \in refused')
  BY <1>1 DEF IsRefused, Sound, TypeOK, Calls
<1>3. (\E c : Moved(t, c)) /\ GateOK' /\ StoreOK' /\ ShutOK' /\ ThreadsOK'
  <2>1. CASE Cur(t).class = "chunk"
    <3>1. Fails(t, Classified(Page(401)))
      BY <2>1 DEF IsRefused
    <3>2. Classified(Page(401)) \in Errors /\ Classified(Page(401)).kind # "token_expired"
      BY AnswersTyped
    <3> QED BY <1>2, <3>1, <3>2, AnswerMoves DEF IsRefused
  <2>2. CASE Cur(t).class # "chunk"
    <3>1. PICK e : e = Classified(Json(401, "expired"))
      OBVIOUS
    <3>2. Fails(t, e)
      BY <2>2, <3>1 DEF IsRefused
    <3>3. e \in Errors /\ ~e.ambiguous
      BY <3>1, AnswersTyped
    <3>4. PICK c \in Calls :
              /\ Becomes(t, c) /\ c.class = Cur(t).class
              /\ c.pc \in {"ended", "creds"} \/ (c.pc = "stale" /\ c.used = Cur(t).used)
      BY <1>1, <3>2, <3>3, Failing DEF Sound
    <3>5. CallOK(Cur(t), mode, refused)
      BY <1>1 DEF Sound, ThreadsOK, ThreadOK, StackOK
    <3>6. Cur(t).used # 0
      BY <1>1, <2>2, <3>5 DEF CallOK
    <3>7. CallOK(c, mode, refused') /\ ~Holding(c)
      BY <1>2, <2>2, <3>4, <3>6 DEF CallOK, Holding
    <3> QED BY <1>1, <1>2, <3>4, <3>7, QuietMoves, QuietHits DEF IsRefused
  <2> QED BY <2>1, <2>2
<1>4. TypeOK'
  BY <1>2, <1>3 DEF TypeOK, Sound, Moved, IsRefused
<1> QED BY <1>3, <1>4 DEF Sound

-----------------------------------------------------------------------------
(* Outside the mutex: minted sessions, logins, probes.                      *)

\* A grant that is of no use fails with an error that is no expiry.
LEMMA TroubleTyped ==
    ASSUME NEW e \in GrantTrouble
    PROVE  e \in Errors /\ e.kind \notin {"token_expired", "reauth_required", "captcha_required"}
<1>1. e \in {Local("network"), Classified(Empty(401))}
  BY DEF GrantTrouble
<1>2. CASE e = Local("network")
  BY <1>2, LocalTyped DEF Kinds
<1>3. CASE e = Classified(Empty(401))
  BY <1>3, GrantAnswersTyped
<1> QED BY <1>1, <1>2, <1>3

\* The mint, in oauth2 mode only: it may find that the password is wrong.
LEMMA MintKeeps == ASSUME Sound, NEW t \in Callers, Mint(t) PROVE Sound'
<1>1. /\ th[t] # Idle /\ Cur(t) \in Calls /\ Cur(t).pc = "mint" /\ lock # t
      /\ Cur(t).class = "chunk" /\ mode = "oauth2" /\ Cur(t).way = "mint"
  <2>1. th[t] # Idle /\ Cur(t).pc = "mint" /\ lock # t
    BY NotHolder DEF Mint, At, Holding
  <2>2. CallOK(Cur(t), mode, refused)
    BY <2>1 DEF Sound, ThreadsOK, ThreadOK, StackOK
  <2> QED BY <2>1, <2>2, TopTyped DEF CallOK, Sound
<1>2. CASE up.pwOK /\ up.lastSession + 1 <= MaxTickets /\ Granted(t, up.lastSession + 1)
           /\ up' = [up EXCEPT !.sessions = @ \cup {up.lastSession + 1}, !.lastSession = up.lastSession + 1]
           /\ wrong' = wrong
  <2>1. PICK n : n = up.lastSession + 1
    OBVIOUS
  <2>2. n \in Tickets /\ n # 0
    BY <1>2, <2>1 DEF Sound, TypeOK, Upstream, Tickets
  <2>3. PICK c : c = [Cur(t) EXCEPT !.got = n, !.pc = "save"]
    OBVIOUS
  <2>4. Becomes(t, c)
    BY <1>2, <2>1, <2>3 DEF Granted
  <2>5. c \in Calls /\ c.class = Cur(t).class /\ c.pc = "save" /\ c.got = n /\ c.way = Cur(t).way
    BY <1>1, <2>2, <2>3 DEF Calls
  <2>6. CallOK(c, mode, refused') /\ ~Holding(c)
    BY <1>1, <2>2, <2>5 DEF CallOK, Holding
  <2>7. Moved(t, c) /\ GateOK' /\ StoreOK' /\ ShutOK' /\ ThreadsOK'
    BY <1>1, <1>2, <2>4, <2>5, <2>6, QuietMoves, QuietHits DEF Mint
  <2>8. up' \in Upstream
    BY <1>2, <2>1, <2>2 DEF Sound, TypeOK, Upstream
  <2>9. TypeOK'
    BY <1>2, <2>7, <2>8 DEF TypeOK, Sound, Moved, Mint
  <2> QED BY <2>7, <2>9 DEF Sound
<1>3. CASE \E e \in Errors : e.kind # "token_expired" /\ Fails(t, e) /\ UNCHANGED up
           /\ wrong' \in BOOLEAN
  <2>1. PICK e \in Errors : e.kind # "token_expired" /\ Fails(t, e) /\ UNCHANGED up
           /\ wrong' \in BOOLEAN
    BY <1>3
  <2>2. PICK c \in Calls : Fate(t, c) /\ Becomes(t, c)
    BY <1>1, <2>1, Fated DEF Sound
  <2>3. CallOK(c, mode, refused') /\ ~Holding(c) /\ c.class = Cur(t).class
    BY <2>2 DEF Fate, CallOK, Holding
  <2>4. Moved(t, c) /\ GateOK' /\ StoreOK' /\ ShutOK' /\ ThreadsOK'
    BY <1>1, <2>1, <2>2, <2>3, QuietMoves, QuietHits DEF Mint
  <2>5. TypeOK'
    BY <2>1, <2>4 DEF TypeOK, Sound, Moved, Mint
  <2> QED BY <2>4, <2>5 DEF Sound
<1>4. CASE ~up.pwOK /\ UNCHANGED up /\ wrong' = TRUE /\ Fails(t, Classified(Json(401, "credentials")))
  BY <1>3, <1>4, GrantAnswersTyped
<1>5. CASE \E e \in GrantTrouble : Fails(t, e) /\ UNCHANGED <<up, wrong>>
  BY <1>3, <1>5, TroubleTyped DEF Sound, TypeOK
<1> QED BY <1>2, <1>4, <1>5 DEF Mint

\* A login's grant, made outside the mutex.
LEMMA LoginKeeps == ASSUME Sound, NEW t \in Callers, Login(t) PROVE Sound'
<1>1. th[t] # Idle /\ Cur(t).pc = "login" /\ Cur(t) \in Calls /\ lock # t
  BY NotHolder, TopTyped DEF Login, At, Holding, Sound
<1>2. PICK n : n = up.issued + 1
  OBVIOUS
<1>3. n \in Tickets /\ n # 0
  BY <1>2 DEF Login, Sound, TypeOK, Upstream, Tickets
<1>4. PICK pw \in Passwords :
          Becomes(t, [Cur(t) EXCEPT !.got = n, !.pc = "save",
                                    !.way = IF pw = "kept" THEN "login" ELSE "guest"])
  BY <1>2 DEF Login
<1>5. PICK c : c = [Cur(t) EXCEPT !.got = n, !.pc = "save",
                                  !.way = IF pw = "kept" THEN "login" ELSE "guest"]
  OBVIOUS
<1>6. c \in Calls /\ c.class = Cur(t).class /\ c.pc = "save" /\ c.got = n /\ c.way \in {"login", "guest"}
  BY <1>1, <1>3, <1>5 DEF Calls
<1>7. CallOK(c, mode, refused') /\ ~Holding(c)
  BY <1>3, <1>6 DEF CallOK, Holding
<1>8. Moved(t, c) /\ GateOK' /\ StoreOK' /\ ShutOK' /\ ThreadsOK'
  BY <1>1, <1>4, <1>5, <1>6, <1>7, QuietMoves, QuietHits DEF Login
<1>9. up' \in Upstream
  BY <1>2, <1>3 DEF Login, Sound, TypeOK, Upstream
<1>10. TypeOK'
  BY <1>8, <1>9 DEF TypeOK, Sound, Moved, Login
<1> QED BY <1>8, <1>10 DEF Sound

\* An error that has been looked into is no expiry still.
LEMMA LookedInto ==
    ASSUME NEW e \in Errors, e.kind # "token_expired", NEW class, NEW found
    PROVE  /\ Confirm(e, class) \in Errors /\ Confirm(e, class).kind # "token_expired"
           /\ Condemn(e, found) \in Errors /\ Condemn(e, found).kind # "token_expired"
<1>1. Confirm(e, class) \in Errors /\ Confirm(e, class).kind = e.kind
  BY DEF Confirm, Errors
<1>2. {"reauth_required", "captcha_required", "keystore_unavailable"} \subseteq Kinds
  BY DEF Kinds
<1>3. PICK k : k = IF found \in {"reauth_required", "captcha_required", "keystore_unavailable"}
                   THEN found ELSE e.kind
  OBVIOUS
<1>4. k \in Kinds /\ k # "token_expired"
  BY <1>2, <1>3 DEF Errors
<1>5. Condemn(e, found) = [e EXCEPT !.resolved = TRUE, !.retry = "no", !.kind = k]
  BY <1>3 DEF Condemn, Errors
<1> QED BY <1>1, <1>4, <1>5 DEF Errors

\* A probe's result settles an error: the call's fate, or the grade of a grant.
LEMMA ResolveKeeps == ASSUME Sound, NEW t \in Callers, Resolve(t) PROVE Sound'
<1>1. th[t] # Idle /\ Cur(t).pc = "check" /\ Cur(t) \in Calls
  BY TopTyped DEF Resolve, At, Sound
<1>2. StackOK(t)
  BY <1>1 DEF Sound, ThreadsOK, ThreadOK
<1>3. Cur(t).err \in Errors /\ Cur(t).err.kind # "token_expired"
  BY <1>1, <1>2 DEF StackOK, CallOK, Calls
<1>4. PICK e \in Errors : e.kind # "token_expired" /\ Becomes(t, After(t, [Cur(t) EXCEPT !.err = e]))
  BY <1>3, LookedInto DEF Resolve
<1>5. PICK d : d = [Cur(t) EXCEPT !.err = e]
  OBVIOUS
<1>6. d \in Calls /\ d.class = Cur(t).class /\ d.err = e /\ d.way = Cur(t).way
  BY <1>1, <1>5 DEF Calls
<1>7. UNCHANGED <<authVars, pastVars>> /\ th[t] # Idle /\ hits' = hits
  BY <1>1 DEF Resolve
<1>8. \E c : Moved(t, c) /\ GateOK' /\ StoreOK' /\ ShutOK' /\ ThreadsOK'
  <2>1. CASE lock = t
    <3>1. PICK c : c = [d EXCEPT !.pc = "graded"]
      OBVIOUS
    <3>2. c \in Calls /\ c.class = Cur(t).class /\ c.pc = "graded" /\ c.err = e /\ c.way = Cur(t).way
      BY <1>6, <3>1 DEF Calls
    <3>3. Becomes(t, c)
      BY <1>4, <1>5, <2>1, <3>1 DEF After, HoldsBySelf
    <3>4. Cur(t).way = "renew" /\ (mode = "session" => loaded /\ cred.ticket = 0)
      BY <1>1, <1>2, <2>1 DEF StackOK, Holding, Signing, At
    <3>5. CallOK(c, mode, refused') /\ Holding(c)
      BY <1>4, <3>2, <3>4 DEF CallOK, Holding
    <3>6. Others(t)
      BY <1>7 DEF Others
    <3>7. Moved(t, c) /\ ThreadsOK'
      BY <1>1, <1>7, <2>1, <3>2, <3>3, <3>4, <3>5, <3>6, ThreadMoves, QuietHits
    <3>8. ~At(t, "keep") /\ ~At(t, "keep")'
      BY <1>1, <3>2, <3>7 DEF At, Moved
    <3>9. StoreOK'
      BY <1>7, <3>7, <3>8, StoreKeeps DEF Moved
    <3>10. ShutOK'
      <4>1. ~(mode = "session" /\ wrong)
        BY <1>1, <2>1 DEF Sound, ShutOK, Condemned, Signing, At
      <4> QED BY <1>7, <4>1 DEF ShutOK
    <3>11. GateOK'
      BY <1>7 DEF Sound, GateOK
    <3> QED BY <3>7, <3>9, <3>10, <3>11
  <2>2. CASE lock # t
    <3>1. Becomes(t, Judged(d))
      BY <1>4, <1>5, <2>2 DEF After, HoldsBySelf
    <3>2. PICK c : c = Judged(d)
      OBVIOUS
    <3>3. c \in Calls /\ c.class = Cur(t).class /\ c.pc \in {"ended", "creds"}
      BY <1>4, <1>6, <3>2, JudgedTyped
    <3>4. CallOK(c, mode, refused') /\ ~Holding(c)
      BY <3>3 DEF CallOK, Holding
    <3> QED BY <1>1, <1>7, <2>2, <3>1, <3>2, <3>3, <3>4, QuietMoves, QuietHits
  <2> QED BY <2>1, <2>2
<1>9. Cur(t).class \in AllClasses \cup {"probe"}
  BY <1>1 DEF Calls
<1>10. denied' \subseteq AllClasses \cup {"probe"}
  BY <1>9 DEF Resolve, Sound, TypeOK
<1>11. TypeOK'
  BY <1>8, <1>10 DEF TypeOK, Sound, Moved, Resolve
<1> QED BY <1>8, <1>11 DEF Sound

\* A caller's stack is replaced by one that is not too high.
LEMMA Stacking ==
    ASSUME Sound, NEW t \in Callers, NEW s \in Seq(Calls), NEW n \in {1, 2}, Len(s) = n,
           th' = [th EXCEPT ![t] = s]
    PROVE  /\ th'[t] = s /\ th' \in [Callers -> Seq(Calls)]
           /\ \A u \in Callers : u # t => th'[u] = th[u]
           /\ \A u \in Callers : Len(th'[u]) <= 2
<1>1. th \in [Callers -> Seq(Calls)] /\ \A u \in Callers : Len(th[u]) <= 2
  BY DEF Sound, TypeOK
<1>2. th'[t] = s /\ th' \in [Callers -> Seq(Calls)] /\ \A u \in Callers : u # t => th'[u] = th[u]
  BY <1>1
<1>3. ASSUME NEW u \in Callers PROVE Len(th'[u]) <= 2
  <2>1. CASE u = t
    <3>1. n <= 2
      OBVIOUS
    <3> QED BY <1>2, <2>1, <3>1
  <2>2. CASE u # t
    BY <1>1, <1>2, <2>2
  <2> QED BY <2>1, <2>2
<1> QED BY <1>2, <1>3

\* A probe is put on top of the call whose error it looks into.
LEMMA ProbeKeeps == ASSUME Sound, NEW t \in Callers, Probe(t) PROVE Sound'
<1>1. th[t] # Idle /\ Cur(t).pc = "check" /\ Cur(t) \in Calls /\ ~InProbe(t) /\ Cur(t) = th[t][1]
      /\ Len(th[t]) = 1 /\ Own(t) = Cur(t)
  BY TopTyped DEF Probe, At, Sound
<1>2. StackOK(t) /\ OnceOK(t)
  BY <1>1 DEF Sound, ThreadsOK, ThreadOK
<1>3. PICK p : p = Call("probe", "creds")
  OBVIOUS
<1>4. p \in Calls /\ p.class = "probe" /\ p.pc = "creds"
  BY <1>3, NoErrorTyped DEF Call, Calls, Tickets
<1>5. PICK s : s = <<p>> \o th[t]
  OBVIOUS
<1>6. s \in Seq(Calls) /\ Len(s) = 2 /\ s[1] = p /\ s[2] = th[t][1] /\ Head(s) = p /\ s # Idle
  <2>1. th[t] \in Seq(Calls)
    BY DEF Sound, TypeOK
  <2>2. s \in Seq(Calls) /\ Len(s) = 2 /\ s[1] = p /\ s[2] = th[t][1]
    BY <1>1, <1>4, <1>5, <2>1
  <2> QED BY <2>2
<1>7. /\ th'[t] = s /\ th' \in [Callers -> Seq(Calls)]
      /\ \A u \in Callers : u # t => th'[u] = th[u]
      /\ \A u \in Callers : Len(th'[u]) <= 2
  <2>1. th' = [th EXCEPT ![t] = s]
    BY <1>3, <1>5 DEF Probe
  <2> QED BY <1>6, <2>1, Stacking
<1>8. UNCHANGED <<authVars, pastVars, up, witness, denied>>
  BY DEF Probe
<1>9. ThreadOK(t)' /\ RotationOK(t)'
  <2>1. Cur(t)' = p /\ InProbe(t)' /\ th'[t][2] = Cur(t) /\ th'[t] # Idle /\ Own(t)' = Cur(t)
    BY <1>1, <1>6, <1>7 DEF Own
  <2>2. CallOK(p, mode, refused) /\ ~Holding(p)
    BY <1>4 DEF CallOK, Holding
  <2>3. lock = t /\ mode = "session" => loaded /\ cred.ticket = 0
    BY <1>1, <1>2 DEF StackOK, Signing, At
  <2>4. StackOK(t)'
    BY <1>1, <1>2, <1>4, <1>8, <2>1, <2>2, <2>3 DEF StackOK
  <2>5. OnceOK(t)'
    BY <1>1, <1>2, <1>8, <2>1 DEF OnceOK
  <2>6. RotationOK(t)'
    BY <1>4, <2>1 DEF RotationOK, At
  <2> QED BY <2>1, <2>4, <2>5, <2>6 DEF ThreadOK
<1>10. ThreadsOK'
  BY <1>7, <1>8, <1>9, OtherKeeps DEF ThreadsOK
<1>11. ~At(t, "keep") /\ ~At(t, "keep")'
  BY <1>1, <1>4, <1>6, <1>7 DEF At
<1>12. StoreOK'
  BY <1>7, <1>8, <1>11, StoreKeeps
<1>13. ShutOK'
  <2>1. CASE lock = t
    <3>1. ~(mode = "session" /\ wrong)
      BY <1>1, <2>1 DEF Sound, ShutOK, Condemned, Signing, At
    <3> QED BY <1>8, <3>1 DEF ShutOK
  <2>2. CASE lock # t
    BY <1>7, <1>8, <2>2, ShutKeeps
  <2> QED BY <2>1, <2>2
<1>14. GateOK'
  BY <1>8 DEF Sound, GateOK
<1>15. probe' \in Probing
  BY DEF Probe, Sound, TypeOK, Probing
<1>16. TypeOK'
  BY <1>7, <1>8, <1>15 DEF TypeOK, Sound
<1> QED BY <1>10, <1>12, <1>13, <1>14, <1>16 DEF Sound

\* A probe that has ended leaves the call under it where it was.
LEMMA ProbedKeeps == ASSUME Sound, NEW t \in Callers, Probed(t) PROVE Sound'
<1>1. th[t] # Idle /\ Cur(t).pc = "ended" /\ Cur(t) \in Calls /\ InProbe(t) /\ Len(th[t]) = 2
      /\ Own(t) = th[t][2] /\ lock # t
  BY TopTyped, NotHolder DEF Probed, At, Sound, Holding
<1>2. StackOK(t) /\ OnceOK(t)
  BY <1>1 DEF Sound, ThreadsOK, ThreadOK
<1>3. PICK s : s = Tail(th[t])
  OBVIOUS
<1>4. s \in Seq(Calls) /\ Len(s) = 1 /\ s[1] = th[t][2] /\ Head(s) = th[t][2] /\ s # Idle
  <2>1. th[t] \in Seq(Calls)
    BY DEF Sound, TypeOK
  <2>2. s \in Seq(Calls) /\ Len(s) = 1 /\ s[1] = th[t][2]
    BY <1>1, <1>3, <2>1
  <2> QED BY <2>2
<1>5. /\ th'[t] = s /\ th' \in [Callers -> Seq(Calls)]
      /\ \A u \in Callers : u # t => th'[u] = th[u]
      /\ \A u \in Callers : Len(th'[u]) <= 2
  <2>1. th' = [th EXCEPT ![t] = s]
    BY <1>3 DEF Probed
  <2> QED BY <1>4, <2>1, Stacking
<1>6. UNCHANGED <<authVars, pastVars, up, witness, denied>>
  BY DEF Probed
<1>7. ThreadOK(t)' /\ RotationOK(t)'
  <2>1. Cur(t)' = th[t][2] /\ ~InProbe(t)' /\ th'[t] # Idle /\ Own(t)' = th[t][2]
    <3>1. Len(th'[t]) = 1 /\ th'[t][1] = th[t][2] /\ Head(th'[t]) = th[t][2] /\ th'[t] # Idle
      BY <1>4, <1>5
    <3>2. ~InProbe(t)'
      BY <3>1
    <3> QED BY <3>1, <3>2 DEF Own
  <2>2. th[t][2].pc = "check" /\ th[t][2].class # "probe" /\ CallOK(th[t][2], mode, refused)
    BY <1>1, <1>2 DEF StackOK
  <2>3. StackOK(t)'
    BY <1>1, <1>6, <2>1, <2>2 DEF StackOK, Holding
  <2>4. OnceOK(t)'
    BY <1>1, <1>2, <1>6, <2>1 DEF OnceOK
  <2>5. RotationOK(t)'
    BY <2>1, <2>2 DEF RotationOK, At
  <2> QED BY <2>1, <2>3, <2>4, <2>5 DEF ThreadOK
<1>8. ThreadsOK'
  BY <1>5, <1>6, <1>7, OtherKeeps DEF ThreadsOK
<1>9. ~At(t, "keep") /\ ~At(t, "keep")'
  <2>1. th[t][2].pc = "check"
    BY <1>1, <1>2 DEF StackOK
  <2> QED BY <1>1, <1>4, <1>5, <2>1 DEF At
<1>10. StoreOK'
  BY <1>5, <1>6, <1>9, StoreKeeps
<1>11. ShutOK'
  BY <1>1, <1>5, <1>6, ShutKeeps
<1>12. GateOK'
  BY <1>6 DEF Sound, GateOK
<1>13. probe' \in Probing
  BY <1>1 DEF Probed, Sound, TypeOK, Probing, Calls, Errors
<1>14. TypeOK'
  BY <1>5, <1>6, <1>13 DEF TypeOK, Sound
<1> QED BY <1>8, <1>10, <1>11, <1>12, <1>14 DEF Sound

\* A caller that has made no request begins one.
LEMMA BeginKeeps ==
    ASSUME Sound, NEW t \in Callers, NEW class \in Classes, Begin(t, class)
    PROVE  Sound'
<1>1. th[t] = Idle /\ lock # t
  BY DEF Begin, Sound, ThreadsOK, ThreadOK
<1>2. PICK c : c = IF class = "fresh" THEN [Call(class, "fresh") EXCEPT !.then = "ended"]
                   ELSE IF class \in {"login", "logout", "status"} THEN Call(class, class)
                   ELSE Call(class, "creds")
  OBVIOUS
<1>3. /\ c \in Calls /\ c.class # "probe" /\ c.pc \in {"fresh", "login", "logout", "status", "creds"}
      /\ c.pc = "fresh" => c.class = "fresh"
  <2>1. class \in AllClasses /\ class # "probe"
    BY DEF AllClasses
  <2>2. \A pc \in {"fresh", "login", "logout", "status", "creds"} :
            Call(class, pc) \in Calls /\ Call(class, pc).class = class /\ Call(class, pc).pc = pc
    BY <2>1, NoErrorTyped DEF Call, Calls, Tickets
  <2>3. [Call(class, "fresh") EXCEPT !.then = "ended"] \in Calls
        /\ [Call(class, "fresh") EXCEPT !.then = "ended"].class = class
        /\ [Call(class, "fresh") EXCEPT !.then = "ended"].pc = "fresh"
    BY <2>2 DEF Calls
  <2> QED BY <1>2, <2>1, <2>2, <2>3
<1>4. PICK s : s = <<c>>
  OBVIOUS
<1>5. s \in Seq(Calls) /\ Len(s) = 1 /\ s[1] = c /\ Head(s) = c /\ s # Idle
  BY <1>3, <1>4
<1>6. /\ th'[t] = s /\ th' \in [Callers -> Seq(Calls)]
      /\ \A u \in Callers : u # t => th'[u] = th[u]
      /\ \A u \in Callers : Len(th'[u]) <= 2
  <2>1. th' = [th EXCEPT ![t] = s]
    BY <1>2, <1>4 DEF Begin
  <2> QED BY <1>5, <2>1, Stacking
<1>7. /\ UNCHANGED <<authVars, probeVars, up, refused, wrong, unsaved, events>>
      /\ hits' \in [Callers -> Nat \cup {-1}] /\ hits'[t] = 0
      /\ \A u \in Callers : u # t => hits'[u] = hits[u]
  BY DEF Begin, Sound, TypeOK
<1>8. ThreadOK(t)' /\ RotationOK(t)'
  <2>1. Cur(t)' = c /\ ~InProbe(t)' /\ th'[t] # Idle /\ Own(t)' = c
    <3>1. Len(th'[t]) = 1 /\ th'[t][1] = c /\ Head(th'[t]) = c /\ th'[t] # Idle
      BY <1>5, <1>6
    <3>2. ~InProbe(t)'
      BY <3>1
    <3> QED BY <3>1, <3>2 DEF Own
  <2>2. CallOK(c, mode, refused) /\ ~Holding(c)
    BY <1>3 DEF CallOK, Holding
  <2>3. StackOK(t)'
    BY <1>1, <1>3, <1>7, <2>1, <2>2 DEF StackOK
  <2>4. OnceOK(t)'
    BY <1>7, <2>1 DEF OnceOK
  <2>5. RotationOK(t)'
    BY <1>3, <2>1 DEF RotationOK, At
  <2> QED BY <2>1, <2>3, <2>4, <2>5 DEF ThreadOK
<1>9. ThreadsOK'
  BY <1>6, <1>7, <1>8, OtherKeeps DEF ThreadsOK
<1>10. ~At(t, "keep") /\ ~At(t, "keep")'
  BY <1>1, <1>3, <1>5, <1>6 DEF At
<1>11. StoreOK'
  BY <1>6, <1>7, <1>10, StoreKeeps
<1>12. ShutOK'
  BY <1>1, <1>6, <1>7, ShutKeeps
<1>13. GateOK'
  BY <1>7 DEF Sound, GateOK
<1>14. TypeOK'
  BY <1>6, <1>7 DEF TypeOK, Sound
<1> QED BY <1>9, <1>11, <1>12, <1>13, <1>14 DEF Sound

-----------------------------------------------------------------------------
(* Under the mutex: what is loaded, what the gate lets through.             *)

\* A caller that is told an error which is no expiry, and does not hold the mutex.
LEMMA DenyMoves ==
    ASSUME Sound, NEW t \in Callers, th[t] # Idle, Cur(t).pc # "ended",
           NEW e \in Errors, e.kind # "token_expired", Denies(t, e) \/ Ends(t, e),
           mode' = mode, refused' = refused, hits' = hits, Others(t), lock' # t
    PROVE  (\E c : Moved(t, c) /\ c.pc # "keep") /\ ThreadsOK'
<1>1. PICK c \in Calls : Fate(t, c) /\ Becomes(t, c)
  BY Fated DEF Sound
<1>2. c.class = Cur(t).class /\ c.pc # "keep"
  BY <1>1 DEF Fate
<1>3. /\ InProbe(t) => hits'[t] = hits[t]
      /\ ~InProbe(t) /\ c.class \in {"write", "stream"} =>
             hits'[t] <= IF c.pc = "ended" THEN 1 ELSE 0
  BY <1>2, QuietHits
<1>4. Moved(t, c) /\ ThreadsOK'
  BY <1>1, <1>3, FateMoves
<1> QED BY <1>2, <1>4

\* The store's part, when the step was one of a call that neither was nor is saving.
LEMMA StoreKept ==
    ASSUME Sound, NEW t \in Callers, UNCHANGED <<mode, cred, loaded, store, unsaved>>,
           Cur(t).pc # "keep", NEW c, Moved(t, c), c.pc # "keep"
    PROVE  StoreOK'
<1>1. ~At(t, "keep") /\ ~At(t, "keep")'
  BY DEF Moved, At
<1> QED BY <1>1, StoreKeeps DEF Moved

\* In session mode nothing is said of the store but that it has no dates.
LEMMA StoreOfSession == ASSUME Sound, mode' = "session", store' = store PROVE StoreOK'
BY DEF Sound, StoreOK

\* The mutex is free: nobody holds it, and no other caller can tell who takes it.
LEMMA FreeForAll ==
    ASSUME NEW t \in Callers, lock = NoCaller, lock' \in {NoCaller, t}, hits' = hits
    PROVE  Others(t)
BY DEF Others

\* ensureLoaded: the store is read, or is not to be read and shuts the gate.
LEMMA LoadKeeps == ASSUME Sound, NEW t \in Callers, Load(t) PROVE Sound'
<1>1. /\ th[t] # Idle /\ Cur(t).pc \in {"creds", "stale", "fresh", "session"}
      /\ lock = NoCaller /\ ~loaded /\ lock # t
  BY DEF Load, At, Free
<1>2. /\ UNCHANGED <<mode, store, lock, probeVars, up, pastVars>> /\ store \in Cred /\ gate \in Gate
      /\ ~store.dated /\ GateOK
  BY DEF Load, Sound, TypeOK, StoreOK
<1>3. ShutOK'
  <2>1. ~(mode = "session" /\ wrong)
    BY <1>1 DEF Sound, ShutOK
  <2> QED BY <1>2, <2>1 DEF ShutOK
<1>4. CASE loaded' = TRUE /\ cred' = store /\ th' = th
           /\ gate' \in {[gate EXCEPT !.state = "authenticated"], [gate EXCEPT !.state = "not_configured"]}
  <2>1. \A u \in Callers : lock # u
    BY <1>1
  <2>2. ThreadsOK'
    BY <1>2, <1>4, <2>1, OtherKeeps DEF ThreadsOK
  <2>3. store = Stored(store)
    BY <1>2 DEF Stored, Cred
  <2>4. \A u \in Callers : ~At(u, "keep")
    BY <2>1, HolderKnown
  <2>5. StoreOK'
    BY <1>2, <1>4, <2>3, <2>4 DEF StoreOK, At
  <2>6. gate' \in Gate /\ GateOK'
    BY <1>2, <1>4 DEF Gate, GateOK, AuthStates
  <2>7. TypeOK'
    BY <1>2, <1>4, <2>6 DEF TypeOK, Sound
  <2> QED BY <1>3, <2>2, <2>5, <2>6, <2>7 DEF Sound
<1>5. CASE terminal("keystore_unavailable", Local("keystore_unavailable")) /\ UNCHANGED <<loaded, cred>>
           /\ Denies(t, Local("keystore_unavailable"))
  <2>1. Local("keystore_unavailable") \in Errors
        /\ Local("keystore_unavailable").kind = "keystore_unavailable"
    BY LocalTyped DEF Kinds
  <2>2. Others(t)
    BY <1>1, <1>2, FreeForAll
  <2>3. PICK c : Moved(t, c) /\ c.pc # "keep" /\ ThreadsOK'
    BY <1>1, <1>2, <1>5, <2>1, <2>2, DenyMoves
  <2>4. StoreOK'
    BY <1>1, <1>2, <1>5, <2>3, StoreKept
  <2>5. gate' \in Gate /\ GateOK'
    BY <1>5, <2>1 DEF terminal, Gate, GateOK, AuthStates
  <2>6. TypeOK'
    BY <1>2, <1>5, <2>3, <2>5 DEF TypeOK, Sound, Moved
  <2> QED BY <1>3, <2>3, <2>4, <2>5, <2>6 DEF Sound
<1> QED BY <1>4, <1>5 DEF Load

\* renewLocked: the gate is shut and says why, or the mutex is taken.
LEMMA RenewMoves ==
    ASSUME Sound, NEW t \in Callers, th[t] # Idle, Cur(t).pc \in {"creds", "stale", "fresh"},
           lock = NoCaller, NEW c \in Cred, Renews(t, c),
           mode' = mode, refused' = refused, hits' = hits,
           mode = "session" => loaded' /\ cred'.ticket = 0,
           RefreshUsable(c) /\ Cur(t).class \notin {"chunk", "fresh"} =>
               cred'.age # "new" \/ cred'.ticket \in refused
    PROVE  /\ \E d : Moved(t, d) /\ d.pc # "keep"
           /\ ThreadsOK' /\ gate' \in Gate /\ GateOK' /\ lock' \in Callers \cup {NoCaller}
           /\ blocked(gate) => gate' = gate /\ lock' = lock
<1>1. gate \in Gate /\ gate.err \in Errors /\ gate.err.kind # "token_expired" /\ Cur(t) \in Calls
      /\ Cur(t).pc # "ended" /\ lock # t
  BY TopTyped DEF Sound, TypeOK, Gate, GateOK
<1>2. CASE blocked(gate)
  <2>1. Denies(t, gate.err) /\ UNCHANGED <<gate, lock>>
    BY <1>2 DEF Renews
  <2>2. Others(t)
    BY <2>1, FreeForAll
  <2>3. (\E d : Moved(t, d) /\ d.pc # "keep") /\ ThreadsOK'
    BY <1>1, <2>1, <2>2, DenyMoves
  <2> QED BY <1>1, <2>1, <2>3 DEF GateOK
<1>3. CASE ~blocked(gate)
  <2>1. PICK pc : pc = IF RefreshUsable(c) THEN "refresh" ELSE "password"
    OBVIOUS
  <2>2. PICK d : d = [Cur(t) EXCEPT !.pc = pc, !.way = "renew"]
    OBVIOUS
  <2>3. lock' = t /\ gate' = [gate EXCEPT !.state = "refreshing"] /\ Becomes(t, d)
    BY <1>3, <2>1, <2>2 DEF Renews
  <2>4. d \in Calls /\ d.class = Cur(t).class /\ d.pc = pc /\ d.way = "renew"
    BY <1>1, <2>1, <2>2 DEF Calls
  <2>5. CallOK(d, mode, refused') /\ Holding(d)
    BY <2>1, <2>4 DEF CallOK, Holding, RefreshUsable
  <2>6. Others(t)
    BY <2>3, FreeForAll
  <2>7. Moved(t, d) /\ ThreadsOK'
    BY <1>1, <2>1, <2>3, <2>4, <2>5, <2>6, ThreadMoves, QuietHits
  <2>8. gate' \in Gate /\ GateOK'
    BY <1>1, <2>3 DEF Gate, GateOK, AuthStates
  <2> QED BY <1>3, <2>1, <2>3, <2>4, <2>7, <2>8
<1> QED BY <1>2, <1>3

\* Nothing is known of the account.
LEMMA UnconfiguredMoves ==
    ASSUME Sound, NEW t \in Callers, th[t] # Idle, Cur(t).pc # "ended", lock = NoCaller,
           Unconfigured(t), mode' = mode, refused' = refused, hits' = hits, wrong' = wrong, loaded' = loaded
    PROVE  /\ \E d : Moved(t, d) /\ d.pc # "keep"
           /\ ThreadsOK' /\ gate' \in Gate /\ GateOK' /\ ShutOK'
<1>1. gate \in Gate /\ GateOK /\ cred \in Cred /\ lock # t
  BY DEF Sound, TypeOK
<1>2. gate' = [gate EXCEPT !.state = "not_configured"] /\ UNCHANGED <<cred, lock>>
      /\ Denies(t, Local("reauth_required")) /\ ~Known(cred)
  BY DEF Unconfigured
<1>3. Local("reauth_required") \in Errors /\ Local("reauth_required").kind = "reauth_required"
  BY LocalTyped DEF Kinds
<1>4. Others(t)
  BY <1>2, FreeForAll
<1>5. (\E d : Moved(t, d) /\ d.pc # "keep") /\ ThreadsOK'
  BY <1>1, <1>2, <1>3, <1>4, DenyMoves
<1>6. gate' \in Gate /\ GateOK'
  BY <1>1, <1>2 DEF Gate, GateOK, AuthStates
<1>7. cred.pw = "none"
  BY <1>1, <1>2 DEF Known, Cred
<1>8. ShutOK'
  BY <1>2, <1>7 DEF Sound, ShutOK
<1> QED BY <1>5, <1>6, <1>8

\* Whoever finds something to renew with, and a refused password, finds the gate shut.
LEMMA ShutWhenKnown ==
    ASSUME Sound, lock = NoCaller, Known(cred), mode' = mode, wrong' = wrong, loaded' = loaded,
           cred'.pw = cred.pw, cred'.ticket \in {0, cred.ticket},
           blocked(gate) => gate' = gate /\ lock' = lock
    PROVE  ShutOK'
<1>1. SUFFICES ASSUME mode = "session", wrong
               PROVE  /\ loaded' /\ cred'.ticket = 0 /\ lock' = NoCaller
                      /\ gate'.state \in Stopping
  BY DEF ShutOK
<1>2. loaded /\ cred.ticket = 0 /\ (cred.pw = "none" \/ gate.state \in Stopping)
  BY <1>1 DEF Sound, ShutOK
<1>3. gate.state \in Stopping
  BY <1>2 DEF Known
<1> QED BY <1>2, <1>3 DEF blocked

\* What remains to be shown of a step under the mutex.
LEMMA Gated ==
    ASSUME Sound, NEW t \in Callers, Cur(t).pc # "keep", \E d : Moved(t, d) /\ d.pc # "keep",
           ThreadsOK', GateOK', ShutOK', gate' \in Gate, lock' \in Callers \cup {NoCaller},
           cred' \in Cred, cred' = cred \/ mode = "session",
           UNCHANGED <<mode, loaded, store, probeVars, up, pastVars>>
    PROVE  Sound'
<1>1. PICK d : Moved(t, d) /\ d.pc # "keep"
  OBVIOUS
<1>2. StoreOK'
  <2>1. CASE cred' = cred
    BY <1>1, <2>1, StoreKept
  <2>2. CASE mode = "session"
    BY <2>2, StoreOfSession
  <2> QED BY <2>1, <2>2
<1>3. TypeOK'
  BY <1>1 DEF TypeOK, Sound, Moved
<1> QED BY <1>2, <1>3 DEF Sound

\* Credentials: what a call is sent with, or a renewal of what is due.
LEMMA CredentialsKeeps == ASSUME Sound, NEW t \in Callers, Credentials(t) PROVE Sound'
<1>1. /\ th[t] # Idle /\ Cur(t).pc = "creds" /\ Cur(t) \in Calls /\ lock = NoCaller
      /\ lock # t /\ cred \in Cred /\ gate \in Gate /\ GateOK /\ loaded
      /\ UNCHANGED <<mode, loaded, store, probeVars, up, pastVars>>
  BY TopTyped DEF Credentials, Ready, At, Free, Sound, TypeOK
<1>2. CASE Unconfigured(t)
  <2>1. (\E d : Moved(t, d) /\ d.pc # "keep") /\ ThreadsOK' /\ gate' \in Gate /\ GateOK' /\ ShutOK'
    BY <1>1, <1>2, UnconfiguredMoves
  <2> QED BY <1>1, <1>2, <2>1, Gated DEF Unconfigured
<1>3. CASE Known(cred) /\ NeedsRefresh(cred) /\ Renews(t, cred) /\ UNCHANGED cred
  <2>1. RefreshUsable(cred) => cred.age # "new"
    BY <1>3 DEF RefreshUsable, NeedsRefresh
  <2>2. mode = "session" => loaded' /\ cred'.ticket = 0
    BY <1>1, <1>3 DEF NeedsRefresh
  <2>3. /\ \E d : Moved(t, d) /\ d.pc # "keep"
        /\ ThreadsOK' /\ gate' \in Gate /\ GateOK' /\ lock' \in Callers \cup {NoCaller}
        /\ blocked(gate) => gate' = gate /\ lock' = lock
    BY <1>1, <1>3, <2>1, <2>2, RenewMoves
  <2>4. ShutOK'
    BY <1>1, <1>3, <2>3, ShutWhenKnown
  <2> QED BY <1>1, <1>3, <2>3, <2>4, Gated
<1>4. CASE /\ Known(cred) /\ ~NeedsRefresh(cred)
           /\ gate' = IF gate.state = "authenticated" THEN gate ELSE Signed
           /\ Becomes(t, [Cur(t) EXCEPT !.used = cred.ticket,
                 !.pc = IF mode = "oauth2" /\ Cur(t).class = "chunk" THEN "session" ELSE "call"])
           /\ UNCHANGED <<cred, lock>>
  <2>1. PICK pc : pc = IF mode = "oauth2" /\ Cur(t).class = "chunk" THEN "session" ELSE "call"
    OBVIOUS
  <2>2. PICK d : d = [Cur(t) EXCEPT !.used = cred.ticket, !.pc = pc]
    OBVIOUS
  <2>3. Becomes(t, d)
    BY <1>4, <2>1, <2>2
  <2>4. cred.ticket \in Tickets /\ cred.ticket # 0
    BY <1>1, <1>4 DEF Cred, NeedsRefresh
  <2>5. d \in Calls /\ d.class = Cur(t).class /\ d.pc = pc /\ d.used # 0
    BY <1>1, <2>1, <2>2, <2>4 DEF Calls
  <2>6. CallOK(d, mode, refused') /\ ~Holding(d)
    BY <2>1, <2>5 DEF CallOK, Holding
  <2>7. Others(t)
    BY <1>1, <1>4, FreeForAll
  <2>8. Moved(t, d) /\ ThreadsOK'
    BY <1>1, <1>4, <2>1, <2>3, <2>5, <2>6, <2>7, ThreadMoves, QuietHits
  <2>9. gate' \in Gate /\ GateOK'
    BY <1>1, <1>4, NoErrorTyped DEF Gate, GateOK, Signed, NoGate, AuthStates
  <2>10. ShutOK'
    <3>1. ~(mode = "session" /\ wrong)
      BY <2>4 DEF Sound, ShutOK
    <3> QED BY <1>1, <3>1 DEF ShutOK
  <2> QED BY <1>1, <1>4, <2>1, <2>5, <2>8, <2>9, <2>10, Gated
<1> QED BY <1>2, <1>3, <1>4 DEF Credentials

\* OAuth2.RefreshStale: a token that others have replaced is spared.
LEMMA RefreshStaleKeeps == ASSUME Sound, NEW t \in Callers, RefreshStale(t) PROVE Sound'
<1>1. /\ th[t] # Idle /\ Cur(t).pc = "stale" /\ Cur(t) \in Calls /\ lock = NoCaller
      /\ lock # t /\ cred \in Cred /\ cred' = cred /\ mode = "oauth2"
      /\ UNCHANGED <<mode, loaded, store, probeVars, up, pastVars>>
  BY TopTyped DEF RefreshStale, Ready, At, Free, Sound, TypeOK
<1>2. CASE Becomes(t, [Cur(t) EXCEPT !.then = "call", !.used = 0, !.pc = "creds"])
           /\ UNCHANGED <<gate, lock>>
  <2>1. PICK d : d = [Cur(t) EXCEPT !.then = "call", !.used = 0, !.pc = "creds"]
    OBVIOUS
  <2>2. d \in Calls /\ d.class = Cur(t).class /\ d.pc = "creds"
    <3>1. 0 \in Tickets
      BY DEF Tickets
    <3> QED BY <1>1, <2>1, <3>1 DEF Calls
  <2>3. CallOK(d, mode, refused') /\ ~Holding(d)
    BY <2>2 DEF CallOK, Holding
  <2>4. Moved(t, d) /\ GateOK' /\ StoreOK' /\ ShutOK' /\ ThreadsOK'
    BY <1>1, <1>2, <2>1, <2>2, <2>3, QuietMoves, QuietHits
  <2>5. TypeOK'
    BY <1>1, <1>2, <2>4 DEF TypeOK, Sound, Moved
  <2> QED BY <2>4, <2>5 DEF Sound
<1>3. CASE Unconfigured(t)
  <2>1. (\E d : Moved(t, d) /\ d.pc # "keep") /\ ThreadsOK' /\ gate' \in Gate /\ GateOK' /\ ShutOK'
    BY <1>1, <1>3, UnconfiguredMoves
  <2> QED BY <1>1, <1>3, <2>1, Gated DEF Unconfigured
<1>4. CASE (Cur(t).used = 0 \/ cred.ticket \in {0, Cur(t).used}) /\ Known(cred) /\ Renews(t, cred)
  <2>1. CallOK(Cur(t), mode, refused)
    BY <1>1 DEF Sound, ThreadsOK, ThreadOK, StackOK
  <2>2. RefreshUsable(cred) /\ Cur(t).class \notin {"chunk", "fresh"} => cred.ticket \in refused
    BY <1>1, <1>4, <2>1 DEF RefreshUsable, CallOK
  <2>3. /\ \E d : Moved(t, d) /\ d.pc # "keep"
        /\ ThreadsOK' /\ gate' \in Gate /\ GateOK' /\ lock' \in Callers \cup {NoCaller}
        /\ blocked(gate) => gate' = gate /\ lock' = lock
    BY <1>1, <1>4, <2>2, RenewMoves
  <2>4. ShutOK'
    BY <1>1, <1>4, <2>3, ShutWhenKnown
  <2> QED BY <1>1, <2>3, <2>4, Gated
<1> QED BY <1>2, <1>3, <1>4 DEF RefreshStale

\* A session that is given up is one no longer.
LEMMA Dropped == ASSUME NEW c \in Cred PROVE /\ [c EXCEPT !.ticket = 0] \in Cred
                                             /\ [c EXCEPT !.ticket = 0].ticket = 0
                                             /\ [c EXCEPT !.ticket = 0].pw = c.pw
BY DEF Cred, Tickets

\* A renewal of a session that is given up, by whichever way it comes to that.
LEMMA DropKeeps ==
    ASSUME Sound, NEW t \in Callers, th[t] # Idle, Cur(t).pc \in {"stale", "fresh"}, lock = NoCaller,
           loaded, mode = "session", Known(cred), cred' = [cred EXCEPT !.ticket = 0], Renews(t, cred'),
           UNCHANGED <<mode, loaded, store, probeVars, up, pastVars>>
    PROVE  Sound'
<1>1. cred' \in Cred /\ cred'.ticket = 0 /\ cred'.pw = cred.pw
  BY Dropped DEF Sound, TypeOK
<1>2. PICK c \in Cred : c = cred' /\ Renews(t, c) /\ ~RefreshUsable(c)
  BY <1>1 DEF RefreshUsable
<1>3. /\ \E d : Moved(t, d) /\ d.pc # "keep"
      /\ ThreadsOK' /\ gate' \in Gate /\ GateOK' /\ lock' \in Callers \cup {NoCaller}
      /\ blocked(gate) => gate' = gate /\ lock' = lock
  BY <1>2, RenewMoves
<1>4. ShutOK'
  BY <1>1, <1>3, ShutWhenKnown
<1> QED BY <1>1, <1>3, <1>4, Gated

\* SessionAuth's Refresh gives it up whoever has renewed it.
LEMMA RefreshKeeps == ASSUME Sound, NEW t \in Callers, Refresh(t) PROVE Sound'
<1>1. /\ th[t] # Idle /\ Cur(t).pc = "stale" /\ lock = NoCaller /\ mode = "session" /\ cred \in Cred /\ loaded
      /\ UNCHANGED <<mode, loaded, store, probeVars, up, pastVars>>
  BY DEF Refresh, Ready, At, Free, Sound, TypeOK
<1>2. CASE Unconfigured(t)
  <2>1. (\E d : Moved(t, d) /\ d.pc # "keep") /\ ThreadsOK' /\ gate' \in Gate /\ GateOK' /\ ShutOK'
    BY <1>1, <1>2, UnconfiguredMoves
  <2> QED BY <1>1, <1>2, <2>1, Gated DEF Unconfigured
<1>3. CASE Known(cred) /\ cred' = [cred EXCEPT !.ticket = 0] /\ Renews(t, cred')
  BY <1>1, <1>3, DropKeeps
<1> QED BY <1>2, <1>3 DEF Refresh

\* EnsureFresh in oauth2 mode: nothing to do, or a renewal ahead of time.
LEMMA EnsureFreshKeeps == ASSUME Sound, NEW t \in Callers, EnsureFresh(t) PROVE Sound'
<1>1. /\ th[t] # Idle /\ Cur(t).pc = "fresh" /\ lock = NoCaller /\ lock # t /\ mode = "oauth2"
      /\ cred \in Cred /\ gate \in Gate /\ GateOK
      /\ UNCHANGED <<mode, loaded, store, probeVars, up, pastVars>>
  BY DEF EnsureFresh, Ready, At, Free, Sound, TypeOK
<1>2. CASE Unconfigured(t)
  <2>1. (\E d : Moved(t, d) /\ d.pc # "keep") /\ ThreadsOK' /\ gate' \in Gate /\ GateOK' /\ ShutOK'
    BY <1>1, <1>2, UnconfiguredMoves
  <2> QED BY <1>1, <1>2, <2>1, Gated DEF Unconfigured
<1>3. CASE Ends(t, NoError) /\ UNCHANGED <<cred, gate, lock>>
  <2>1. Others(t)
    BY <1>1, <1>3, FreeForAll
  <2>2. (\E d : Moved(t, d) /\ d.pc # "keep") /\ ThreadsOK'
    BY <1>1, <1>3, <2>1, DenyMoves, NoErrorTyped
  <2>3. ShutOK' /\ GateOK'
    BY <1>1, <1>3 DEF ShutOK, GateOK
  <2> QED BY <1>1, <1>3, <2>2, <2>3, Gated
<1>4. CASE Known(cred) /\ Renews(t, cred) /\ UNCHANGED cred
  <2>1. Cur(t).class = "fresh"
    BY <1>1 DEF Sound, ThreadsOK, ThreadOK, StackOK, CallOK
  <2>2. /\ \E d : Moved(t, d) /\ d.pc # "keep"
        /\ ThreadsOK' /\ gate' \in Gate /\ GateOK' /\ lock' \in Callers \cup {NoCaller}
        /\ blocked(gate) => gate' = gate /\ lock' = lock
    BY <1>1, <1>4, <2>1, RenewMoves
  <2>3. ShutOK'
    BY <1>1 DEF ShutOK
  <2> QED BY <1>1, <1>4, <2>2, <2>3, Gated
<1> QED BY <1>2, <1>3, <1>4 DEF EnsureFresh

\* And in session mode: the session is good, or it goes.
LEMMA EnsureSessionKeeps == ASSUME Sound, NEW t \in Callers, EnsureSession(t) PROVE Sound'
<1>1. /\ th[t] # Idle /\ Cur(t).pc = "fresh" /\ lock = NoCaller /\ lock # t /\ mode = "session"
      /\ cred \in Cred /\ loaded
      /\ UNCHANGED <<mode, loaded, store, probeVars, up, pastVars>>
  BY DEF EnsureSession, Ready, At, Free, Sound, TypeOK
<1>2. CASE Unconfigured(t)
  <2>1. (\E d : Moved(t, d) /\ d.pc # "keep") /\ ThreadsOK' /\ gate' \in Gate /\ GateOK' /\ ShutOK'
    BY <1>1, <1>2, UnconfiguredMoves
  <2> QED BY <1>1, <1>2, <2>1, Gated DEF Unconfigured
<1>3. CASE cred.ticket # 0 /\ Ends(t, NoError) /\ gate' = Signed /\ UNCHANGED <<cred, lock>>
  <2>1. Others(t)
    BY <1>1, <1>3, FreeForAll
  <2>2. (\E d : Moved(t, d) /\ d.pc # "keep") /\ ThreadsOK'
    BY <1>1, <1>3, <2>1, DenyMoves, NoErrorTyped
  <2>3. gate' \in Gate /\ GateOK'
    BY <1>3, NoErrorTyped DEF Gate, GateOK, Signed, NoGate, AuthStates
  <2>4. ShutOK'
    <3>1. ~wrong
      BY <1>1, <1>3 DEF Sound, ShutOK
    <3> QED BY <1>1, <3>1 DEF ShutOK
  <2> QED BY <1>1, <1>3, <2>2, <2>3, <2>4, Gated
<1>4. CASE Known(cred) /\ cred' = [cred EXCEPT !.ticket = 0] /\ Renews(t, cred')
  BY <1>1, <1>4, DropKeeps
<1> QED BY <1>2, <1>3, <1>4 DEF EnsureSession

-----------------------------------------------------------------------------
(* What is saved, and what is taken back.                                   *)

\* The credentials a renewal, a mint or a login makes.
LEMMA AdoptedTyped ==
    ASSUME Sound, NEW t \in Callers, th[t] # Idle
    PROVE  Adopted(t) \in Cred /\ Stored(Adopted(t)) \in Cred /\ ~Stored(Adopted(t)).dated
<1>1. Cur(t) \in Calls /\ cred \in Cred
  BY TopTyped DEF Sound, TypeOK
<1>2. Cur(t).got \in Tickets /\ Cur(t).way \in {"renew", "mint", "login", "guest"}
  BY <1>1 DEF Calls
<1>3. CASE Cur(t).way = "renew"
  <2>1. Adopted(t) = [cred EXCEPT !.ticket = Cur(t).got, !.age = "new", !.dated = TRUE]
    BY <1>3 DEF Adopted
  <2>2. Adopted(t) \in Cred
    BY <1>1, <1>2, <2>1 DEF Cred
  <2> QED BY <2>2 DEF Stored, Cred
<1>4. CASE Cur(t).way = "mint"
  <2>1. Adopted(t) = [cred EXCEPT !.sess = Cur(t).got]
    BY <1>4 DEF Adopted
  <2>2. Adopted(t) \in Cred
    BY <1>1, <1>2, <2>1 DEF Cred
  <2> QED BY <2>2 DEF Stored, Cred
<1>5. CASE Cur(t).way \in {"login", "guest"}
  <2>1. PICK pw \in {"kept", "none"} : pw = IF Cur(t).way = "login" THEN "kept" ELSE "none"
    OBVIOUS
  <2>2. Adopted(t) = [NoCred EXCEPT !.ticket = Cur(t).got, !.dated = TRUE, !.pw = pw]
    BY <1>5, <2>1 DEF Adopted
  <2>3. NoCred \in Cred
    BY DEF NoCred, Cred, Tickets
  <2>4. Adopted(t) \in Cred
    BY <1>2, <2>2, <2>3 DEF Cred
  <2> QED BY <2>4 DEF Stored, Cred
<1> QED BY <1>2, <1>3, <1>4, <1>5

\* The first half of adopt: the store has it, or a failure was logged.
LEMMA SaveKeeps == ASSUME Sound, NEW t \in Callers, Save(t) PROVE Sound'
<1>1. /\ th[t] # Idle /\ Cur(t).pc = "save" /\ Cur(t) \in Calls
      /\ lock = (IF Cur(t).way = "renew" THEN t ELSE NoCaller)
      /\ UNCHANGED <<mode, cred, loaded, gate, probeVars, up, hits, refused, wrong, events>>
  BY TopTyped DEF Save, At, Sound
<1>2. StackOK(t) /\ CallOK(Cur(t), mode, refused)
  BY <1>1 DEF Sound, ThreadsOK, ThreadOK, StackOK
<1>3. Cur(t).got # 0 /\ (Cur(t).way = "mint" => Cur(t).class = "chunk" /\ mode = "oauth2")
  BY <1>1, <1>2 DEF CallOK
<1>4. CASE /\ Cur(t).way = "mint" /\ UNCHANGED <<store, unsaved, lock>>
           /\ Becomes(t, [Cur(t) EXCEPT !.sess = Cur(t).got, !.used = 0, !.got = 0, !.pc = "call"])
  <2>1. PICK d : d = [Cur(t) EXCEPT !.sess = Cur(t).got, !.used = 0, !.got = 0, !.pc = "call"]
    OBVIOUS
  <2>2. d \in Calls /\ d.class = Cur(t).class /\ d.pc = "call"
    <3>1. 0 \in Tickets /\ Cur(t).got \in Tickets
      BY <1>1 DEF Tickets, Calls
    <3> QED BY <1>1, <2>1, <3>1 DEF Calls
  <2>3. CallOK(d, mode, refused') /\ ~Holding(d)
    BY <1>3, <1>4, <2>2 DEF CallOK, Holding
  <2>4. lock # t
    BY <1>1, <1>4
  <2>5. Moved(t, d) /\ GateOK' /\ StoreOK' /\ ShutOK' /\ ThreadsOK'
    BY <1>1, <1>4, <2>1, <2>2, <2>3, <2>4, QuietMoves, QuietHits
  <2>6. TypeOK'
    BY <1>1, <1>4, <2>5 DEF TypeOK, Sound, Moved
  <2> QED BY <2>5, <2>6 DEF Sound
<1>5. CASE Written(Adopted(t)) /\ lock' = t /\ Goto(t, "keep")
  <2>1. PICK d : d = [Cur(t) EXCEPT !.pc = "keep"]
    OBVIOUS
  <2>2. d \in Calls /\ d.class = Cur(t).class /\ d.pc = "keep" /\ d.got = Cur(t).got /\ d.way = Cur(t).way
    BY <1>1, <2>1 DEF Calls
  <2>3. Becomes(t, d)
    BY <1>5, <2>1 DEF Goto
  <2>4. CallOK(d, mode, refused') /\ Holding(d)
    BY <1>3, <2>2 DEF CallOK, Holding
  <2>5. \A u \in Callers : u # t => lock # u
    BY <1>1
  <2>6. Others(t)
    BY <1>1, <1>5, <2>5 DEF Others
  <2>7. mode = "session" => \/ d.pc = "keep" /\ d.way \in {"login", "guest"}
                            \/ loaded' /\ cred'.ticket = 0
    <3>1. CASE Cur(t).way = "renew"
      BY <1>1, <1>2, <3>1 DEF StackOK, Signing, At
    <3>2. CASE Cur(t).way # "renew"
      BY <1>1, <1>3, <2>2, <3>2 DEF Calls
    <3> QED BY <3>1, <3>2
  <2>8. Moved(t, d) /\ ThreadsOK'
    BY <1>1, <1>5, <2>2, <2>3, <2>4, <2>6, <2>7, ThreadMoves, QuietHits
  <2>9. th'[t] # Idle /\ Cur(t)' = d /\ \A u \in Callers : u # t => th'[u] = th[u]
    BY <2>8 DEF Moved
  <2>10. \A u \in Callers : At(u, "keep")' => u = t
    BY <2>5, <2>9, HolderKnown DEF At
  <2>11. Adopted(t)' = Adopted(t)
    BY <1>1, <2>2, <2>9 DEF Adopted
  <2>12. store' \in {store, Stored(Adopted(t))} /\ (store' = Stored(Adopted(t)) \/ unsaved')
         /\ unsaved' \in BOOLEAN
    BY <1>5 DEF Written, LeftBy, Sound, TypeOK
  <2>13. store' \in Cred /\ ~store'.dated
    BY <1>1, <2>12, AdoptedTyped DEF Sound, TypeOK, StoreOK
  <2>14. StoreOK'
    BY <2>2, <2>9, <2>10, <2>11, <2>12, <2>13 DEF StoreOK, At
  <2>15. ShutOK'
    <3>1. SUFFICES ASSUME mode = "session", wrong
                   PROVE  loaded /\ cred.ticket = 0 /\ Signing(t)'
      BY <1>1, <1>5 DEF ShutOK
    <3>2. loaded /\ cred.ticket = 0 /\ (lock = t => Condemned(t) \/ Signing(t))
      BY <3>1 DEF Sound, ShutOK
    <3>3. lock # t
      BY <1>1, <3>2 DEF Condemned, Signing, At
    <3>4. Cur(t).way \in {"login", "guest"}
      BY <1>1, <1>3, <3>1, <3>3 DEF Calls
    <3> QED BY <2>2, <2>9, <3>2, <3>4 DEF Signing, At
  <2>16. GateOK'
    BY <1>1 DEF Sound, GateOK
  <2>17. TypeOK'
    BY <1>1, <1>5, <2>8, <2>12, <2>13 DEF TypeOK, Sound, Moved
  <2> QED BY <2>8, <2>14, <2>15, <2>16, <2>17 DEF Sound
<1> QED BY <1>4, <1>5 DEF Save

\* The second half: memory has it too, and the call goes on with it.
LEMMA KeepKeeps == ASSUME Sound, NEW t \in Callers, Keep(t) PROVE Sound'
<1>1. /\ th[t] # Idle /\ Cur(t).pc = "keep" /\ Cur(t) \in Calls /\ lock = t
      /\ cred' = Adopted(t) /\ loaded' = TRUE /\ lock' = NoCaller
      /\ gate' \in {gate, Signed} /\ wrong' = (wrong /\ Cur(t).way \notin {"login", "guest"})
      /\ UNCHANGED <<mode, store, probeVars, up, hits, refused, unsaved, events>>
  BY TopTyped, HolderKnown DEF Keep, At, Sound
<1>2. CallOK(Cur(t), mode, refused)
  BY <1>1 DEF Sound, ThreadsOK, ThreadOK, StackOK
<1>3. /\ Cur(t).got # 0 /\ (Cur(t).way = "mint" => Cur(t).class = "chunk" /\ mode = "oauth2")
      /\ 0 \in Tickets /\ Cur(t).got \in Tickets
  BY <1>1, <1>2 DEF CallOK, Tickets, Calls
<1>4. \E d \in Calls : /\ d.class = Cur(t).class /\ d.pc \in {"call", "session", "ended", "creds"}
                       /\ d.pc = "session" => d.class = "chunk" /\ mode = "oauth2"
                       /\ d.pc = "call" /\ d.class # "chunk" => d.used # 0
                       /\ Becomes(t, d)
  <2>1. CASE /\ Cur(t).way = "mint"
             /\ Becomes(t, [Cur(t) EXCEPT !.sess = Cur(t).got, !.used = 0, !.got = 0, !.pc = "call"])
    <3>1. PICK d : d = [Cur(t) EXCEPT !.sess = Cur(t).got, !.used = 0, !.got = 0, !.pc = "call"]
      OBVIOUS
    <3>2. d \in Calls /\ d.class = Cur(t).class /\ d.pc = "call"
      BY <1>1, <1>3, <3>1 DEF Calls
    <3> QED BY <1>3, <2>1, <3>1, <3>2
  <2>2. CASE Ends(t, NoError)
    <3>1. Becomes(t, Over(Cur(t), NoError))
      BY <2>2 DEF Ends
    <3>2. Over(Cur(t), NoError) \in Calls /\ Over(Cur(t), NoError).class = Cur(t).class
          /\ Over(Cur(t), NoError).pc = "ended"
      BY <1>1, OverTyped, NoErrorTyped
    <3> QED BY <3>1, <3>2
  <2>3. CASE /\ Cur(t).class = "chunk" /\ mode = "oauth2"
             /\ Becomes(t, [Cur(t) EXCEPT !.got = 0, !.pc = "session"])
    <3>1. PICK d : d = [Cur(t) EXCEPT !.got = 0, !.pc = "session"]
      OBVIOUS
    <3>2. d \in Calls /\ d.class = Cur(t).class /\ d.pc = "session"
      BY <1>1, <1>3, <3>1 DEF Calls
    <3> QED BY <2>3, <3>1, <3>2
  <2>4. CASE Becomes(t, [Cur(t) EXCEPT !.then = "call", !.got = 0, !.used = 0, !.pc = "creds"])
    <3>1. PICK d : d = [Cur(t) EXCEPT !.then = "call", !.got = 0, !.used = 0, !.pc = "creds"]
      OBVIOUS
    <3>2. d \in Calls /\ d.class = Cur(t).class /\ d.pc = "creds"
      BY <1>1, <1>3, <3>1 DEF Calls
    <3> QED BY <2>4, <3>1, <3>2
  <2>5. CASE Becomes(t, [Cur(t) EXCEPT !.used = Cur(t).got, !.got = 0, !.pc = "call"])
    <3>1. PICK d : d = [Cur(t) EXCEPT !.used = Cur(t).got, !.got = 0, !.pc = "call"]
      OBVIOUS
    <3>2. d \in Calls /\ d.class = Cur(t).class /\ d.pc = "call" /\ d.used # 0
      BY <1>1, <1>3, <3>1 DEF Calls
    <3> QED BY <2>5, <3>1, <3>2
  <2> QED BY <2>1, <2>2, <2>3, <2>4, <2>5 DEF Keep
<1>5. PICK d \in Calls : /\ d.class = Cur(t).class /\ d.pc \in {"call", "session", "ended", "creds"}
                         /\ d.pc = "session" => d.class = "chunk" /\ mode = "oauth2"
                         /\ d.pc = "call" /\ d.class # "chunk" => d.used # 0
                         /\ Becomes(t, d)
  BY <1>4
<1>6. CallOK(d, mode, refused') /\ ~Holding(d)
  BY <1>5 DEF CallOK, Holding
<1>7. \A u \in Callers : u # t => lock # u
  BY <1>1
<1>8. Others(t)
  BY <1>1, <1>7 DEF Others
<1>9. Moved(t, d) /\ ThreadsOK'
  BY <1>1, <1>5, <1>6, <1>8, ThreadMoves, QuietHits
<1>10. \A u \in Callers : ~At(u, "keep")'
  BY <1>5, <1>7, <1>9, HolderKnown DEF At, Moved
<1>11. StoreOK'
  <2>1. mode = "oauth2" /\ ~unsaved => store = Stored(Adopted(t))
    BY <1>1 DEF Sound, StoreOK, At
  <2>2. ~store.dated
    BY DEF Sound, StoreOK
  <2> QED BY <1>1, <1>10, <2>1, <2>2 DEF StoreOK
<1>12. ShutOK'
  <2>1. mode = "session" /\ wrong => Signing(t)
    BY <1>1 DEF Sound, ShutOK, Condemned, At
  <2> QED BY <1>1, <2>1 DEF ShutOK, Signing
<1>13. gate' \in Gate /\ GateOK'
  BY <1>1, NoErrorTyped DEF Gate, GateOK, Signed, NoGate, AuthStates, Sound, TypeOK
<1>14. cred' \in Cred
  BY <1>1, AdoptedTyped
<1>15. wrong' \in BOOLEAN
  BY <1>1 DEF Sound, TypeOK
<1>16. TypeOK'
  BY <1>1, <1>9, <1>13, <1>14, <1>15 DEF TypeOK, Sound, Moved
<1> QED BY <1>9, <1>11, <1>12, <1>13, <1>16 DEF Sound

\* No credentials, and a gate with nothing behind it.
LEMMA NothingTyped ==
    NoCred \in Cred /\ ~NoCred.dated /\ Stored(NoCred) = NoCred /\ NoCred.ticket = 0
    /\ NoCred.pw = "none" /\ NoGate \in Gate /\ NoGate.err.kind # "token_expired"
<1>1. /\ NoCred \in Cred /\ NoCred.dated = FALSE /\ NoCred.ticket = 0 /\ NoCred.pw = "none"
  BY DEF NoCred, Cred, Tickets
<1>2. Stored(NoCred) = NoCred
  BY <1>1 DEF Stored, Cred
<1>3. NoGate \in Gate /\ NoGate.err.kind # "token_expired"
  BY NoErrorTyped DEF NoGate, Gate, AuthStates
<1> QED BY <1>1, <1>2, <1>3

\* A logout in oauth2 mode: memory and store under one hold of the mutex.
LEMMA LogoutKeeps == ASSUME Sound, NEW t \in Callers, Logout(t) PROVE Sound'
<1>1. /\ th[t] # Idle /\ Cur(t).pc = "logout" /\ lock = NoCaller /\ lock # t /\ mode = "oauth2"
      /\ cred' = NoCred /\ loaded' = TRUE /\ gate' = NoGate /\ Ends(t, NoError)
      /\ UNCHANGED <<mode, lock, probeVars, up, hits, refused, wrong, events>>
  BY DEF Logout, At, Free
<1>2. Others(t)
  BY <1>1, FreeForAll
<1>3. PICK d : Moved(t, d) /\ d.pc # "keep" /\ ThreadsOK'
  BY <1>1, <1>2, DenyMoves, NoErrorTyped
<1>4. store' \in Cred /\ ~store'.dated /\ (~unsaved' => store' = NoCred) /\ unsaved' \in BOOLEAN
  BY NothingTyped DEF Logout, Removed, Sound, TypeOK, StoreOK
<1>5. \A u \in Callers : ~At(u, "keep")'
  BY <1>1, <1>3, HolderKnown DEF At, Moved
<1>6. StoreOK'
  BY <1>1, <1>4, <1>5, NothingTyped DEF StoreOK
<1>7. ShutOK' /\ GateOK'
  BY <1>1, NothingTyped DEF ShutOK, GateOK
<1>8. TypeOK'
  BY <1>1, <1>3, <1>4, NothingTyped DEF TypeOK, Sound, Moved
<1> QED BY <1>3, <1>6, <1>7, <1>8 DEF Sound

\* In session mode the mutex is given up before the store is emptied.
LEMMA SessionLogoutKeeps == ASSUME Sound, NEW t \in Callers, SessionLogout(t) PROVE Sound'
<1>1. /\ th[t] # Idle /\ Cur(t).pc = "logout" /\ Cur(t) \in Calls
      /\ lock = NoCaller /\ lock # t /\ mode = "session"
      /\ cred' = NoCred /\ loaded' = TRUE /\ gate' = NoGate /\ Goto(t, "erase")
      /\ UNCHANGED <<mode, store, lock, probeVars, up, pastVars>>
  BY TopTyped DEF SessionLogout, At, Free, Sound
<1>2. PICK d : d = [Cur(t) EXCEPT !.pc = "erase"]
  OBVIOUS
<1>3. d \in Calls /\ d.class = Cur(t).class /\ d.pc = "erase" /\ Becomes(t, d)
  BY <1>1, <1>2 DEF Calls, Goto
<1>4. CallOK(d, mode, refused') /\ ~Holding(d)
  BY <1>1, <1>3 DEF CallOK, Holding
<1>5. Others(t)
  BY <1>1, FreeForAll
<1>6. Moved(t, d) /\ ThreadsOK'
  BY <1>1, <1>3, <1>4, <1>5, ThreadMoves, QuietHits
<1>7. ShutOK' /\ GateOK'
  BY <1>1, NothingTyped DEF ShutOK, GateOK
<1>8. StoreOK'
  BY <1>1, StoreOfSession
<1>9. TypeOK'
  BY <1>1, <1>6, NothingTyped DEF TypeOK, Sound, Moved
<1> QED BY <1>6, <1>7, <1>8, <1>9 DEF Sound

\* And then it is emptied, whoever has signed in since.
LEMMA EraseKeeps == ASSUME Sound, NEW t \in Callers, Erase(t) PROVE Sound'
<1>1. /\ th[t] # Idle /\ Cur(t).pc = "erase" /\ lock # t /\ Ends(t, NoError)
      /\ UNCHANGED <<mode, cred, loaded, gate, lock, probeVars, up, hits, refused, wrong, events>>
  BY NotHolder DEF Erase, At, Holding
<1>2. mode = "session"
  BY <1>1 DEF Sound, ThreadsOK, ThreadOK, StackOK, CallOK
<1>3. Others(t)
  BY <1>1 DEF Others
<1>4. PICK d : Moved(t, d) /\ ThreadsOK'
  BY <1>1, <1>3, DenyMoves, NoErrorTyped
<1>5. store' \in Cred /\ ~store'.dated /\ unsaved' \in BOOLEAN
  BY NothingTyped DEF Erase, Removed, Sound, TypeOK, StoreOK
<1>6. StoreOK' /\ GateOK'
  BY <1>1, <1>2, <1>5 DEF StoreOK, Sound, GateOK
<1>7. ShutOK'
  BY <1>1, <1>4, ShutKeeps DEF Moved
<1>8. TypeOK'
  BY <1>1, <1>4, <1>5 DEF TypeOK, Sound, Moved
<1> QED BY <1>4, <1>6, <1>7, <1>8 DEF Sound

-----------------------------------------------------------------------------
(* Grants, under the mutex.                                                 *)

\* Who is at a grant, or at its grading, holds the mutex, for a renewal; and if
\* the password was refused in session mode, is not about to find that out again.
LEMMA AtGrant ==
    ASSUME Sound, NEW t \in Callers, th[t] # Idle, Cur(t).pc \in {"refresh", "password", "graded"}
    PROVE  /\ Cur(t) \in Calls /\ lock = t /\ Cur(t).way = "renew" /\ (\A u \in Callers : u # t => lock # u)
           /\ Cur(t).pc = "refresh" => mode = "oauth2"
           /\ Cur(t).pc = "graded" => Cur(t).err.kind # "token_expired"
           /\ mode = "session" => loaded /\ cred.ticket = 0
           /\ mode = "session" /\ wrong => Condemned(t)
<1>1. StackOK(t) /\ Cur(t) \in Calls
  BY TopTyped DEF Sound, ThreadsOK, ThreadOK
<1>2. lock = t /\ ~Signing(t)
  BY <1>1 DEF StackOK, Holding, Signing, At
<1>3. mode = "session" /\ wrong => Condemned(t)
  BY <1>2 DEF Sound, ShutOK
<1> QED BY <1>1, <1>2, <1>3 DEF StackOK, CallOK

\* A grant that has brought a ticket.
LEMMA GrantedMoves ==
    ASSUME Sound, NEW t \in Callers, th[t] # Idle, Cur(t).pc \in {"refresh", "password"},
           NEW n \in Tickets \ {0}, Granted(t, n), UNCHANGED <<authVars, pastVars>>
    PROVE  (\E d : Moved(t, d)) /\ ThreadsOK' /\ StoreOK' /\ ShutOK' /\ GateOK'
<1>1. /\ Cur(t) \in Calls /\ lock = t /\ Cur(t).way = "renew"
      /\ mode = "session" => loaded /\ cred.ticket = 0
      /\ ~(mode = "session" /\ wrong)
  BY AtGrant DEF Condemned, At
<1>2. PICK d : d = [Cur(t) EXCEPT !.got = n, !.pc = "save"]
  OBVIOUS
<1>3. d \in Calls /\ d.class = Cur(t).class /\ d.pc = "save" /\ d.way = "renew" /\ d.got # 0
  BY <1>1, <1>2 DEF Calls
<1>4. Becomes(t, d)
  BY <1>2 DEF Granted
<1>5. CallOK(d, mode, refused') /\ Holding(d)
  BY <1>3 DEF CallOK, Holding
<1>6. Others(t)
  BY DEF Others
<1>7. Moved(t, d) /\ ThreadsOK'
  BY <1>1, <1>3, <1>4, <1>5, <1>6, ThreadMoves, QuietHits
<1>8. StoreOK'
  BY <1>3, <1>7, StoreKept
<1>9. ShutOK' /\ GateOK'
  BY <1>1 DEF ShutOK, Sound, GateOK
<1> QED BY <1>7, <1>8, <1>9

\* One that has failed, and is graded, or looked into first.
LEMMA GrantFailsMoves ==
    ASSUME Sound, NEW t \in Callers, th[t] # Idle, Cur(t).pc \in {"refresh", "password"},
           NEW e \in Errors, e.kind # "token_expired", GrantFails(t, e, "graded"),
           UNCHANGED <<authVars, hits, refused, unsaved>>
    PROVE  /\ \E d : Moved(t, d) /\ d.err = e /\ (~e.ambiguous => d.pc = "graded")
           /\ ThreadsOK' /\ StoreOK' /\ GateOK'
<1>1. /\ Cur(t) \in Calls /\ lock = t /\ Cur(t).way = "renew"
      /\ mode = "session" => loaded /\ cred.ticket = 0
  BY AtGrant
<1>2. PICK pc : pc = IF e.ambiguous /\ ~InProbe(t) THEN "check" ELSE "graded"
  OBVIOUS
<1>3. PICK d : d = [Cur(t) EXCEPT !.err = e, !.pc = pc]
  OBVIOUS
<1>4. d \in Calls /\ d.class = Cur(t).class /\ d.pc = pc /\ d.way = "renew" /\ d.err = e
  BY <1>1, <1>2, <1>3 DEF Calls
<1>5. Becomes(t, d)
  BY <1>2, <1>3 DEF GrantFails
<1>6. CallOK(d, mode, refused') /\ (Holding(d) \/ (~InProbe(t) /\ d.pc = "check"))
  BY <1>2, <1>4 DEF CallOK, Holding
<1>7. Others(t)
  BY DEF Others
<1>8. Moved(t, d) /\ ThreadsOK'
  BY <1>1, <1>2, <1>4, <1>5, <1>6, <1>7, ThreadMoves, QuietHits
<1>9. StoreOK'
  BY <1>2, <1>4, <1>8, StoreKept
<1>10. GateOK'
  BY DEF Sound, GateOK
<1> QED BY <1>2, <1>4, <1>8, <1>9, <1>10

\* The first rung: the refresh token.
LEMMA RefreshGrantKeeps == ASSUME Sound, NEW t \in Callers, RefreshGrant(t) PROVE Sound'
<1>1. /\ th[t] # Idle /\ Cur(t).pc = "refresh" /\ UNCHANGED <<authVars, probeVars, pastVars>>
      /\ mode = "oauth2" /\ up \in Upstream
  BY AtGrant DEF RefreshGrant, At, Sound, TypeOK
<1>2. up' \in Upstream
  <2>1. CASE UNCHANGED up
    BY <1>1, <2>1
  <2>2. PICK n : n = up.issued + 1
    OBVIOUS
  <2>3. PICK rotated : rotated = [up EXCEPT !.tickets = @ \cup {n},
                         !.live = (@ \ {cred.ticket}) \cup {n}, !.issued = n]
    OBVIOUS
  <2>4. ASSUME n <= MaxTickets PROVE rotated \in Upstream
    <3>1. n \in Tickets
      BY <1>1, <2>2, <2>4 DEF Upstream, Tickets
    <3> QED BY <1>1, <2>3, <3>1 DEF Upstream
  <2>5. CASE n <= MaxTickets /\ up' = rotated
    BY <2>4, <2>5
  <2>6. CASE n <= MaxTickets /\ up' = [rotated EXCEPT !.astray = @ \cup {cred.ticket}]
    <3>1. cred.ticket \in Tickets
      BY DEF Sound, TypeOK, Cred
    <3>2. rotated \in Upstream
      BY <2>4, <2>6
    <3> QED BY <2>6, <3>1, <3>2 DEF Upstream
  <2> QED BY <2>1, <2>2, <2>3, <2>5, <2>6 DEF RefreshGrant
<1>3. (\E d : Moved(t, d)) /\ ThreadsOK' /\ StoreOK' /\ GateOK'
  <2>1. CASE up.issued + 1 <= MaxTickets /\ Granted(t, up.issued + 1)
    <3>1. up.issued + 1 \in Tickets \ {0}
      BY <1>1, <2>1 DEF Upstream, Tickets
    <3> QED BY <1>1, <2>1, <3>1, GrantedMoves
  <2>2. CASE \E e \in Errors : e.kind # "token_expired" /\ GrantFails(t, e, "graded")
    BY <1>1, <2>2, GrantFailsMoves
  <2>3. Local("network") \in Errors /\ Local("network").kind # "token_expired"
    BY LocalTyped DEF Kinds
  <2>4. Classified(Json(400, "invalid_grant")) \in Errors
        /\ Classified(Json(400, "invalid_grant")).kind # "token_expired"
    BY GrantAnswersTyped
  <2>5. \A e \in GrantTrouble : e \in Errors /\ e.kind # "token_expired"
    BY TroubleTyped
  <2> QED BY <2>1, <2>2, <2>3, <2>4, <2>5 DEF RefreshGrant
<1>4. ShutOK'
  BY <1>1 DEF ShutOK
<1>5. TypeOK'
  BY <1>1, <1>2, <1>3 DEF TypeOK, Sound, Moved
<1> QED BY <1>3, <1>4, <1>5 DEF Sound

\* The next one: the password, which is refused at most once.
LEMMA PasswordGrantKeeps == ASSUME Sound, NEW t \in Callers, PasswordGrant(t) PROVE Sound'
<1>1. /\ th[t] # Idle /\ Cur(t).pc = "password"
      /\ UNCHANGED <<mode, cred, loaded, store, probeVars, hits, refused, unsaved, events>>
      /\ lock = t /\ (\A u \in Callers : u # t => lock # u)
      /\ mode = "session" => loaded /\ cred.ticket = 0
      /\ ~(mode = "session" /\ wrong) /\ up \in Upstream /\ gate \in Gate /\ wrong \in BOOLEAN
  BY AtGrant DEF PasswordGrant, At, Sound, TypeOK, Condemned
<1>2. CASE /\ terminal("reauth_required", Local("reauth_required")) /\ lock' = NoCaller
           /\ Denies(t, Local("reauth_required"))
           /\ UNCHANGED <<up, wrong>>
  <2>1. Local("reauth_required") \in Errors /\ Local("reauth_required").kind = "reauth_required"
    BY LocalTyped DEF Kinds
  <2>2. Others(t)
    BY <1>1, <1>2 DEF Others
  <2>3. PICK d : Moved(t, d) /\ d.pc # "keep" /\ ThreadsOK'
    BY <1>1, <1>2, <2>1, <2>2, DenyMoves
  <2>4. StoreOK'
    BY <1>1, <2>3, StoreKept
  <2>5. gate' \in Gate /\ GateOK'
    BY <1>2, <2>1 DEF terminal, Gate, GateOK, AuthStates
  <2>6. ShutOK'
    BY <1>1, <1>2 DEF ShutOK
  <2>7. TypeOK'
    BY <1>1, <1>2, <2>3, <2>5 DEF TypeOK, Sound, Moved
  <2> QED BY <2>3, <2>4, <2>5, <2>6, <2>7 DEF Sound
<1>3. CASE up.issued + 1 <= MaxTickets /\ Issue(up.issued + 1) /\ Granted(t, up.issued + 1)
           /\ UNCHANGED <<wrong, gate, lock>>
  <2>1. PICK n : n = up.issued + 1
    OBVIOUS
  <2>2. n \in Tickets \ {0}
    BY <1>1, <1>3, <2>1 DEF Upstream, Tickets
  <2>3. (\E d : Moved(t, d)) /\ ThreadsOK' /\ StoreOK' /\ ShutOK' /\ GateOK'
    BY <1>1, <1>3, <2>1, <2>2, GrantedMoves
  <2>4. up' \in Upstream
    BY <1>1, <1>3, <2>1, <2>2 DEF Issue, Upstream
  <2>5. TypeOK'
    BY <1>1, <1>3, <2>3, <2>4 DEF TypeOK, Sound, Moved
  <2> QED BY <2>3, <2>5 DEF Sound
<1>4. CASE /\ wrong' = TRUE /\ UNCHANGED <<up, gate, lock>>
           /\ \E s \in {"credentials", "captcha"} : GrantFails(t, Classified(Json(401, s)), "graded")
  <2>1. PICK s \in {"credentials", "captcha"} : GrantFails(t, Classified(Json(401, s)), "graded")
    BY <1>4
  <2>2. PICK e : e = Classified(Json(401, s))
    OBVIOUS
  <2>3. e \in Errors /\ e.ambiguous = FALSE /\ drivesAuth(e) /\ e.kind \in {"reauth_required", "captcha_required"}
    BY <2>2, GrantAnswersTyped
  <2>4. (\E d : Moved(t, d) /\ d.err = e /\ (~e.ambiguous => d.pc = "graded"))
        /\ ThreadsOK' /\ StoreOK' /\ GateOK'
    BY <1>1, <1>4, <2>1, <2>2, <2>3, GrantFailsMoves
  <2>5. PICK d : Moved(t, d) /\ d.err = e /\ d.pc = "graded"
    BY <2>3, <2>4
  <2>6. Condemned(t)'
    BY <2>3, <2>5 DEF Condemned, At, Moved
  <2>7. ShutOK'
    BY <1>1, <1>4, <2>6 DEF ShutOK
  <2>8. TypeOK'
    BY <1>1, <1>4, <2>5 DEF TypeOK, Sound, Moved
  <2> QED BY <2>4, <2>7, <2>8 DEF Sound
<1>5. CASE \E e \in GrantTrouble : GrantFails(t, e, "graded") /\ UNCHANGED <<up, wrong, gate, lock>>
  <2>1. PICK e \in GrantTrouble : GrantFails(t, e, "graded") /\ UNCHANGED <<up, wrong, gate, lock>>
    BY <1>5
  <2>2. e \in Errors /\ e.kind # "token_expired"
    BY TroubleTyped
  <2>3. (\E d : Moved(t, d)) /\ ThreadsOK' /\ StoreOK' /\ GateOK'
    BY <1>1, <2>1, <2>2, GrantFailsMoves
  <2>4. ShutOK'
    BY <1>1, <2>1 DEF ShutOK
  <2>5. TypeOK'
    BY <1>1, <2>1, <2>3 DEF TypeOK, Sound, Moved
  <2> QED BY <2>3, <2>4, <2>5 DEF Sound
<1> QED BY <1>2, <1>3, <1>4, <1>5 DEF PasswordGrant

\* The grade: the next rung, the end of it for a refused password, or a pause.
LEMMA GradedKeeps == ASSUME Sound, NEW t \in Callers, Graded(t) PROVE Sound'
<1>1. /\ th[t] # Idle /\ Cur(t).pc = "graded" /\ Cur(t) \in Calls /\ Cur(t).way = "renew"
      /\ UNCHANGED <<mode, cred, loaded, store, probeVars, up, pastVars>>
      /\ lock = t /\ (\A u \in Callers : u # t => lock # u)
      /\ mode = "session" /\ wrong => Condemned(t)
      /\ Cur(t).err.kind # "token_expired"
  BY AtGrant DEF Graded, At
<1>2. PICK e \in Errors : e = Cur(t).err
  BY <1>1 DEF Calls
<1>3. CASE /\ mode = "oauth2" /\ UNCHANGED <<gate, lock>>
           /\ Becomes(t, [Cur(t) EXCEPT !.pc = "password"])
  <2>1. PICK d : d = [Cur(t) EXCEPT !.pc = "password"]
    OBVIOUS
  <2>2. d \in Calls /\ d.class = Cur(t).class /\ d.pc = "password" /\ d.way = "renew"
    BY <1>1, <2>1 DEF Calls
  <2>3. CallOK(d, mode, refused') /\ Holding(d)
    BY <2>2 DEF CallOK, Holding
  <2>4. Others(t)
    BY <1>1, <1>3 DEF Others
  <2>5. Moved(t, d) /\ ThreadsOK'
    BY <1>1, <1>3, <2>1, <2>2, <2>3, <2>4, ThreadMoves, QuietHits
  <2>6. StoreOK'
    BY <1>1, <2>2, <2>5, StoreKept
  <2>7. ShutOK' /\ GateOK'
    BY <1>1, <1>3 DEF ShutOK, Sound, GateOK
  <2>8. TypeOK'
    BY <1>1, <1>3, <2>5 DEF TypeOK, Sound, Moved
  <2> QED BY <2>5, <2>6, <2>7, <2>8 DEF Sound
<1>4. CASE /\ lock' = NoCaller /\ gate' \in Gate /\ gate'.err.kind # "token_expired"
           /\ Denies(t, gate'.err)
           /\ mode = "session" /\ wrong => gate'.state \in Stopping
  <2>1. Others(t)
    BY <1>1, <1>4 DEF Others
  <2>2. gate'.err \in Errors
    BY <1>4 DEF Gate
  <2>3. PICK er \in Errors : er = gate'.err /\ er.kind # "token_expired" /\ Denies(t, er)
    BY <1>4, <2>2
  <2>4. PICK d : Moved(t, d) /\ d.pc # "keep" /\ ThreadsOK'
    BY <1>1, <1>4, <2>1, <2>3, DenyMoves
  <2>5. StoreOK'
    BY <1>1, <2>4, StoreKept
  <2>6. ShutOK'
    BY <1>1, <1>4 DEF ShutOK, Sound
  <2>7. GateOK'
    BY <1>4 DEF GateOK
  <2>8. TypeOK'
    BY <1>1, <1>4, <2>4 DEF TypeOK, Sound, Moved
  <2> QED BY <2>4, <2>5, <2>6, <2>7, <2>8 DEF Sound
<1>5. PICK climbs : climbs = (/\ mode = "oauth2" /\ drivesAuth(e)
                              /\ e.kind \in {"refresh_token_failed", "token_expired"})
  OBVIOUS
<1>6. PICK ends : ends = (drivesAuth(e) /\ e.kind \in {"reauth_required", "captcha_required"})
  OBVIOUS
<1>7. mode = "session" /\ wrong => ends
  BY <1>1, <1>2, <1>6 DEF Condemned
<1>8. CASE lock' = NoCaller /\ Denies(t, gate'.err) /\ climbs
           /\ terminal("reauth_required", Local("reauth_required"))
  <2>1. Local("reauth_required") \in Errors /\ Local("reauth_required").kind = "reauth_required"
    BY LocalTyped DEF Kinds
  <2>2. gate' \in Gate /\ gate'.err.kind # "token_expired" /\ gate'.state \in Stopping
    BY <1>8, <2>1 DEF terminal, Gate, AuthStates, Stopping
  <2> QED BY <1>4, <1>8, <2>2
<1>9. CASE lock' = NoCaller /\ Denies(t, gate'.err) /\ ends /\ terminal(e.kind, Local(e.kind))
  <2>1. e.kind \in {"reauth_required", "captcha_required"} /\ e.kind \in Kinds
    BY <1>6, <1>9 DEF Kinds
  <2>2. Local(e.kind) \in Errors /\ Local(e.kind).kind = e.kind
    BY <2>1, LocalTyped
  <2>3. gate' \in Gate /\ gate'.err.kind # "token_expired" /\ gate'.state \in Stopping
    BY <1>9, <2>1, <2>2 DEF terminal, Gate, AuthStates, Stopping
  <2> QED BY <1>4, <1>9, <2>3
<1>10. CASE lock' = NoCaller /\ Denies(t, gate'.err) /\ ~ends /\ backoff(e)
  <2>1. gate' \in Gate /\ gate'.err.kind # "token_expired"
    BY <1>1, <1>2, <1>10 DEF backoff, Gate, AuthStates
  <2> QED BY <1>4, <1>7, <1>10, <2>1
<1> QED BY <1>2, <1>3, <1>5, <1>6, <1>8, <1>9, <1>10 DEF Graded

-----------------------------------------------------------------------------
(* What nobody's call has a hand in.                                        *)

\* A step of the world that leaves the callers and the mutex alone.
LEMMA CallersKeep ==
    ASSUME Sound, UNCHANGED <<mode, lock, th, hits, refused, cred, loaded>>
    PROVE  ThreadsOK'
BY OtherKeeps DEF ThreadsOK

\* And the store, or the gate but for its pause.
LEMMA WorldKeeps ==
    ASSUME Sound, UNCHANGED <<mode, lock, th, hits, refused, cred, loaded, store, unsaved, wrong>>,
           gate'.state = gate.state, gate'.err = gate.err
    PROVE  ThreadsOK' /\ StoreOK' /\ ShutOK' /\ GateOK'
<1>1. ThreadsOK'
  BY CallersKeep
<1>2. \A u \in Callers : /\ At(u, "keep")' <=> At(u, "keep")
                         /\ Adopted(u)' = Adopted(u)
                         /\ Condemned(u)' <=> Condemned(u)
                         /\ Signing(u)' <=> Signing(u)
  BY DEF At, Adopted, Condemned, Signing
<1>3. StoreOK'
  BY <1>2 DEF Sound, StoreOK
<1>4. ShutOK'
  BY <1>2 DEF Sound, ShutOK
<1> QED BY <1>1, <1>3, <1>4 DEF Sound, GateOK

\* A pause that is over opens no gate that is shut for good.
LEMMA BackoffEndsKeeps == ASSUME Sound, BackoffEnds PROVE Sound'
<1>1. /\ gate \in Gate /\ gate' = [gate EXCEPT !.waiting = FALSE] /\ events' \in 0 .. MaxEvents
      /\ UNCHANGED <<mode, cred, loaded, store, lock, probeVars, th, up, hits, refused, wrong, unsaved>>
  BY DEF BackoffEnds, Happens, Sound, TypeOK
<1>2. gate'.state = gate.state /\ gate'.err = gate.err /\ gate' \in Gate
  BY <1>1 DEF Gate
<1>3. ThreadsOK' /\ StoreOK' /\ ShutOK' /\ GateOK'
  BY <1>1, <1>2, WorldKeeps
<1>4. TypeOK'
  BY <1>1, <1>2 DEF Sound, TypeOK
<1> QED BY <1>3, <1>4 DEF Sound

\* Nor does a probe's result that has grown old.
LEMMA IntervalEndsKeeps == ASSUME Sound, IntervalEnds PROVE Sound'
<1>1. /\ probe' \in Probing /\ denied' = {} /\ events' \in 0 .. MaxEvents
      /\ UNCHANGED <<authVars, witness, th, up, hits, refused, wrong, unsaved>>
  <2>1. probe \in Probing /\ events \in 0 .. MaxEvents
    BY DEF Sound, TypeOK
  <2>2. probe' \in Probing
    BY <2>1 DEF IntervalEnds, Probing
  <2> QED BY <2>1, <2>2 DEF IntervalEnds, Happens
<1>2. ThreadsOK' /\ StoreOK' /\ ShutOK' /\ GateOK'
  BY <1>1, WorldKeeps
<1>3. TypeOK'
  BY <1>1 DEF Sound, TypeOK
<1> QED BY <1>2, <1>3 DEF Sound

\* Nor what upstream forgets.
LEMMA ForgetsKeeps == ASSUME Sound, Forgets PROVE Sound'
<1>1. /\ events' \in 0 .. MaxEvents
      /\ UNCHANGED <<authVars, probeVars, th, hits, refused, wrong, unsaved>>
  BY DEF Forgets, Happens, Sound, TypeOK
<1>2. ThreadsOK' /\ StoreOK' /\ ShutOK' /\ GateOK'
  BY <1>1, WorldKeeps
<1>3. up' \in Upstream
  BY DEF Forgets, Sound, TypeOK, Upstream
<1>4. TypeOK'
  BY <1>1, <1>3 DEF Sound, TypeOK
<1> QED BY <1>2, <1>4 DEF Sound

\* Nor a password that is changed.
LEMMA PasswordChangesKeeps == ASSUME Sound, PasswordChanges PROVE Sound'
<1>1. /\ events' \in 0 .. MaxEvents
      /\ UNCHANGED <<authVars, probeVars, th, hits, refused, wrong, unsaved>>
  BY DEF PasswordChanges, Happens, Sound, TypeOK
<1>2. ThreadsOK' /\ StoreOK' /\ ShutOK' /\ GateOK'
  BY <1>1, WorldKeeps
<1>3. up' \in Upstream
  <2>1. up \in Upstream
    BY DEF Sound, TypeOK
  <2>2. PICK live \in {up.live, {}}, good \in {up.tickets, {}} :
            up' = [up EXCEPT !.pwOK = FALSE, !.live = live, !.tickets = good,
                             !.astray = @ \cup (up.live \ live)]
    BY DEF PasswordChanges
  <2>3. live \subseteq Tickets /\ good \subseteq Tickets /\ up.astray \cup (up.live \ live) \subseteq Tickets
    BY <2>1 DEF Upstream
  <2> QED BY <2>1, <2>2, <2>3 DEF Upstream
<1>4. TypeOK'
  BY <1>1, <1>3 DEF Sound, TypeOK
<1> QED BY <1>2, <1>4 DEF Sound

\* A token grows old in memory and in the store at once, and never while it is renewed.
LEMMA AgesKeeps == ASSUME Sound, Ages PROVE Sound'
<1>1. /\ mode = "oauth2" /\ lock = NoCaller /\ events' \in 0 .. MaxEvents /\ cred \in Cred /\ store \in Cred
      /\ UNCHANGED <<mode, loaded, gate, lock, probeVars, th, up, hits, refused, wrong, unsaved>>
      /\ store' = IF store.ticket = cred.ticket THEN [store EXCEPT !.age = cred'.age] ELSE store
  BY DEF Ages, Happens, Sound, TypeOK
<1>2. PICK age \in {"due", "dead"} : cred' = [cred EXCEPT !.age = age]
  BY DEF Ages
<1>3. cred' \in Cred /\ cred'.age = age
  BY <1>1, <1>2 DEF Cred
<1>4. store' \in Cred /\ ~store'.dated
  <2>1. ~store.dated
    BY DEF Sound, StoreOK
  <2> QED BY <1>1, <1>3, <2>1 DEF Cred
<1>5. \A u \in Callers : lock # u
  BY <1>1
<1>6. ThreadsOK'
  BY <1>1, <1>5, OtherKeeps DEF ThreadsOK
<1>7. \A u \in Callers : ~At(u, "keep") /\ ~At(u, "keep")'
  BY <1>1, <1>5, HolderKnown DEF At
<1>8. StoreOK'
  <2>1. SUFFICES ASSUME ~unsaved, loaded PROVE store' = Stored(cred')
    BY <1>1, <1>4, <1>7 DEF StoreOK
  <2>2. store = Stored(cred)
    BY <1>1, <1>7, <2>1 DEF Sound, StoreOK
  <2>3. store = [cred EXCEPT !.dated = FALSE] /\ store.ticket = cred.ticket
    BY <1>1, <2>2 DEF Stored, Cred
  <2>4. store' = [store EXCEPT !.age = age]
    BY <1>1, <1>3, <2>3
  <2>5. [[cred EXCEPT !.dated = FALSE] EXCEPT !.age = age] = [[cred EXCEPT !.age = age] EXCEPT !.dated = FALSE]
    BY <1>1 DEF Cred
  <2> QED BY <1>2, <2>3, <2>4, <2>5 DEF Stored
<1>9. ShutOK' /\ GateOK'
  BY <1>1 DEF ShutOK, Sound, GateOK
<1>10. TypeOK'
  BY <1>1, <1>3, <1>4 DEF Sound, TypeOK
<1> QED BY <1>6, <1>8, <1>9, <1>10 DEF Sound

\* The daemon starts again with what the store has, and every call in flight is lost.
LEMMA CrashKeeps == ASSUME Sound, Crash PROVE Sound'
<1>1. /\ cred' = NoCred /\ loaded' = FALSE /\ gate' = NoGate /\ lock' = NoCaller
      /\ probe' = [recent |-> FALSE, by |-> NoCaller, found |-> "none"]
      /\ witness' = {} /\ denied' = {} /\ wrong' = FALSE /\ events' \in 0 .. MaxEvents
      /\ UNCHANGED <<mode, store, hits, refused, unsaved>>
  BY DEF Crash, Happens, Sound, TypeOK
<1>2. PICK c : c = [Call("read", "ended") EXCEPT !.err = Local("network")]
  OBVIOUS
<1>3. c \in Calls /\ c.class = "read" /\ c.pc = "ended"
  <2>1. Local("network") \in Errors
    BY LocalTyped DEF Kinds
  <2>2. Call("read", "ended") \in Calls /\ Call("read", "ended").class = "read"
        /\ Call("read", "ended").pc = "ended"
    BY NoErrorTyped DEF Call, Calls, Tickets, AllClasses
  <2> QED BY <1>2, <2>1, <2>2 DEF Calls
<1>4. PICK s : s = <<c>>
  OBVIOUS
<1>5. s \in Seq(Calls) /\ Len(s) = 1 /\ s[1] = c /\ Head(s) = c /\ s # Idle
  BY <1>3, <1>4
<1>6. th' = [t \in Callers |-> IF th[t] = Idle THEN Idle ELSE s]
  BY <1>2, <1>4 DEF Crash
<1>7. Idle \in Seq(Calls) /\ Len(Idle) = 0
  OBVIOUS
<1>8. th' \in [Callers -> Seq(Calls)] /\ \A u \in Callers : Len(th'[u]) <= 2
  <2>1. th' \in [Callers -> Seq(Calls)]
    BY <1>5, <1>6, <1>7
  <2>2. ASSUME NEW u \in Callers PROVE Len(th'[u]) <= 2
    <3>1. th'[u] = Idle \/ th'[u] = s
      BY <1>6
    <3>2. PICK n \in {0, 1} : n = Len(th'[u])
      BY <1>5, <1>7, <3>1
    <3>3. n <= 2
      OBVIOUS
    <3> QED BY <3>2, <3>3
  <2> QED BY <2>1, <2>2
<1>9. ASSUME NEW u \in Callers PROVE ThreadOK(u)' /\ RotationOK(u)' /\ ~At(u, "keep")'
  <2>1. CASE th'[u] = Idle
    BY <1>1, <2>1 DEF ThreadOK, RotationOK, At
  <2>2. CASE th'[u] = s
    <3>1. Cur(u)' = c /\ th'[u] # Idle /\ th'[u][1] = c /\ Len(th'[u]) = 1
      BY <1>5, <2>2
    <3>2. ~InProbe(u)' /\ Own(u)' = c
      BY <3>1 DEF Own
    <3>3. CallOK(c, mode', refused') /\ ~Holding(c)
      BY <1>3 DEF CallOK, Holding
    <3>4. StackOK(u)'
      BY <1>1, <1>3, <3>1, <3>2, <3>3 DEF StackOK
    <3>5. OnceOK(u)'
      BY <1>3, <3>2 DEF OnceOK
    <3>6. RotationOK(u)' /\ ~At(u, "keep")'
      BY <1>3, <3>1 DEF RotationOK, At
    <3> QED BY <3>1, <3>4, <3>5, <3>6 DEF ThreadOK
  <2> QED BY <1>6, <2>1, <2>2
<1>10. ThreadsOK'
  BY <1>9 DEF ThreadsOK
<1>11. StoreOK'
  BY <1>1, <1>9 DEF Sound, StoreOK
<1>12. ShutOK' /\ GateOK'
  BY <1>1, NothingTyped DEF ShutOK, GateOK
<1>13. probe' \in Probing
  BY <1>1 DEF Probing, Kinds
<1>14. up' \in Upstream
  <2>1. up \in Upstream /\ cred.ticket \in Tickets
    BY DEF Sound, TypeOK, Cred
  <2>2. PICK gone \in SUBSET Tickets : up' = [up EXCEPT !.astray = @ \cup gone]
    BY <2>1 DEF Crash
  <2> QED BY <2>1, <2>2 DEF Upstream
<1>15. TypeOK'
  BY <1>1, <1>8, <1>13, <1>14, NothingTyped DEF Sound, TypeOK
<1> QED BY <1>10, <1>11, <1>12, <1>15 DEF Sound

-----------------------------------------------------------------------------
(* The theorems.                                                            *)

\* At the start one ticket is good, the store has it, and nobody asks for anything.
LEMMA InitSound == Init => Sound
<1> SUFFICES ASSUME Init PROVE Sound
  OBVIOUS
<1>1. PICK pw \in Passwords : cred = [NoCred EXCEPT !.ticket = 1, !.pw = pw, !.dated = TRUE]
  BY DEF Init
<1>2. 1 \in Tickets /\ 0 \in Tickets
  BY DEF Tickets
<1>3. cred \in Cred
  BY <1>1, <1>2, NothingTyped DEF Cred
<1>4. store = Stored(cred) /\ store \in Cred /\ ~store.dated
  BY <1>3 DEF Init, Stored, Cred
<1>5. gate = Signed /\ gate \in Gate /\ GateOK
  BY NoErrorTyped DEF Init, Signed, NoGate, Gate, GateOK, AuthStates
<1>6. \A u \in Callers : th[u] = Idle
  BY DEF Init
<1>7. th \in [Callers -> Seq(Calls)] /\ \A u \in Callers : Len(th[u]) <= 2
  <2>1. Idle \in Seq(Calls) /\ Len(Idle) = 0
    OBVIOUS
  <2>2. th \in [Callers -> Seq(Calls)]
    BY <2>1 DEF Init
  <2> QED BY <1>6, <2>1, <2>2
<1>8. ThreadsOK
  BY <1>6 DEF ThreadsOK, ThreadOK, RotationOK, At, Init
<1>9. StoreOK
  BY <1>4, <1>6 DEF StoreOK, At
<1>10. ShutOK
  BY DEF Init, ShutOK
<1>11. up \in Upstream
  BY <1>2 DEF Init, Upstream
<1>12. probe \in Probing
  BY DEF Init, Probing, Kinds
<1>13. hits \in [Callers -> Nat \cup {-1}]
  BY DEF Init
<1>14. /\ mode \in Modes /\ loaded \in BOOLEAN /\ lock \in Callers \cup {NoCaller}
       /\ witness = {} /\ denied = {} /\ refused = {} /\ wrong \in BOOLEAN /\ unsaved \in BOOLEAN
       /\ events \in 0 .. MaxEvents
  <2>1. loaded \in BOOLEAN /\ wrong \in BOOLEAN /\ unsaved \in BOOLEAN
    BY DEF Init
  <2>2. mode \in Modes /\ lock \in Callers \cup {NoCaller} /\ witness = {} /\ denied = {} /\ refused = {}
    BY DEF Init
  <2>3. events \in 0 .. MaxEvents
    BY DEF Init
  <2> QED BY <2>1, <2>2, <2>3
<1>15. TypeOK
  BY <1>3, <1>4, <1>5, <1>7, <1>11, <1>12, <1>13, <1>14 DEF TypeOK
<1> QED BY <1>5, <1>8, <1>9, <1>10, <1>15 DEF Sound

\* And every step leaves it so.
LEMMA NextSound == Sound /\ [Next]_vars => Sound'
<1> SUFFICES ASSUME Sound, [Next]_vars PROVE Sound'
  OBVIOUS
<1>1. ASSUME NEW t \in Callers, NEW c \in Classes, Begin(t, c) PROVE Sound'
  BY <1>1, BeginKeeps
<1>2. ASSUME NEW t \in Callers, AuthStep(t) PROVE Sound'
  BY <1>2, LoadKeeps, StatusKeeps, CredentialsKeeps, SessionIDKeeps, RefreshStaleKeeps, RefreshKeeps,
     EnsureFreshKeeps, EnsureSessionKeeps, SaveKeeps, KeepKeeps, LogoutKeeps, SessionLogoutKeeps,
     EraseKeeps DEF AuthStep
<1>3. ASSUME NEW t \in Callers, CallStep(t) PROVE Sound'
  BY <1>3, SucceedsKeeps, StreamBreaksKeeps, ErrsKeeps, IsRefusedKeeps DEF CallStep
<1>4. ASSUME NEW t \in Callers, GrantStep(t) PROVE Sound'
  BY <1>4, RefreshGrantKeeps, PasswordGrantKeeps, GradedKeeps, MintKeeps, LoginKeeps DEF GrantStep
<1>5. ASSUME NEW t \in Callers, ProbeStep(t) PROVE Sound'
  BY <1>5, ResolveKeeps, ProbeKeeps, ProbedKeeps DEF ProbeStep
<1>6. ASSUME BackoffEnds \/ IntervalEnds \/ Forgets \/ PasswordChanges \/ Ages \/ Crash PROVE Sound'
  BY <1>6, BackoffEndsKeeps, IntervalEndsKeeps, ForgetsKeeps, PasswordChangesKeeps, AgesKeeps, CrashKeeps
<1>7. CASE UNCHANGED vars
  <2>1. ThreadsOK' /\ StoreOK' /\ ShutOK' /\ GateOK'
    BY <1>7, WorldKeeps DEF vars
  <2>2. TypeOK'
    BY <1>7 DEF vars, Sound, TypeOK
  <2> QED BY <2>1, <2>2 DEF Sound
<1> QED BY <1>1, <1>2, <1>3, <1>4, <1>5, <1>6, <1>7 DEF Next, Step

\* The invariant all the others follow from: at every moment the mutex, the gate, the
\* store and the callers' stacks fit together as the parts of Sound say.
THEOREM SoundHolds == Spec => []Sound
BY InitSound, NextSound, PTL DEF Spec

\* The variables keep their types, and no caller tries again more than RetryPolicy.Max
\* times, the replay after a renewal included (client.go, Do).
THEOREM TypesHold == Spec => []TypeOK
<1>1. Sound => TypeOK
  BY DEF Sound
<1> QED BY <1>1, SoundHolds, PTL

\* However many requests meet whichever mixture of lost answers, refusals, renewals
\* and replays, a write is done upstream at most once and a reader is given the bytes
\* of one answer (client.go, Do and DoStream).
THEOREM OnlyOnce == Spec => []AtMostOnce
<1>1. Sound => AtMostOnce
  <2> SUFFICES ASSUME Sound, NEW t \in Callers, th[t] # Idle, Own(t).class \in {"write", "stream"}
               PROVE  hits[t] <= 1
    BY DEF AtMostOnce, Own
  <2>1. hits[t] <= IF Own(t).pc = "ended" THEN 1 ELSE 0
    BY DEF Sound, ThreadsOK, ThreadOK, OnceOK
  <2>2. hits[t] \in Nat \cup {-1}
    BY DEF Sound, TypeOK
  <2> QED BY <2>1, <2>2
<1> QED BY <1>1, SoundHolds, PTL

\* Whoever exchanges a refresh token of a token that is not due does it for a token
\* that was refused, and so once for all who were told of it (oauth2.go, RefreshStale).
THEOREM OneRotation == Spec => []RotatedOnce
<1>1. Sound => RotatedOnce
  BY DEF Sound, ThreadsOK, RotationOK, RotatedOnce
<1> QED BY <1>1, SoundHolds, PTL

\* In session mode a password that upstream has refused is not offered again before a
\* login, however many callers ask (session.go).
THEOREM SessionStops == Spec => []SessionStopsDead
<1>1. Sound => SessionStopsDead
  <2> SUFFICES ASSUME Sound, mode = "session", wrong, NEW t \in Callers, At(t, "password")
               PROVE  FALSE
    BY DEF SessionStopsDead, StopsDead
  <2>1. th[t] # Idle /\ Cur(t).pc = "password"
    BY DEF At
  <2>2. Condemned(t)
    BY <2>1, AtGrant
  <2> QED BY <2>1, <2>2 DEF Condemned, At
<1> QED BY <1>1, SoundHolds, PTL

\* In oauth2 mode a restart finds in the store what memory has, unless a save is going
\* on or has failed (oauth2.go, adopt).
THEOREM StoreIsLed == Spec => []StoreLeads
<1>1. Sound => StoreLeads
  <2> SUFFICES ASSUME Sound, mode = "oauth2", loaded, ~unsaved, lock = NoCaller
               PROVE  store = Stored(cred)
    BY DEF StoreLeads
  <2>1. \A u \in Callers : ~At(u, "keep")
    BY HolderKnown
  <2> QED BY <2>1 DEF Sound, StoreOK
<1> QED BY <1>1, SoundHolds, PTL

=============================================================================
