------------------------------- MODULE Requests -------------------------------
(***************************************************************************)
(* The SDK's request loop (client.go: Do, DoStream) over its two           *)
(* authenticators (oauth2.go, session.go), the renewal gate they share     *)
(* (auth.go), the probe that settles an ambiguous refusal (classify.go),   *)
(* and the credential store.                                               *)
(*                                                                         *)
(* A step of a thread is one section under the authenticator's mutex, or   *)
(* one call upstream.  The mutex is held across the calls of a renewal.    *)
(* Upstream is an environment: it accepts tokens and sessions, forgets     *)
(* them, hands out new ones, and answers a call with a piece of Evidence.  *)
(*                                                                         *)
(* "ticket": what proves the account, an access token in oauth2 mode, the  *)
(* session in session mode.  Both are numbered in the order of issue.      *)
(***************************************************************************)
EXTENDS Classification, Sequences, FiniteSets

CONSTANTS
    Callers, NoCaller,
    Modes,          \* the authenticators to start with
    Classes,        \* what a caller may do, see AllClasses
    Passwords,      \* whether the account's password may be kept
    MaxRetries,     \* RetryPolicy.Max
    MaxTickets,     \* bound on the tickets upstream issues
    MaxEvents,      \* bound on the crashes, expiries, revocations and lapses of time
    Faults          \* how upstream and the store may fail, see AllFaults

\* "read" may be repeated; "write" may not; "chunk" may and needs a session id;
\* "stream" is a DoStream, whose callback has seen bytes once it was answered;
\* "status" is /v1/auth/status, which reads the account if it may;
\* "fresh" is EnsureFresh; "login", "logout" are the user's.  A "probe" is never
\* begun: it runs within another call.
AllClasses == {"read", "write", "chunk", "stream", "status", "fresh", "login", "logout"}
\* "lost": no answer arrives, or a 5xx; "busy": 429; "refuse": a 403 that
\* speaks of permissions; "edge": a proxy answers; "odd": a grant is refused in a
\* way that proves nothing; "forget": tickets are revoked; "password": it is
\* changed; "age": tokens come near their end; "store": the credential store cannot
\* be read or written; "crash": the daemon is killed and starts again.
AllFaults == {"lost", "busy", "refuse", "edge", "odd", "forget", "password", "age", "store", "crash"}

ASSUME AssumeCallers == NoCaller \notin Callers
ASSUME AssumeChoices == /\ Modes \subseteq {"oauth2", "session"} /\ Classes \subseteq AllClasses
                        /\ Passwords \subseteq {"kept", "none"} /\ Faults \subseteq AllFaults
ASSUME AssumeBounds  == MaxRetries \in Nat /\ MaxTickets \in Nat \ {0} /\ MaxEvents \in Nat

VARIABLES
    mode,       \* which authenticator Client.auth is
    cred,       \* its credentials in memory
    loaded,     \* whether they were read from the store
    store,      \* the credential store's content
    gate,       \* renewGate
    lock,       \* who holds the authenticator's mutex across a call
    probe,      \* disambiguator: the result, whether it is recent, who probes
    witness, denied,
    th,         \* the callers: a stack of calls each, the probe on top
    up,         \* upstream
    hits,       \* history: how often upstream did what a caller asked for
    refused,    \* history: the tickets upstream has refused to somebody
    wrong,      \* history: it has refused the password since the last login or start
    unsaved,    \* history: a save failed
    events      \* how many events of MaxEvents there were

authVars  == <<mode, cred, loaded, store, gate, lock>>
probeVars == <<probe, witness, denied>>
pastVars  == <<hits, refused, wrong, unsaved, events>>
vars      == <<authVars, probeVars, th, up, pastVars>>

Tickets == 0 .. MaxTickets

\* Something the callers have no hand in.
Happens == events < MaxEvents /\ events' = events + 1

\* age: "new", "due" (NeedsRefresh), "dead" (the refresh token has run out too).
\* dated: whether the token says when it was issued and when its refresh token ends.
Cred   == [ticket : Tickets, age : {"new", "due", "dead"}, sess : Tickets, pw : {"kept", "none"},
           dated : BOOLEAN]
NoCred == [ticket |-> 0, age |-> "new", sess |-> 0, pw |-> "none", dated |-> FALSE]

\* What the credential file makes of them: it has a field for Expiry, and none for
\* IssuedAt and RefreshExpiry.
Stored(c) == [c EXCEPT !.dated = FALSE]

NoGate == [state |-> "not_configured", err |-> NoError, waiting |-> FALSE]
Signed == [NoGate EXCEPT !.state = "authenticated"]
AuthStates == {"not_configured", "authenticated", "refreshing", "reauth_required",
               "captcha_required", "keystore_unavailable"}
Stopping   == {"reauth_required", "captcha_required", "keystore_unavailable"}

\* A call: where it is, what it is, the ticket and session it was sent with, the
\* error it has met, the loop's two counters, and where a renewal or a probe that
\* it waits for goes on to.
Call(class, pc) ==
    [pc |-> pc, class |-> class, used |-> 0, sess |-> 0, err |-> NoError, refreshed |-> FALSE,
     tries |-> 0, then |-> "call", got |-> 0, way |-> "renew"]

Idle      == << >>
Cur(t)    == Head(th[t])
At(t, pc) == th[t] # Idle /\ Cur(t).pc = pc

-----------------------------------------------------------------------------
(* Do: what becomes of an error.                                            *)

Retryable(class) == class \in {"read", "chunk", "status"}

\* DoStream: Do's loop without its retries.
Streams(c) == c.class = "stream"

\* Mutant: a write is retried like a read.
RetriesAny(c) == Temporary(c.err) /\ c.tries < MaxRetries
\* Mutant: the budget is passed.
RetriesPast(c) == (Retryable(c.class) \/ replaySafe(c.err)) /\ Temporary(c.err) /\ c.tries <= MaxRetries

Retries(c) ==
    /\ ~Streams(c)
    /\ Retryable(c.class) \/ replaySafe(c.err)
    /\ Temporary(c.err)
    /\ c.tries < IF c.err.budget > 0 /\ c.err.budget < MaxRetries THEN c.err.budget ELSE MaxRetries

\* Whether the loop renews and replays: once a request.
Replays(c) == c.err.kind = "token_expired" /\ drivesAuth(c.err) /\ ~c.refreshed

\* A call that has ended keeps what its probe or its reader still asks of it.
Over(c, e) == [Call(c.class, "ended") EXCEPT !.err = Local(e.kind)]

\* The call as it leaves the loop's body with an error that is settled.
Judged(c) ==
    LET again == [Call(c.class, "creds") EXCEPT !.tries = c.tries, !.refreshed = c.refreshed] IN
    IF Replays(c) THEN [again EXCEPT !.refreshed = TRUE, !.used = c.used, !.then = "creds", !.pc = "stale"]
    ELSE IF Retries(c) THEN [again EXCEPT !.tries = @ + 1]
    ELSE Over(c, c.err)

-----------------------------------------------------------------------------

\* The caller's current call goes on as c; and goes on at pc.
Becomes(t, c) == th' = [th EXCEPT ![t] = <<c>> \o Tail(@)]
Goto(t, pc)   == Becomes(t, [Cur(t) EXCEPT !.pc = pc])
InProbe(t)    == Len(th[t]) > 1
Ends(t, e)    == Becomes(t, Over(Cur(t), e))

\* An error: looked into first when it is ambiguous, except within a probe.
Fails(t, e) ==
    LET c == [Cur(t) EXCEPT !.err = e] IN
    Becomes(t, IF e.ambiguous /\ ~e.resolved /\ ~InProbe(t) THEN [c EXCEPT !.pc = "check"] ELSE Judged(c))

\* An authenticator's error: judged like an answer when it came of asking for
\* credentials, the call's own result when it came of a renewal.
Denies(t, e) == IF Cur(t).then = "call" THEN Fails(t, e) ELSE Ends(t, e)

\* The mutex is not reentrant.
Free == lock = NoCaller
HoldsBySelf(t) == lock = t
Known(c) == c.ticket # 0 \/ c.pw = "kept"

-----------------------------------------------------------------------------
(* renewGate.                                                               *)

terminal(state, err) == gate' = [state |-> state, err |-> err, waiting |-> FALSE]
backoff(err)         == gate' = [state |-> "refreshing", err |-> err, waiting |-> TRUE]
\* Mutant: a refusal to renew is not remembered.
blockedNot(g)        == g.waiting
blocked(g)           == g.state \in Stopping \/ g.waiting

\* The time of the next attempt has come.
BackoffEnds ==
    /\ gate.waiting /\ Happens
    /\ gate' = [gate EXCEPT !.waiting = FALSE]
    /\ UNCHANGED <<mode, cred, loaded, store, lock, probeVars, th, up, hits, refused, wrong, unsaved>>

-----------------------------------------------------------------------------
(* Do: the beginning of a call, and its credentials.                        *)

Begin(t, class) ==
    /\ th[t] = Idle /\ hits[t] = -1
    /\ th' = [th EXCEPT ![t] = << IF class = "fresh" THEN [Call(class, "fresh") EXCEPT !.then = "ended"]
                                  ELSE IF class \in {"login", "logout", "status"} THEN Call(class, class)
                                  ELSE Call(class, "creds") >>]
    /\ hits' = [hits EXCEPT ![t] = 0]
    /\ UNCHANGED <<authVars, probeVars, up, refused, wrong, unsaved, events>>

\* The file cannot be read, is damaged, or is not the bridge's.
Unreadable == "store" \in Faults

\* accountInfo: only while upstream may be asked at all.
MayAsk == gate.state \in {"authenticated", "refreshing"}

\* The state is read under the mutex, and acted on after it was given up.
Status(t) ==
    /\ At(t, "status") /\ Free
    /\ \/ MayAsk /\ Goto(t, "creds")
       \/ (~MayAsk \/ Unreadable) /\ Ends(t, NoError)
    /\ UNCHANGED <<authVars, probeVars, up, pastVars>>

\* ensureLoaded: what is to be read before anything else is done under the mutex.
Load(t) ==
    /\ \E pc \in {"creds", "stale", "fresh", "session"} : At(t, pc)
    /\ Free /\ ~loaded
    /\ \/ /\ loaded' = TRUE /\ cred' = store
          /\ gate' = IF Known(store) THEN [gate EXCEPT !.state = "authenticated"]
                     ELSE [gate EXCEPT !.state = "not_configured"]
          /\ UNCHANGED th
       \/ /\ Unreadable
          /\ terminal("keystore_unavailable", Local("keystore_unavailable"))
          /\ UNCHANGED <<loaded, cred>>
          /\ Denies(t, Local("keystore_unavailable"))
    /\ UNCHANGED <<mode, store, lock, probeVars, up, pastVars>>

\* Whether the ticket must be renewed before it is used, and whether the refresh
\* token can do it.
NeedsRefresh(c)  == c.ticket = 0 \/ (mode = "oauth2" /\ c.age # "new")
RefreshUsable(c) == mode = "oauth2" /\ c.ticket # 0 /\ (c.dated => c.age # "dead")

\* Whether it should be rolled although it is good: past half its life, or not
\* renewed for a while.  Of a token without dates nobody can tell.
MayBeStale(c) == c.ticket = 0 \/ c.dated

\* renewLocked: the mutex is taken, and kept, unless the gate is shut.
Renews(t, c) ==
    IF blocked(gate)
    THEN /\ Denies(t, gate.err)
         /\ UNCHANGED <<gate, lock>>
    ELSE /\ lock' = t
         /\ gate' = [gate EXCEPT !.state = "refreshing"]
         /\ Becomes(t, [Cur(t) EXCEPT !.pc = IF RefreshUsable(c) THEN "refresh" ELSE "password",
                                      !.way = "renew"])

Unconfigured(t) ==
    /\ ~Known(cred)
    /\ gate' = [gate EXCEPT !.state = "not_configured"]
    /\ Denies(t, Local("reauth_required"))
    /\ UNCHANGED <<cred, lock>>

Ready(t, pc) == At(t, pc) /\ Free /\ loaded

Credentials(t) ==
    /\ Ready(t, "creds")
    /\ \/ Unconfigured(t)
       \/ Known(cred) /\ NeedsRefresh(cred) /\ Renews(t, cred) /\ UNCHANGED cred
       \/ /\ Known(cred) /\ ~NeedsRefresh(cred)
          /\ gate' = IF gate.state = "authenticated" THEN gate ELSE Signed
          /\ Becomes(t, [Cur(t) EXCEPT !.used = cred.ticket,
                !.pc = IF mode = "oauth2" /\ Cur(t).class = "chunk" THEN "session" ELSE "call"])
          /\ UNCHANGED <<cred, lock>>
    /\ UNCHANGED <<mode, loaded, store, probeVars, up, pastVars>>

\* OAuth2.SessionID: a session for the chunk endpoint, minted with the password
\* outside the mutex and past the gate.
SessionID(t) ==
    /\ Ready(t, "session")
    /\ IF cred.sess # 0 THEN Becomes(t, [Cur(t) EXCEPT !.sess = cred.sess, !.used = 0, !.pc = "call"])
       ELSE IF cred.pw = "kept" THEN Becomes(t, [Cur(t) EXCEPT !.pc = "mint", !.way = "mint"])
       ELSE Fails(t, Local("reauth_required"))
    /\ UNCHANGED <<authVars, probeVars, up, pastVars>>

-----------------------------------------------------------------------------
(* Upstream.                                                                *)

Json(status, says) == [status |-> status, shape |-> "json", says |-> says]
Empty(status)      == [status |-> status, shape |-> "empty", says |-> "nothing"]
Page(status)       == [status |-> status, shape |-> "html", says |-> "nothing"]

\* What may come back although the ticket is good: upstream has not acted, or
\* (an answer is lost, or is a 5xx, which is judged alike) may have.
Declines == (IF "refuse" \in Faults THEN {Json(403, "permission")} ELSE {})
                \cup (IF "busy" \in Faults THEN {Json(429, "nothing")} ELSE {})
                \cup (IF "edge" \in Faults THEN {Page(401)} ELSE {})
Doubtful == IF "lost" \in Faults THEN {Local("network")} ELSE {}

GoodFor(c) == IF c.class = "chunk" /\ mode = "oauth2" THEN c.sess \in up.sessions ELSE c.used \in up.tickets

\* The call itself.  A caller's own call, and not its probe, is what hits counts.
Hit(t) == IF InProbe(t) THEN hits ELSE [hits EXCEPT ![t] = @ + 1]

\* noteSuccess: a success revokes the denial.
Witnessed(class) == witness' = witness \cup {class} /\ denied' = denied \ {class}

Succeeds(t) ==
    /\ At(t, "call") /\ GoodFor(Cur(t))
    /\ hits' = Hit(t)
    /\ Witnessed(Cur(t).class)
    /\ Ends(t, NoError)
    /\ UNCHANGED <<authVars, probe, up, refused, wrong, unsaved, events>>

\* fn fails on the way, for what it writes to or for want of bytes.
StreamBreaks(t) ==
    /\ At(t, "call") /\ Cur(t).class = "stream" /\ GoodFor(Cur(t))
    /\ hits' = Hit(t)
    /\ Witnessed("stream")
    /\ Fails(t, Local("network"))
    /\ UNCHANGED <<authVars, probe, up, refused, wrong, unsaved, events>>

Errs(t) ==
    /\ At(t, "call") /\ GoodFor(Cur(t))
    /\ \/ \E ev \in Declines : Fails(t, Classified(ev)) /\ UNCHANGED hits
       \/ \E e \in Doubtful : Fails(t, e) /\ hits' \in {hits, Hit(t)}
    /\ UNCHANGED <<authVars, probeVars, up, refused, wrong, unsaved, events>>

\* The chunk endpoint answers a dead session with a page, the API with an error.
IsRefused(t) ==
    /\ At(t, "call") /\ ~GoodFor(Cur(t))
    /\ Fails(t, Classified(IF Cur(t).class = "chunk" THEN Page(401) ELSE Json(401, "expired")))
    /\ refused' = IF Cur(t).used = 0 THEN refused ELSE refused \cup {Cur(t).used}
    /\ UNCHANGED <<authVars, probeVars, up, hits, wrong, unsaved, events>>

\* A new ticket, and the refresh token that comes with it (up.live); the old ones
\* stay good, but for the refresh token that is exchanged for it ("rolling").
\* up.astray is history: refresh tokens that are good for nothing, and whose successor
\* nobody could have saved, because the answer was lost, the daemon was killed before
\* it could, or upstream revoked them itself.
Issue(n) == up' = [up EXCEPT !.tickets = @ \cup {n}, !.live = @ \cup {n}, !.issued = n]

Forgets ==
    /\ "forget" \in Faults /\ Happens
    /\ \/ \E n \in up.tickets : up' = [up EXCEPT !.tickets = @ \ {n}]
       \/ \E s \in up.sessions : up' = [up EXCEPT !.sessions = @ \ {s}]
    /\ UNCHANGED <<authVars, probeVars, th, hits, refused, wrong, unsaved>>

PasswordChanges ==
    /\ "password" \in Faults /\ up.pwOK /\ Happens
    /\ \E live \in {up.live, {}}, good \in {up.tickets, {}} :
           up' = [up EXCEPT !.pwOK = FALSE, !.live = live, !.tickets = good,
                            !.astray = @ \cup (up.live \ live)]
    /\ UNCHANGED <<authVars, probeVars, th, hits, refused, wrong, unsaved>>

\* Of the credentials' own clock.
Ages ==
    /\ mode = "oauth2" /\ cred.ticket # 0 /\ cred.age # "dead" /\ lock = NoCaller
    /\ "age" \in Faults /\ Happens
    /\ cred' = [cred EXCEPT !.age = IF @ = "new" THEN "due" ELSE "dead"]
    /\ store' = IF store.ticket = cred.ticket THEN [store EXCEPT !.age = cred'.age] ELSE store
    /\ UNCHANGED <<mode, loaded, gate, lock, probeVars, th, up, hits, refused, wrong, unsaved>>

-----------------------------------------------------------------------------
(* The renewal ladder, under the mutex.                                     *)

Granted(t, n) == Becomes(t, [Cur(t) EXCEPT !.got = n, !.pc = "save"])

\* A grant that fails: "check" first, when the evidence proves nothing.
GrantFails(t, e, rung) ==
    Becomes(t, [Cur(t) EXCEPT !.err = e, !.pc = IF e.ambiguous /\ ~InProbe(t) THEN "check" ELSE rung])

\* A grant of no use; at the bound on tickets, every grant.
GrantTrouble == (IF "lost" \in Faults \/ MaxTickets \in {up.issued, up.lastSession}
                 THEN {Local("network")} ELSE {})
                   \cup (IF "odd" \in Faults THEN {Classified(Empty(401))} ELSE {})

\* An answer that is lost may have rotated the tokens.
RefreshGrant(t) ==
    LET n       == up.issued + 1
        rotated == [up EXCEPT !.tickets = @ \cup {n}, !.live = (@ \ {cred.ticket}) \cup {n}, !.issued = n]
    IN
    /\ At(t, "refresh")
    /\ \/ /\ cred.ticket \in up.live /\ n <= MaxTickets
          /\ \/ Granted(t, n) /\ up' = rotated
             \/ /\ "lost" \in Faults /\ GrantFails(t, Local("network"), "graded")
                /\ up' = [rotated EXCEPT !.astray = @ \cup {cred.ticket}]
       \/ /\ cred.ticket \notin up.live /\ UNCHANGED up
          /\ GrantFails(t, Classified(Json(400, "invalid_grant")), "graded")
       \/ \E e \in GrantTrouble : GrantFails(t, e, "graded") /\ UNCHANGED up
    /\ UNCHANGED <<authVars, probeVars, pastVars>>

\* The password, in a grant or a login; "repeated failures are what triggers a
\* captcha lock".
PasswordGrant(t) ==
    LET n == up.issued + 1 IN
    /\ At(t, "password")
    /\ IF cred.pw = "none"
       THEN /\ terminal("reauth_required", Local("reauth_required")) /\ lock' = NoCaller
            /\ Denies(t, Local("reauth_required"))
            /\ UNCHANGED <<up, wrong>>
       ELSE /\ \/ up.pwOK /\ n <= MaxTickets /\ Issue(n) /\ Granted(t, n) /\ UNCHANGED wrong
               \/ ~up.pwOK /\ UNCHANGED up /\ wrong' = TRUE
                    /\ \E s \in {"credentials", "captcha"} :
                           GrantFails(t, Classified(Json(401, s)), "graded")
               \/ \E e \in GrantTrouble : GrantFails(t, e, "graded") /\ UNCHANGED <<up, wrong>>
            /\ UNCHANGED <<gate, lock>>
    /\ UNCHANGED <<mode, cred, loaded, store, probeVars, hits, refused, unsaved, events>>

\* classifyRenewFailure: the next rung, the end, or a pause; whichever way it is
\* not the next rung, the mutex is given up.
Graded(t) ==
    LET e    == Cur(t).err
        next == /\ mode = "oauth2" /\ drivesAuth(e) /\ e.kind \in {"refresh_token_failed", "token_expired"} IN
    /\ At(t, "graded")
    /\ \/ /\ next /\ RefreshUsable(cred)
          /\ UNCHANGED <<gate, lock>>
          /\ Becomes(t, [Cur(t) EXCEPT !.pc = "password"])
       \/ /\ ~(next /\ RefreshUsable(cred)) /\ lock' = NoCaller
          /\ \/ next /\ terminal("reauth_required", Local("reauth_required"))
             \/ /\ drivesAuth(e) /\ e.kind \in {"reauth_required", "captcha_required"}
                /\ terminal(e.kind, Local(e.kind))
             \/ /\ ~next /\ ~(drivesAuth(e) /\ e.kind \in {"reauth_required", "captcha_required"})
                /\ backoff(e)
          /\ Denies(t, gate'.err)
    /\ UNCHANGED <<mode, cred, loaded, store, probeVars, up, pastVars>>

-----------------------------------------------------------------------------
(* adopt: on disk, and only then in memory.                                 *)

Adopted(t) ==
    CASE Cur(t).way = "renew" -> [cred EXCEPT !.ticket = Cur(t).got, !.age = "new", !.dated = TRUE]
      [] Cur(t).way = "mint"  -> [cred EXCEPT !.sess = Cur(t).got]
      [] OTHER                -> [NoCred EXCEPT !.ticket = Cur(t).got, !.dated = TRUE,
                                                !.pw = IF Cur(t).way = "login" THEN "kept" ELSE "none"]

\* A write that fails replaces the file by a rename or leaves it: one whose mode
\* could not be restricted is reported as not written although it was.
LeftBy(c) == {store, Stored(c)}

Written(c) ==
    \/ store' = Stored(c) /\ UNCHANGED unsaved
    \/ "store" \in Faults /\ unsaved' = TRUE /\ store' \in LeftBy(c)

\* The file is removed, or cannot be.
Removed == \/ store' = NoCred /\ UNCHANGED unsaved
           \/ "store" \in Faults /\ unsaved' = TRUE /\ UNCHANGED store

\* Mutant: what a renewal brought is kept in memory alone.
SaveLogins(t) ==
    /\ At(t, "save") /\ lock = IF Cur(t).way = "renew" THEN t ELSE NoCaller
    /\ \/ Cur(t).way = "renew" /\ UNCHANGED store
       \/ Cur(t).way # "renew" /\ store' = Stored(Adopted(t))
    /\ lock' = t
    /\ Goto(t, "keep")
    /\ UNCHANGED <<mode, cred, loaded, gate, probeVars, up, hits, refused, wrong, unsaved, events>>

\* A failure to save is logged: the credentials survive in memory alone.
Save(t) ==
    /\ At(t, "save") /\ lock = IF Cur(t).way = "renew" THEN t ELSE NoCaller
    /\ \/ /\ Cur(t).way = "mint" /\ ~Known(cred)     \* signed out meanwhile
          /\ UNCHANGED <<store, unsaved, lock>>
          /\ Becomes(t, [Cur(t) EXCEPT !.sess = Cur(t).got, !.used = 0, !.got = 0, !.pc = "call"])
       \/ /\ Cur(t).way = "mint" => Known(cred)
          /\ Written(Adopted(t))
          /\ lock' = t
          /\ Goto(t, "keep")
    /\ UNCHANGED <<mode, cred, loaded, gate, probeVars, up, hits, refused, wrong, events>>

Keep(t) ==
    LET c == Cur(t) IN
    /\ At(t, "keep")
    /\ cred' = Adopted(t) /\ loaded' = TRUE
    /\ lock' = NoCaller
    /\ gate' = IF c.way = "mint" THEN gate ELSE Signed
    /\ wrong' = (wrong /\ c.way \notin {"login", "guest"})
    /\ \/ c.way = "mint" /\ Becomes(t, [c EXCEPT !.sess = c.got, !.used = 0, !.got = 0, !.pc = "call"])
       \/ /\ c.way \in {"login", "guest"} \/ (c.way = "renew" /\ c.then = "ended")
          /\ Ends(t, NoError)
       \/ /\ c.way = "renew" /\ c.then = "creds"
          /\ Becomes(t, [c EXCEPT !.then = "call", !.got = 0, !.used = 0, !.pc = "creds"])
       \/ /\ c.way = "renew" /\ c.then = "call"
          /\ Becomes(t, IF c.class = "chunk" /\ mode = "oauth2"
                        THEN [c EXCEPT !.got = 0, !.pc = "session"]
                        ELSE [c EXCEPT !.used = c.got, !.got = 0, !.pc = "call"])
    /\ UNCHANGED <<mode, store, probeVars, up, hits, refused, unsaved, events>>

\* The mint of a session for the chunk endpoint: SessionAuth.login.
Mint(t) ==
    LET n == up.lastSession + 1 IN
    /\ At(t, "mint")
    /\ \/ /\ up.pwOK /\ n <= MaxTickets
          /\ up' = [up EXCEPT !.sessions = @ \cup {n}, !.lastSession = n]
          /\ Granted(t, n) /\ UNCHANGED wrong
       \/ /\ ~up.pwOK /\ UNCHANGED up /\ wrong' = TRUE
          /\ Fails(t, Classified(Json(401, "credentials")))
       \/ \E e \in GrantTrouble :
             Fails(t, e) /\ UNCHANGED <<up, wrong>>
    /\ UNCHANGED <<authVars, probeVars, hits, refused, unsaved, events>>

-----------------------------------------------------------------------------
(* Login, logout, EnsureFresh.                                              *)

\* The user's password is the right one: the grant is made outside the mutex.
\* persist_password decides whether it is kept.
Login(t) ==
    LET n == up.issued + 1 IN
    /\ At(t, "login") /\ n <= MaxTickets
    /\ up' = [up EXCEPT !.tickets = @ \cup {n}, !.live = @ \cup {n}, !.issued = n, !.pwOK = TRUE]
    /\ \E pw \in Passwords :
           Becomes(t, [Cur(t) EXCEPT !.got = n, !.pc = "save",
                                     !.way = IF pw = "kept" THEN "login" ELSE "guest"])
    /\ UNCHANGED <<authVars, probeVars, pastVars>>

\* Mutant: the store is emptied after the mutex is given up, as in session mode.
LogoutLate(t) ==
    /\ At(t, "logout") /\ Free /\ mode = "oauth2"
    /\ cred' = NoCred /\ loaded' = TRUE /\ gate' = NoGate
    /\ UNCHANGED store /\ Goto(t, "erase")
    /\ UNCHANGED <<mode, lock, probeVars, up, pastVars>>

\* OAuth2: all of it under the mutex.
Logout(t) ==
    /\ At(t, "logout") /\ Free /\ mode = "oauth2"
    /\ cred' = NoCred /\ loaded' = TRUE /\ gate' = NoGate
    /\ Removed /\ Ends(t, NoError)
    /\ UNCHANGED <<mode, lock, probeVars, up, hits, refused, wrong, events>>

\* SessionAuth: the store is emptied after the mutex was given up and upstream told.
SessionLogout(t) ==
    /\ At(t, "logout") /\ Free /\ mode = "session"
    /\ cred' = NoCred /\ loaded' = TRUE /\ gate' = NoGate
    /\ Goto(t, "erase")
    /\ UNCHANGED <<mode, store, lock, probeVars, up, pastVars>>

Erase(t) ==
    /\ At(t, "erase")
    /\ Removed /\ Ends(t, NoError)
    /\ UNCHANGED <<mode, cred, loaded, gate, lock, probeVars, up, hits, refused, wrong, events>>

\* OAuth2: nothing is due, or the token is near its end or at half its life.
EnsureFresh(t) ==
    /\ Ready(t, "fresh") /\ mode = "oauth2"
    /\ \/ Unconfigured(t)
       \/ /\ Known(cred) /\ (cred.dated => ~NeedsRefresh(cred)) /\ cred.ticket # 0
          /\ Ends(t, NoError) /\ UNCHANGED <<cred, gate, lock>>
       \/ Known(cred) /\ MayBeStale(cred) /\ Renews(t, cred) /\ UNCHANGED cred
    /\ UNCHANGED <<mode, loaded, store, probeVars, up, pastVars>>

\* SessionAuth: a session that does not exist, or of which nobody could say, goes.
EnsureSession(t) ==
    /\ Ready(t, "fresh") /\ mode = "session"
    /\ \/ Unconfigured(t)
       \/ /\ cred.ticket # 0 /\ cred.ticket \in up.tickets
          /\ Ends(t, NoError) /\ gate' = Signed /\ UNCHANGED <<cred, lock>>
       \/ /\ Known(cred)
          /\ cred.ticket \notin up.tickets \/ Faults \cap {"lost", "busy", "edge"} # {}
          /\ cred' = [cred EXCEPT !.ticket = 0] /\ Renews(t, cred')
    /\ UNCHANGED <<mode, loaded, store, probeVars, up, pastVars>>

-----------------------------------------------------------------------------
(* A renewal after a refusal.                                              *)

\* Mutant: a token somebody has replaced already is replaced again.
RefreshAlways(t) ==
    /\ Ready(t, "stale") /\ mode = "oauth2"
    /\ \/ Unconfigured(t)
       \/ Known(cred) /\ Renews(t, cred) /\ UNCHANGED cred
    /\ UNCHANGED <<mode, loaded, store, probeVars, up, pastVars>>

\* OAuth2: a token that is not the one refused is spared; an empty one, sent with a
\* session id, spares none.  An error of it is the request's.
RefreshStale(t) ==
    LET c == Cur(t) IN
    /\ Ready(t, "stale") /\ mode = "oauth2" /\ UNCHANGED cred
    /\ \/ /\ c.used # 0 /\ cred.ticket \notin {0, c.used}
          /\ Becomes(t, [c EXCEPT !.then = "call", !.used = 0, !.pc = "creds"])
          /\ UNCHANGED <<gate, lock>>
       \/ /\ c.used = 0 \/ cred.ticket \in {0, c.used}
          /\ Unconfigured(t) \/ (Known(cred) /\ Renews(t, cred))
    /\ UNCHANGED <<mode, loaded, store, probeVars, up, pastVars>>

\* SessionAuth: the session is dropped, whoever has renewed it.
Refresh(t) ==
    /\ Ready(t, "stale") /\ mode = "session"
    /\ \/ Unconfigured(t)
       \/ Known(cred) /\ cred' = [cred EXCEPT !.ticket = 0] /\ Renews(t, cred')
    /\ UNCHANGED <<mode, loaded, store, probeVars, up, pastVars>>

-----------------------------------------------------------------------------
(* The probe.                                                               *)

\* Where an error that has been looked into goes on: to the grant's grading when
\* it was a grant that met it.
After(t, c) == IF HoldsBySelf(t) THEN [c EXCEPT !.pc = "graded"] ELSE Judged(c)

\* markDenied and sawSuccess: what the evidence gathered so far makes of a refusal
\* although the account works.
Confirm(e, class) ==
    IF class \in witness THEN [e EXCEPT !.resolved = TRUE, !.retry = "yes"]
    ELSE IF class \notin denied THEN [e EXCEPT !.resolved = TRUE, !.retry = "yes", !.budget = 1]
    ELSE [e EXCEPT !.resolved = TRUE, !.retry = "no"]

Condemn(e, found) ==
    [e EXCEPT !.resolved = TRUE, !.retry = "no",
              !.kind = IF found \in {"reauth_required", "captcha_required", "keystore_unavailable"}
                       THEN found ELSE @]

\* resolve, once a probe's result is at hand.
Resolve(t) ==
    LET c == Cur(t) IN
    /\ At(t, "check") /\ probe.recent
    /\ IF probe.found = "none"
       THEN Becomes(t, After(t, [c EXCEPT !.err = Confirm(c.err, c.class)]))
            /\ denied' = IF c.class \in witness THEN denied ELSE denied \cup {c.class}
       ELSE Becomes(t, After(t, [c EXCEPT !.err = Condemn(c.err, probe.found)]))
            /\ UNCHANGED denied
    /\ UNCHANGED <<authVars, probe, witness, up, pastVars>>

\* check: one probe at a time; the others wait for it.  The probe is a call of the
\* SDK like any other, but leaves an ambiguity of its own standing.
Probe(t) ==
    /\ At(t, "check") /\ ~probe.recent /\ probe.by = NoCaller
    /\ ~InProbe(t)
    /\ probe' = [probe EXCEPT !.by = t]
    /\ th' = [th EXCEPT ![t] = << Call("probe", "creds") >> \o @]
    /\ UNCHANGED <<authVars, witness, denied, up, pastVars>>

\* Mutant: a probe that failed is not said to be over.
ProbedStuck(t) ==
    /\ At(t, "ended") /\ InProbe(t) /\ Cur(t).err.kind = "none"
    /\ probe' = [recent |-> TRUE, by |-> NoCaller, found |-> "none"]
    /\ th' = [th EXCEPT ![t] = Tail(@)]
    /\ UNCHANGED <<authVars, witness, denied, up, pastVars>>

Probed(t) ==
    /\ At(t, "ended") /\ InProbe(t)
    /\ probe' = [recent |-> TRUE, by |-> NoCaller, found |-> Cur(t).err.kind]
    /\ th' = [th EXCEPT ![t] = Tail(@)]
    /\ UNCHANGED <<authVars, witness, denied, up, pastVars>>

\* DefaultProbeInterval has gone by.
IntervalEnds ==
    /\ probe.recent \/ denied # {}
    /\ Happens
    /\ probe' = [probe EXCEPT !.recent = FALSE] /\ denied' = {}
    /\ UNCHANGED <<authVars, witness, th, up, hits, refused, wrong, unsaved>>

-----------------------------------------------------------------------------

\* A renewal whose grant was answered, and whose tokens are not on disk yet.
Saving(t) == At(t, "save") /\ Cur(t).way = "renew"

Crash ==
    /\ "crash" \in Faults /\ Happens
    /\ up' = [up EXCEPT !.astray = @ \cup IF \E t \in Callers : Saving(t) THEN {cred.ticket} ELSE {}]
    /\ cred' = NoCred /\ loaded' = FALSE /\ gate' = NoGate /\ lock' = NoCaller
    /\ probe' = [recent |-> FALSE, by |-> NoCaller, found |-> "none"]
    /\ witness' = {} /\ denied' = {}
    /\ th' = [t \in Callers |-> IF th[t] = Idle THEN Idle
                                ELSE << [Call("read", "ended") EXCEPT !.err = Local("network")] >>]
    /\ wrong' = FALSE
    /\ UNCHANGED <<mode, store, hits, refused, unsaved>>

Init ==
    /\ mode \in Modes
    /\ \E pw \in Passwords : cred = [NoCred EXCEPT !.ticket = 1, !.pw = pw, !.dated = TRUE]
    /\ loaded = TRUE /\ store = Stored(cred) /\ gate = Signed /\ lock = NoCaller
    /\ probe = [recent |-> FALSE, by |-> NoCaller, found |-> "none"]
    /\ witness = {} /\ denied = {}
    /\ th = [t \in Callers |-> Idle]
    /\ up = [tickets |-> {1}, live |-> {1}, astray |-> {}, issued |-> 1, sessions |-> {},
             lastSession |-> 0, pwOK |-> TRUE]
    /\ hits = [t \in Callers |-> -1] /\ refused = {} /\ wrong = FALSE /\ unsaved = FALSE
    /\ events = 0

AuthStep(t) == Load(t) \/ Status(t) \/ Credentials(t) \/ SessionID(t) \/ RefreshStale(t) \/ Refresh(t)
                  \/ EnsureFresh(t) \/ EnsureSession(t)
                  \/ Save(t) \/ Keep(t) \/ Logout(t) \/ SessionLogout(t) \/ Erase(t)
CallStep(t) == Succeeds(t) \/ StreamBreaks(t) \/ Errs(t) \/ IsRefused(t)
GrantStep(t) == RefreshGrant(t) \/ PasswordGrant(t) \/ Graded(t) \/ Mint(t) \/ Login(t)
ProbeStep(t) == Resolve(t) \/ Probe(t) \/ Probed(t)

Step(t) == AuthStep(t) \/ CallStep(t) \/ GrantStep(t) \/ ProbeStep(t)

Next ==
    \/ \E t \in Callers : (\E c \in Classes : Begin(t, c)) \/ Step(t)
    \/ BackoffEnds \/ IntervalEnds \/ Forgets \/ PasswordChanges \/ Ages \/ Crash

Spec == Init /\ [][Next]_vars
\* A thread that can go on does: the daemon's callers are goroutines, their HTTP
\* calls have timeouts, and the mutex is not held for ever by others.
FairSpec ==
    Spec /\ \A t \in Callers : /\ WF_vars(AuthStep(t)) /\ WF_vars(CallStep(t))
                               /\ WF_vars(GrantStep(t)) /\ WF_vars(ProbeStep(t))

-----------------------------------------------------------------------------
(* Properties.                                                              *)

Errors == [kind : Kinds, code : Statuses, shape : Shapes, ambiguous : BOOLEAN,
           resolved : BOOLEAN, retry : {"yes", "no", "default"}, budget : {0, 1}]

Calls ==
    [pc : {"creds", "session", "call", "stale", "fresh", "refresh", "password", "graded", "check",
           "save", "keep", "mint", "login", "logout", "erase", "status", "ended"},
     class : AllClasses \cup {"probe"}, used : Tickets, sess : Tickets, err : Errors,
     refreshed : BOOLEAN, tries : 0 .. MaxRetries, then : {"call", "creds", "ended"},
     got : Tickets, way : {"renew", "mint", "login", "guest"}]

Gate     == [state : AuthStates, err : Errors, waiting : BOOLEAN]
Probing  == [recent : BOOLEAN, by : Callers \cup {NoCaller}, found : Kinds]
Upstream == [tickets : SUBSET Tickets, live : SUBSET Tickets, astray : SUBSET Tickets,
             issued : Tickets, sessions : SUBSET Tickets, lastSession : Tickets, pwOK : BOOLEAN]

\* The variables keep their types, and nobody retries past RetryPolicy.Max, also
\* across the replay that follows a renewal (client.go, Do).
TypeOK ==
    /\ mode \in Modes /\ cred \in Cred /\ store \in Cred /\ loaded \in BOOLEAN /\ gate \in Gate
    /\ lock \in Callers \cup {NoCaller} /\ probe \in Probing
    /\ witness \subseteq AllClasses \cup {"probe"} /\ denied \subseteq AllClasses \cup {"probe"}
    /\ th \in [Callers -> Seq(Calls)] /\ \A t \in Callers : Len(th[t]) <= 2
    /\ up \in Upstream /\ hits \in [Callers -> Nat \cup {-1}] /\ refused \subseteq Tickets
    /\ wrong \in BOOLEAN /\ unsaved \in BOOLEAN /\ events \in 0 .. MaxEvents

\* A write is done upstream at most once, and a reader is given the bytes of one
\* answer only, whatever mixture of lost answers, 429s, refusals, renewals and
\* replays they meet (client.go, Do: "upstream declined to act, so a second attempt
\* cannot duplicate anything"; DoStream: "once fn has seen a byte, replaying the
\* request would duplicate it").
AtMostOnce ==
    \A t \in Callers :
        th[t] # Idle /\ th[t][Len(th[t])].class \in {"write", "stream"} => hits[t] <= 1

\* Whoever exchanges the refresh token of a token that is not due does so for a
\* token upstream has refused: callers that meet one expiry together rotate once
\* (oauth2.go, RefreshStale).  An upload that was sent with a session id cannot
\* say which token it means, and EnsureFresh renews at half a token's life.
RotatedOnce ==
    \A t \in Callers :
        At(t, "refresh") /\ Cur(t).class \notin {"chunk", "fresh"} =>
            cred.age # "new" \/ cred.ticket \in refused

\* Once upstream has refused the stored password nobody offers it again before the
\* user has logged in, or the daemon was started again (oauth2.go:22).
StopsDead == wrong => \A t \in Callers : ~(At(t, "password") /\ cred.pw = "kept")

\* SessionAuth keeps to that, whatever is asked at once; OAuth2 does not, because its
\* Credentials open a gate that was shut for good (oauth2.go:107).
SessionStopsDead == mode = "session" => StopsDead

\* What a restart would find is what memory holds, through renewals, minted
\* sessions, logins and a logout, but while they are being written and unless
\* saving failed and was logged (oauth2.go, adopt).  That memory holds what upstream
\* still takes it does not say: SpentIsExcused does.
StoreLeads ==
    mode = "oauth2" /\ loaded /\ ~unsaved /\ lock = NoCaller => store = Stored(cred)

\* The store holds a refresh token that has been exchanged only between the answer of
\* that grant and the save that follows it, or if that answer was lost or a crash came
\* in between; whatever renewals, logins, logouts and crashes there are, and whether
\* anybody has read the store since (oauth2.go, renewLocked and adopt).
SpentIsExcused ==
    mode = "oauth2" /\ ~unsaved /\ store.ticket \notin {0} \cup up.live \cup up.astray =>
        \E t \in Callers : Saving(t)

\* adopt, oauth2.go:389: "a crash mid-rotation can never leave the store holding a
\* refresh token upstream has already invalidated".
RotationSurvivesCrash ==
    mode = "oauth2" /\ ~unsaved /\ ~loaded => store.ticket \in {0} \cup up.live

\* Every request ends: nobody waits for ever for the mutex, for a probe in flight
\* or in the loop (client.go:176, "safe for concurrent use").
RequestsEnd == \A t \in Callers : th[t] # Idle ~> (th[t] # Idle /\ Cur(t).pc = "ended" /\ ~InProbe(t))
=============================================================================
