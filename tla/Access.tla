------------------------------- MODULE Access -------------------------------
(***************************************************************************)
(* Who may do what: the handler's credentials, its gate, the login form    *)
(* with its signed sessions and attempt limiter, sign-out, and the write   *)
(* controls with their policy, CSRF check and audit trail.                 *)
(*                                                                         *)
(* Requests run concurrently, a goroutine each.  A request looks its       *)
(* session up afresh at every check it makes, and a lookup reads the clock *)
(* twice, once against the cookie's expiry and once against the sign-outs; *)
(* each of those is a step, and others act in between.                     *)
(*                                                                         *)
(* A cookie is the number of the login that issued it; one that does not   *)
(* verify is passed over like one that has expired, and left out.  A CSRF  *)
(* token is the number of the session it is derived from, 0 any other.     *)
(***************************************************************************)
EXTENDS Naturals, Sequences, FiniteSets, Functions, FiniteSetsExt

CONSTANTS Threads,      \* requests under way at once
          Clients,      \* transport addresses
          Operators,    \* the subjects PasswordCheck may return
          Script,       \* the subject of the registered token
          Permitted,    \* the subjects the ControlPolicy admits
          TTL,          \* sessionTTL, in ticks
          Second,       \* ticks in a second, the unit of a cookie's expiry
          Burst,        \* loginBurst
          LoginWindow,  \* loginWindow, in ticks
          Deployments,  \* the options the handler may be given
          Earlier,      \* the sessions an earlier process may have signed
          MaxClock, MaxSessions, Mixes
                        \* bounds of the model: ticks, sessions, how many requests of each kind

\* The kinds of request told apart.
Kinds == {"view", "control", "login", "logout"}

\* A session as its cookie tells it.
Session == [subject : Operators, expiry : Nat]

ASSUME AccessAssumption ==
    /\ TTL \in Nat /\ Second \in Nat \ {0} /\ TTL >= Second
    /\ Burst \in Nat \ {0} /\ LoginWindow \in Nat
    /\ MaxClock \in Nat \ {0} /\ MaxSessions \in Nat
    /\ Mixes \subseteq [Kinds -> Nat]
    /\ Script \notin Operators
    /\ Deployments \subseteq [login : BOOLEAN, tokens : BOOLEAN, controls : BOOLEAN, requireAuth : BOOLEAN]
    \* An earlier process signed its sessions before this one started, for as long.
    /\ \A old \in Earlier : /\ old \in Seq(Session)
                            /\ \A id \in DOMAIN old : old[id].expiry <= 1 + TTL

VARIABLES clock,
          conf,         \* the options New accepted
          issued,       \* the sessions signed so far: [subject, expiry]
          dead,         \* revocations: session -> expiry
          seen,         \* attemptLimiter: client -> [count, until]
          browser,      \* client -> the login token of its cookie and of the page it shows
          queue,        \* the registered queue: [paused, range]
          req,          \* thread -> its request
          past          \* history: how many requests, the sign-outs, the password checks

vars == <<clock, conf, issued, dead, seen, browser, queue, req, past>>

NoRequest ==
    [pc |-> "free", kind |-> "view", cookies |-> <<>>, csrf |-> 0, token |-> FALSE, client |-> "",
     stage |-> "", i |-> 1, found |-> 0, read |-> 0, via |-> "", subject |-> "",
     held |-> FALSE, out |-> {}, applied |-> FALSE, audit |-> <<>>]

NewQueue == [paused |-> FALSE, range |-> 1]

\* The combinations of options that New takes.
New(c) ==
    /\ c.controls => c.login \/ c.tokens
    /\ c.requireAuth => c.login \/ c.tokens

\* A process starts with nothing in memory.  The cookies that an earlier one signed with
\* the same secret are still good, whether or not they were signed out there.
Init ==
    /\ clock = 1
    /\ conf \in {c \in Deployments : New(c)}
    /\ issued \in (IF conf.login THEN Earlier ELSE {<<>>})
    /\ dead = <<>> /\ seen = <<>>
    /\ browser = [c \in Clients |-> [cookie |-> 0, form |-> 0]]
    /\ queue = NewQueue
    /\ req = [t \in Threads |-> NoRequest]
    /\ past = [requests |-> [k \in Kinds |-> 0], out |-> {}, checks |-> [c \in Clients |-> <<>>]]

----------------------------------------------------------------------------
(* Sessions and sign-outs. *)

\* Mutant: a part of a second counts as a whole one.
SignSessionUp(subject) ==
    [subject |-> subject, expiry |-> ((clock + TTL + Second - 1) \div Second) * Second]

\* signSession keeps the expiry in whole seconds.
SignSession(subject) == [subject |-> subject, expiry |-> ((clock + TTL) \div Second) * Second]

\* Whether a session was signed out.
IsRevoked(id) == id \in DOMAIN dead /\ clock < dead[id]

\* Mutant: the sweep keeps what has expired and drops the rest.
SweepLive == Restrict(dead, {id \in DOMAIN dead : clock > dead[id]})

\* The sign-outs less those whose sessions have expired.
Sweep == Restrict(dead, {id \in DOMAIN dead : clock <= dead[id]})

Revoke(id) == [k \in DOMAIN Sweep \union {id} |-> IF k = id THEN issued[id].expiry ELSE dead[k]]

\* A lookup starts over, on behalf of one of the request's checks.
LookUp(r, stage) == [r EXCEPT !.pc = "scan", !.stage = stage, !.i = 1, !.found = 0]

\* Without a login form there are no sessions to find.
Carried(r) == IF conf.login THEN r.cookies ELSE <<>>

\* verifySession: the expiry of the next cookie.
ReadExpiry(t) ==
    /\ req[t].pc = "scan" /\ req[t].i <= Len(Carried(req[t]))
    /\ LET r == req[t]
           id == r.cookies[r.i] IN
       req' = [req EXCEPT ![t] =
           IF clock <= issued[id].expiry
           THEN [r EXCEPT !.pc = "revoked"] ELSE [r EXCEPT !.i = r.i + 1]]
    /\ UNCHANGED <<clock, conf, issued, dead, seen, browser, queue, past>>

\* Then whether it was signed out.
ReadRevoked(t) ==
    /\ req[t].pc = "revoked"
    /\ LET r == req[t]
           id == r.cookies[r.i] IN
       req' = [req EXCEPT ![t] =
           IF IsRevoked(id)
           THEN [r EXCEPT !.pc = "scan", !.i = r.i + 1]
           ELSE [r EXCEPT !.pc = "scanned", !.found = id, !.read = clock]]
    /\ UNCHANGED <<clock, conf, issued, dead, seen, browser, queue, past>>

\* The lookup of a check is over, with the session it found or with 0.
LookedUp(r, stage) ==
    /\ r.stage = stage
    /\ r.pc = "scanned" \/ (r.pc = "scan" /\ r.i > Len(Carried(r)))

\* identify: the session first, then the token.
Identify(r) ==
    IF r.found # 0 THEN [subject |-> issued[r.found].subject, via |-> "session"]
    ELSE IF r.token THEN [subject |-> Script, via |-> "token"]
    ELSE [subject |-> "", via |-> ""]

\* Mutant: the token of any session the request carries will do.
CSRFAny(r) == r.found # 0 /\ r.csrf \in Range(r.cookies)

\* csrfFor and checkCSRF, for an identity that came by session.
CSRFHolds(r) == r.found # 0 /\ r.csrf = r.found

\* A request ends; what its answer rested on is forgotten.
Done(r) == [NoRequest EXCEPT !.pc = "done", !.kind = r.kind, !.client = r.client, !.stage = r.stage,
                             !.applied = r.applied]

\* A request ends with an entry in the audit trail.
Audited(r, subject, allowed) ==
    [Done(r) EXCEPT !.audit = Append(r.audit, [subject |-> subject, allowed |-> allowed])]

----------------------------------------------------------------------------
(* Requests. *)

\* The routes New registers, as far as they differ here.
Routes ==
    {"view"} \union (IF conf.login THEN {"login", "logout"} ELSE {})
             \union (IF conf.controls THEN {"control"} ELSE {})

\* The handler behind the gate takes the request.
Serve(r) == IF r.kind = "control" THEN LookUp(r, "policy") ELSE Done(r)

\* ServeHTTP and the first lines of gate: the login and logout pages pass, the rest
\* only where nothing gates the views.
ServeHTTP(r) ==
    IF r.kind = "login" THEN [r EXCEPT !.pc = "form"]
    ELSE IF r.kind = "logout" THEN LookUp(r, "csrf")
    ELSE IF conf.login \/ conf.requireAuth THEN LookUp(r, "gate")
    ELSE Serve(r)

\* The session cookies of a request: any number of them, in any order.
Cookies == UNION {Injection(1..n, DOMAIN issued) : n \in 0..Len(issued)}

\* There is room for one more request of a kind, in one of the mixes.
Room(kind) ==
    \E mix \in Mixes : /\ past.requests[kind] < mix[kind]
                       /\ \A k \in Kinds : past.requests[k] <= mix[k]

\* A request arrives.
Arrive(t) ==
    /\ req[t].pc \in {"free", "done"}
    /\ \E kind \in {k \in Routes : Room(k)} :
         /\ \/ /\ kind # "login"
               /\ \E cookies \in Cookies, token \in {conf.tokens /\ kind # "logout", FALSE} :
                  \E csrf \in IF kind = "view" THEN {0} ELSE {0} \union Range(cookies) :
                     req' = [req EXCEPT ![t] = ServeHTTP([NoRequest EXCEPT !.kind = kind, !.cookies = cookies,
                                    !.csrf = csrf, !.token = token, !.out = past.out])]
            \/ /\ kind = "login"
               /\ \E c \in Clients :
                     req' = [req EXCEPT ![t] = ServeHTTP([NoRequest EXCEPT !.kind = kind, !.client = c,
                                    !.csrf = browser[c].form, !.held = browser[c].cookie # 0])]
         /\ past' = [past EXCEPT !.requests[kind] = @ + 1]
    /\ UNCHANGED <<clock, conf, issued, dead, seen, browser, queue>>

\* gate refuses a request without an identity.
Gate(t) ==
    /\ LookedUp(req[t], "gate")
    /\ req' = [req EXCEPT ![t] = IF Identify(@).via = "" THEN Done(@) ELSE Serve(@)]
    /\ UNCHANGED <<clock, conf, issued, dead, seen, browser, queue, past>>

\* mayControl, for the identity found.
MayControl(id) == id.via # "" /\ id.subject \in Permitted

\* Mutant: a request the policy refuses leaves no trace.
PolicySilent(t) ==
    /\ LookedUp(req[t], "policy")
    /\ LET id == Identify(req[t]) IN
       req' = [req EXCEPT ![t] =
           IF ~MayControl(id) THEN Done(@)
           ELSE LET r == [@ EXCEPT !.via = id.via, !.subject = id.subject] IN
                IF id.via = "token" THEN [r EXCEPT !.pc = "apply"] ELSE LookUp(r, "csrf")]
    /\ UNCHANGED <<clock, conf, issued, dead, seen, browser, queue, past>>

\* control asks for the identity anew and puts it to the policy.
Policy(t) ==
    /\ LookedUp(req[t], "policy")
    /\ LET id == Identify(req[t]) IN
       req' = [req EXCEPT ![t] =
           IF ~MayControl(id) THEN Audited(@, id.subject, FALSE)
           ELSE LET r == [@ EXCEPT !.via = id.via, !.subject = id.subject] IN
                IF id.via = "token" THEN [r EXCEPT !.pc = "apply"] ELSE LookUp(r, "csrf")]
    /\ UNCHANGED <<clock, conf, issued, dead, seen, browser, queue, past>>

\* checkCSRF finds the session once more.  A control goes on to its queue, a sign-out to
\* the session it ends.
CheckCSRF(t) ==
    /\ LookedUp(req[t], "csrf")
    /\ req' = [req EXCEPT ![t] =
           IF CSRFHolds(@)
           THEN IF @.kind = "logout" THEN LookUp(@, "session")
                ELSE [@ EXCEPT !.pc = "apply"]
           ELSE IF @.kind = "logout" THEN Done(@) ELSE Audited(@, @.subject, FALSE)]
    /\ UNCHANGED <<clock, conf, issued, dead, seen, browser, queue, past>>

\* The queue after pause, resume or workers.
Controlled ==
    {[queue EXCEPT !.paused = p] : p \in BOOLEAN} \union {[queue EXCEPT !.range = n] : n \in 1..2}

\* The action runs on the named queue, which may be unknown or refuse it.
Apply(t) ==
    /\ req[t].pc = "apply"
    /\ \/ /\ queue' \in Controlled
          /\ req' = [req EXCEPT ![t].applied = TRUE, ![t].pc = "audit"]
       \/ /\ req' = [req EXCEPT ![t].pc = "audit"]
          /\ UNCHANGED queue
    /\ UNCHANGED <<clock, conf, issued, dead, seen, browser, past>>

\* And is audited.
Audit(t) ==
    /\ req[t].pc = "audit"
    /\ req' = [req EXCEPT ![t] = Audited(@, @.subject, TRUE)]
    /\ UNCHANGED <<clock, conf, issued, dead, seen, browser, queue, past>>

\* logout ends the session it finds, if there still is one.
Logout(t) ==
    /\ LookedUp(req[t], "session")
    /\ LET id == req[t].found IN
       IF id = 0
       THEN req' = [req EXCEPT ![t] = Done(@)] /\ UNCHANGED <<dead, past>>
       ELSE /\ dead' = Revoke(id)
            /\ past' = [past EXCEPT !.out = @ \union {id}]
            /\ req' = [req EXCEPT ![t] = Audited(@, issued[id].subject, TRUE)]
    /\ UNCHANGED <<clock, conf, issued, seen, browser, queue>>

----------------------------------------------------------------------------
(* The login form. *)

\* loginForm: the page comes with a token, in the form and in a cookie.
LoginForm(c) ==
    /\ conf.login /\ browser[c].form = 0 /\ Room("login")
    /\ browser' = [browser EXCEPT ![c] = [cookie |-> 1, form |-> 1]]
    /\ UNCHANGED <<clock, conf, issued, dead, seen, queue, req, past>>

\* renderLogin after a rejection: the page says why, and its form has an empty token.
Rejected(t) ==
    /\ req' = [req EXCEPT ![t] = Audited(@, "", FALSE)]
    /\ browser' = [browser EXCEPT ![req[t].client].form = 0]

\* loginSubmit: the token of the form against the cookie's.
LoginSubmit(t) ==
    /\ req[t].pc = "form"
    /\ \/ /\ req[t].held /\ req[t].csrf = 1
          /\ req' = [req EXCEPT ![t].pc = "limit"]
          /\ UNCHANGED browser
       \/ /\ ~req[t].held \/ req[t].csrf = 0
          /\ Rejected(t)
    /\ UNCHANGED <<clock, conf, issued, dead, seen, queue, past>>

\* Mutant: the attempt that opens a window is not counted in it.
AllowUncounted(c) ==
    LET live == Restrict(seen, {k \in DOMAIN seen : clock <= seen[k].until}) IN
    [k \in DOMAIN live \union {c} |->
        IF k # c THEN live[k]
        ELSE IF c \in DOMAIN live THEN [live[c] EXCEPT !.count = @ + 1]
        ELSE [count |-> 0, until |-> clock + LoginWindow]]

\* Mutant: every attempt starts the client's window again.
AllowSliding(c) ==
    LET live == Restrict(seen, {k \in DOMAIN seen : clock <= seen[k].until}) IN
    [k \in DOMAIN live \union {c} |->
        IF k # c THEN live[k]
        ELSE [count |-> IF c \in DOMAIN live THEN live[c].count + 1 ELSE 1,
              until |-> clock + LoginWindow]]

\* attemptLimiter.allow: the windows after one more attempt of a client.
Allow(c) ==
    LET live == Restrict(seen, {k \in DOMAIN seen : clock <= seen[k].until}) IN
    [k \in DOMAIN live \union {c} |->
        IF k # c THEN live[k]
        ELSE IF c \in DOMAIN live THEN [live[c] EXCEPT !.count = @ + 1]
        ELSE [count |-> 1, until |-> clock + LoginWindow]]

LimitLogin(t) ==
    /\ req[t].pc = "limit"
    /\ LET c == req[t].client IN
       /\ seen' = Allow(c)
       /\ \/ /\ seen'[c].count <= Burst
             /\ req' = [req EXCEPT ![t].pc = "password"]
             /\ past' = [past EXCEPT !.checks[c] = Append(@, clock)]
             /\ UNCHANGED browser
          \/ /\ seen'[c].count > Burst
             /\ req' = [req EXCEPT ![t] = [Audited(@, "", FALSE) EXCEPT !.read = clock]]
             /\ browser' = [browser EXCEPT ![c].form = 0]
             /\ UNCHANGED past
    /\ UNCHANGED <<clock, conf, issued, dead, queue>>

\* The password is checked, and a session signed if it is accepted; one that gets no
\* random identifier is answered with an error and no entry.
Password(t) ==
    /\ req[t].pc = "password"
    /\ \/ Rejected(t) /\ UNCHANGED issued
       \/ /\ req' = [req EXCEPT ![t] = Done(@)]
          /\ browser' = [browser EXCEPT ![req[t].client].form = 0]
          /\ UNCHANGED issued
       \/ \E subject \in Operators :
          /\ Len(issued) < MaxSessions
          /\ issued' = Append(issued, SignSession(subject))
          /\ req' = [req EXCEPT ![t] = Audited(@, subject, TRUE)]
          /\ browser' = [browser EXCEPT ![req[t].client] = [cookie |-> 0, form |-> 0]]
    /\ UNCHANGED <<clock, conf, dead, seen, queue, past>>

----------------------------------------------------------------------------

Tick ==
    /\ clock < MaxClock
    /\ clock' = clock + 1
    /\ UNCHANGED <<conf, issued, dead, seen, browser, queue, req, past>>

Next ==
    \/ \E t \in Threads :
         \/ Arrive(t) \/ ReadExpiry(t) \/ ReadRevoked(t) \/ Gate(t) \/ Policy(t) \/ CheckCSRF(t)
         \/ Apply(t) \/ Audit(t) \/ Logout(t) \/ LoginSubmit(t) \/ LimitLogin(t) \/ Password(t)
    \/ \E c \in Clients : LoginForm(c)
    \/ Tick

Spec == Init /\ [][Next]_vars

----------------------------------------------------------------------------
(* Properties. *)

\* A request, field by field.
Request ==
    [pc : {"free", "form", "limit", "password", "scan", "revoked", "scanned", "apply", "audit", "done"},
     kind : Kinds, cookies : Seq(Nat), csrf : Nat, token : BOOLEAN,
     client : Clients \union {""}, stage : {"", "gate", "policy", "csrf", "session"}, i : Nat,
     found : Nat, read : Nat, via : {"", "session", "token"}, subject : Operators \union {"", Script},
     held : BOOLEAN, out : SUBSET Nat, applied : BOOLEAN,
     audit : Seq([subject : Operators \union {"", Script}, allowed : BOOLEAN])]

\* Sessions, sign-outs, windows and requests are of the right shape: a session lasts no
\* longer than TTL, a sign-out is kept until its session's expiry, a window no longer than
\* LoginWindow, and requests speak of sessions that were signed.
TypeOK ==
    /\ clock \in 1..MaxClock
    /\ conf \in Deployments /\ New(conf)
    /\ issued \in Seq(Session)
    /\ \A id \in DOMAIN issued : issued[id].expiry <= clock + TTL
    /\ DOMAIN dead \subseteq DOMAIN issued /\ \A id \in DOMAIN dead : dead[id] = issued[id].expiry
    /\ DOMAIN seen \subseteq Clients
    /\ \A c \in DOMAIN seen : /\ seen[c] \in [count : Nat, until : Nat]
                              /\ seen[c].until <= clock + LoginWindow
    /\ browser \in [Clients -> [cookie : 0..1, form : 0..1]]
    /\ req \in [Threads -> Request]
    /\ past \in [requests : [Kinds -> Nat], out : SUBSET Nat, checks : [Clients -> Seq(Nat)]]
    /\ past.out \subseteq DOMAIN issued
    /\ \A t \in Threads : /\ Range(req[t].cookies) \union req[t].out \subseteq DOMAIN issued
                          /\ req[t].found \in 0..Len(issued)
                          /\ req[t].kind # "login" => req[t].csrf \in 0..Len(issued)
                          /\ req[t].kind = "login" => req[t].client \in Clients
                          /\ Len(req[t].audit) <= 1

\* "Deleting the browser's copy is not enough": a request that arrives after a session
\* was signed out never passes for that session before its expiry.
SignedOutStaysOut ==
    \A t \in Threads : req[t].found \in req[t].out => req[t].read >= issued[req[t].found].expiry

\* Nothing acts off the record: a control that reached its handler ends with one entry in
\* the audit trail, whichever of its checks refused it and whatever the queue answered,
\* and one that acted is on record as allowed, under a subject the policy admits.  A
\* request the gate turns away never gets as far as control, and leaves no entry.
AuditTells ==
    \A t \in Threads : LET r == req[t] IN
        r.kind = "control" /\ r.pc = "done" =>
            /\ r.stage # "gate" => Len(r.audit) = 1
            /\ r.applied => r.audit[1].allowed /\ r.audit[1].subject \in Permitted

\* A control that acted for a session was sent from a form of that operator's.  The
\* session the policy judged and the one the form belongs to are looked up apart; they
\* are of different operators only if the first ended in between, or if the second, though
\* signed out, was taken for good at its expiry.
ActsInOneName ==
    \A t \in Threads : LET r == req[t] IN
        r.pc = "audit" /\ r.applied /\ r.via = "session" =>
            \/ issued[r.csrf].subject = r.subject
            \/ \E id \in Range(r.cookies) :
                  /\ issued[id].subject = r.subject
                  /\ clock > issued[id].expiry \/ id \in past.out
            \/ r.csrf \in past.out /\ r.read >= issued[r.csrf].expiry

\* The password checks of a client in an interval of time.
ChecksIn(c, from, to) ==
    Cardinality({n \in DOMAIN past.checks[c] : from <= past.checks[c][n] /\ past.checks[c][n] <= to})

\* "Not an unbounded guessing oracle": in a stretch of LoginWindow a client has at most one
\* burst of passwords checked if it had none checked in the LoginWindow before, and fewer
\* than two bursts in any case.  Windows are fixed: all of a burst but its first check may
\* come at the end of one window, and another burst at the start of the next.
GuessesBounded ==
    \A c \in Clients, n \in 1..MaxClock :
        LET before == ChecksIn(c, IF n > LoginWindow THEN n - LoginWindow ELSE 0, n - 1)
        IN ChecksIn(c, n, n + LoginWindow) <= (IF before = 0 THEN Burst ELSE 2 * Burst - 1)

\* "Wait a minute and try again": a client is refused only if a whole burst of its
\* passwords was checked within the last LoginWindow, however often it was refused.
RefusalsJustified ==
    \A t \in Threads : req[t].kind = "login" /\ req[t].read # 0 =>
        ChecksIn(req[t].client, IF req[t].read > LoginWindow THEN req[t].read - LoginWindow ELSE 1,
                 req[t].read) >= Burst

\* "The token is issued with the form and echoed back": an operator who sends the login
\* form the dashboard shows, from a browser that has the cookie it issued, is not told
\* that the form has expired.
RetryIsConsidered ==
    [][\A t \in Threads : req[t].pc = "form" /\ req[t].held => req'[t].pc \in {"form", "limit"}]_vars
=============================================================================
