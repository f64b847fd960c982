---------------------------- MODULE AccessProofs ----------------------------
(***************************************************************************)
(* Proofs about sign-in, sign-out and the controls, for any number of      *)
(* concurrent requests, clients and operators, any deployment, session     *)
(* life, burst and window.                                                 *)
(***************************************************************************)
EXTENDS Access, FiniteSetTheorems, TLAPS

(* The inductive invariant. *)

\* What a request says of sessions is about sessions that were signed.
Refers(r, iss) ==
    /\ Range(r.cookies) \union r.out \subseteq DOMAIN iss
    /\ r.found \in 0..Len(iss)
    /\ r.kind # "login" => r.csrf \in 0..Len(iss)
    /\ r.kind = "login" => r.client \in Clients
    /\ Len(r.audit) <= 1

\* A session that an earlier lookup has passed over: expired, or signed out.
Spent(id, now, iss, out) == now > iss[id].expiry \/ id \in out

\* Where a request of each kind can be, and what it has settled by then.
OnItsWay(r) ==
    /\ r.pc \in {"form", "limit", "password"} => r.kind = "login"
    /\ r.pc \in {"scan", "revoked", "scanned", "apply", "audit"} => r.kind # "login"
    /\ r.kind = "login" => r.found = 0 /\ (r.read # 0 => r.pc = "done")
    /\ r.kind = "control" => r.stage \in {"gate", "policy", "csrf"}
    /\ r.kind = "logout" => r.stage \in {"csrf", "session"}
    /\ r.kind = "view" => r.stage \in {"", "gate"}
    /\ r.pc \in {"scan", "revoked"} => r.found = 0
    /\ r.pc # "done" => r.audit = <<>>
    /\ r.applied => r.kind = "control" /\ r.pc \in {"audit", "done"}
    /\ r.kind = "control" /\ r.stage = "csrf" /\ r.pc # "done" =>
          r.subject \in Permitted /\ r.via = "session"
    /\ r.pc \in {"apply", "audit"} =>
          /\ r.kind = "control" /\ r.subject \in Permitted
          /\ \/ r.via = "token" /\ r.stage = "policy"
             \/ r.via = "session" /\ r.stage = "csrf" /\ r.found # 0 /\ r.csrf = r.found

\* How a control ends.
EndsAudited(r) ==
    r.kind = "control" /\ r.pc = "done" =>
        /\ r.stage # "gate" => Len(r.audit) = 1
        /\ r.applied => Len(r.audit) = 1 /\ r.audit[1].allowed /\ r.audit[1].subject \in Permitted

\* A lookup stands at a cookie of the request and has found that one or none.
AtCookie(r) ==
    /\ r.i >= 1
    /\ r.pc \in {"revoked", "scanned"} => r.i \in DOMAIN r.cookies
    /\ r.pc = "scanned" => r.found = r.cookies[r.i]

\* The policy's lookup has passed over sessions that are spent.
PassedSpent(r, now, iss, out) ==
    r.stage = "policy" /\ r.pc \in {"scan", "revoked", "scanned"} =>
        \A j \in DOMAIN r.cookies : j < r.i => Spent(r.cookies[j], now, iss, out)

\* The cookie at p is the session the policy judged: those before it are spent; the
\* lookup of the CSRF check finds it again unless it is spent too, or a session that was
\* signed out and is at its expiry.
JudgedAt(r, p, now, iss, out) ==
    /\ iss[r.cookies[p]].subject = r.subject
    /\ \A j \in DOMAIN r.cookies : j < p => Spent(r.cookies[j], now, iss, out)
    /\ r.pc \in {"scan", "revoked"} /\ r.i > p => Spent(r.cookies[p], now, iss, out)
    /\ r.pc = "revoked" /\ r.i < p => r.cookies[r.i] \in out
    /\ r.pc \in {"scanned", "apply", "audit"} =>
          \/ r.found = r.cookies[p]
          \/ Spent(r.cookies[p], now, iss, out)
          \/ r.found \in out /\ r.read >= iss[r.found].expiry

Judged(r, now, iss, out) ==
    r.kind = "control" /\ r.stage = "csrf" /\ r.pc # "done" =>
        \E p \in DOMAIN r.cookies : JudgedAt(r, p, now, iss, out)

\* What holds of every request.
RequestInv(r, now, iss, out) ==
    /\ Refers(r, iss) /\ r.out \subseteq out
    /\ OnItsWay(r) /\ EndsAudited(r) /\ AtCookie(r)
    /\ PassedSpent(r, now, iss, out) /\ Judged(r, now, iss, out)
    /\ r.found \in r.out => r.read >= iss[r.found].expiry

\* Every sign-out is remembered until its session has expired, and nothing else is.
SignOutsKept ==
    /\ DOMAIN dead \subseteq past.out
    /\ \A id \in past.out : id \in DOMAIN dead \/ clock > issued[id].expiry

\* The sessions, sign-outs, windows and pages.
StoresOK ==
    /\ clock \in 1..MaxClock
    /\ conf \in Deployments /\ New(conf)
    /\ issued \in Seq(Session)
    /\ \A id \in DOMAIN issued : issued[id].expiry <= clock + TTL
    /\ DOMAIN dead \subseteq DOMAIN issued /\ \A id \in DOMAIN dead : dead[id] = issued[id].expiry
    /\ DOMAIN seen \subseteq Clients
    /\ \A c \in DOMAIN seen : /\ seen[c] \in [count : Nat, until : Nat]
                              /\ seen[c].until <= clock + LoginWindow
    /\ browser \in [Clients -> [cookie : 0..1, form : 0..1]]
    /\ past \in [requests : [Kinds -> Nat], out : SUBSET Nat, checks : [Clients -> Seq(Nat)]]
    /\ past.out \subseteq DOMAIN issued

RequestsInv ==
    /\ req \in [Threads -> Request]
    /\ \A t \in Threads : RequestInv(req[t], clock, issued, past.out)

AccessInv == StoresOK /\ SignOutsKept /\ RequestsInv

----------------------------------------------------------------------------
(* Requests. *)

LEMMA SessionAt ==
    ASSUME NEW iss \in Seq(Session), NEW id \in DOMAIN iss
    PROVE  /\ iss[id] \in Session /\ iss[id].expiry \in Nat /\ iss[id].subject \in Operators
           /\ id \in 1..Len(iss) /\ id # 0
  <1>1. iss[id] \in Session /\ id \in 1..Len(iss)
    OBVIOUS
  <1> QED
    BY <1>1 DEF Session

LEMMA EmptyTuple ==
    /\ Range(<<>>) = {} /\ DOMAIN <<>> = {} /\ Len(<<>>) = 0
    /\ \A S : <<>> \in Seq(S)
  BY DEF Range

LEMMA ZeroIn == (\A n \in Nat : 0 \in 0..n) /\ 0 <= 1 /\ 1 <= 1 /\ 1 >= 1
  OBVIOUS

LEMMA SequenceAt ==
    ASSUME NEW S, NEW q \in Seq(S)
    PROVE  /\ Len(q) \in Nat /\ DOMAIN q = 1..Len(q) /\ DOMAIN q \subseteq Nat
           /\ \A j \in DOMAIN q : j >= 1 /\ q[j] \in S
  OBVIOUS

LEMMA AppendFacts ==
    ASSUME NEW S, NEW q \in Seq(S), NEW e \in S
    PROVE  /\ Append(q, e) \in Seq(S) /\ Len(Append(q, e)) = Len(q) + 1
           /\ Append(q, e)[Len(q) + 1] = e
           /\ \A j \in DOMAIN q : Append(q, e)[j] = q[j]
           /\ DOMAIN Append(q, e) = DOMAIN q \union {Len(q) + 1}
  OBVIOUS

LEMMA FreeRequest ==
    ASSUME NEW iss \in Seq(Session), NEW now \in Nat, NEW out
    PROVE  NoRequest \in Request /\ RequestInv(NoRequest, now, iss, out)
  <1>1. NoRequest \in Request
    BY DEF NoRequest, Request, Kinds
  <1>2. Len(iss) \in Nat
    BY SequenceAt
  <1>3. Refers(NoRequest, iss) /\ OnItsWay(NoRequest)
    BY <1>2, EmptyTuple DEF NoRequest, Refers, OnItsWay
  <1>4. EndsAudited(NoRequest) /\ AtCookie(NoRequest)
    BY DEF NoRequest, EndsAudited, AtCookie
  <1>5. PassedSpent(NoRequest, now, iss, out) /\ Judged(NoRequest, now, iss, out)
    BY DEF NoRequest, PassedSpent, Judged
  <1> QED
    BY <1>1, <1>3, <1>4, <1>5 DEF RequestInv, NoRequest

\* What holds of a request keeps holding as time passes, sessions are signed and
\* sessions are signed out.
LEMMA RequestInvLasts ==
    ASSUME NEW r \in Request,
           NEW now \in Nat, NEW later \in Nat, now <= later,
           NEW iss \in Seq(Session), NEW more \in Seq(Session),
           Len(iss) <= Len(more), \A id \in DOMAIN iss : more[id] = iss[id],
           NEW out, NEW gone, out \subseteq gone, out \subseteq DOMAIN iss,
           RequestInv(r, now, iss, out)
    PROVE  RequestInv(r, later, more, gone)
  <1>1. DOMAIN iss \subseteq DOMAIN more /\ DOMAIN iss = 1..Len(iss)
    OBVIOUS
  <1>2. \A id \in DOMAIN iss : iss[id].expiry \in Nat
    BY SessionAt
  <1>3. \A j \in DOMAIN r.cookies : r.cookies[j] \in DOMAIN iss
    BY DEF RequestInv, Refers, Range
  <1>4. ASSUME NEW id \in DOMAIN iss, Spent(id, now, iss, out)
        PROVE  Spent(id, later, more, gone)
    BY <1>2, <1>4 DEF Spent
  <1>5. Refers(r, more)
    BY <1>1 DEF RequestInv, Refers
  <1>6. PassedSpent(r, later, more, gone)
    BY <1>3, <1>4 DEF RequestInv, PassedSpent
  <1>8. Judged(r, later, more, gone)
    <2> SUFFICES ASSUME r.kind = "control", r.stage = "csrf", r.pc # "done"
                 PROVE  \E p \in DOMAIN r.cookies : JudgedAt(r, p, later, more, gone)
      BY DEF Judged
    <2>1. PICK p \in DOMAIN r.cookies : JudgedAt(r, p, now, iss, out)
      BY DEF RequestInv, Judged
    <2>2. JudgedAt(r, p, later, more, gone)
      BY <1>2, <1>3, <1>4, <2>1 DEF JudgedAt
    <2> QED
      BY <2>2
  <1>9. r.found \in r.out => r.read >= more[r.found].expiry
    BY <1>3 DEF RequestInv, Refers
  <1> QED
    BY <1>5, <1>6, <1>8, <1>9 DEF RequestInv

\* A lookup begins.
LEMMA LookUpInv ==
    ASSUME NEW r \in Request, NEW now \in Nat, NEW iss \in Seq(Session), NEW out,
           NEW stage \in {"gate", "policy", "csrf", "session"},
           Refers(r, iss), r.out \subseteq out, r.audit = <<>>, ~r.applied,
           \/ r.kind = "view" /\ stage = "gate"
           \/ r.kind = "logout" /\ stage \in {"csrf", "session"}
           \/ r.kind = "control" /\ stage \in {"gate", "policy"}
           \/ /\ r.kind = "control" /\ stage = "csrf"
              /\ r.subject \in Permitted /\ r.via = "session"
              /\ \E p \in DOMAIN r.cookies :
                    /\ iss[r.cookies[p]].subject = r.subject
                    /\ \A j \in DOMAIN r.cookies : j < p => Spent(r.cookies[j], now, iss, out)
    PROVE  LookUp(r, stage) \in Request /\ RequestInv(LookUp(r, stage), now, iss, out)
  <1> DEFINE x == LookUp(r, stage)
  <1>1. /\ x.pc = "scan" /\ x.stage = stage /\ x.i = 1 /\ x.found = 0
        /\ x.kind = r.kind /\ x.cookies = r.cookies /\ x.csrf = r.csrf /\ x.client = r.client
        /\ x.out = r.out /\ x.audit = r.audit /\ x.applied = r.applied
        /\ x.subject = r.subject /\ x.via = r.via /\ x.read = r.read
    BY DEF LookUp, Request
  <1>2. x \in Request
    BY DEF LookUp, Request, Kinds
  <1>3. Len(iss) \in Nat /\ DOMAIN iss = 1..Len(iss)
    OBVIOUS
  <1>4. Refers(x, iss)
    BY <1>1, <1>3 DEF Refers
  <1>5. EndsAudited(x) /\ AtCookie(x)
    BY <1>1 DEF EndsAudited, AtCookie
  <1>10. ~x.applied
    BY <1>1
  <1>11. x.kind # "login"
    BY <1>1
  <1>12. /\ x.kind = "control" => x.stage \in {"gate", "policy", "csrf"}
         /\ x.kind = "logout" => x.stage \in {"csrf", "session"}
         /\ x.kind = "view" => x.stage \in {"", "gate"}
    BY <1>1
  <1>13. x.kind = "control" /\ x.stage = "csrf" => x.subject \in Permitted /\ x.via = "session"
    BY <1>1
  <1>14. OnItsWay(x)
    BY <1>1, <1>10, <1>11, <1>12, <1>13 DEF OnItsWay
  <1>6. \A j \in DOMAIN r.cookies : j \in Nat /\ j >= 1
    BY SequenceAt DEF Request
  <1>7. PassedSpent(x, now, iss, out)
    BY <1>1, <1>6 DEF PassedSpent
  <1>8. Judged(x, now, iss, out)
    <2> SUFFICES ASSUME x.kind = "control", x.stage = "csrf"
                 PROVE  \E p \in DOMAIN x.cookies : JudgedAt(x, p, now, iss, out)
      BY DEF Judged
    <2>1. PICK p \in DOMAIN r.cookies :
                    /\ iss[r.cookies[p]].subject = r.subject
                    /\ \A j \in DOMAIN r.cookies : j < p => Spent(r.cookies[j], now, iss, out)
      BY <1>1
    <2>2. JudgedAt(x, p, now, iss, out)
      BY <1>1, <1>6, <2>1 DEF JudgedAt
    <2> QED
      BY <1>1, <2>2
  <1>9. x.found \notin x.out
    BY <1>1, <1>3 DEF Refers
  <1> QED
    BY <1>1, <1>2, <1>4, <1>5, <1>14, <1>7, <1>8, <1>9 DEF RequestInv

\* A request ends, and what it ends with.
LEMMA DoneFields ==
    ASSUME NEW r \in Request
    PROVE  /\ Done(r) \in Request
           /\ Done(r).pc = "done" /\ Done(r).kind = r.kind /\ Done(r).client = r.client
           /\ Done(r).stage = r.stage /\ Done(r).applied = r.applied /\ Done(r).cookies = <<>>
           /\ Done(r).found = 0 /\ Done(r).csrf = 0 /\ Done(r).read = 0 /\ Done(r).out = {}
           /\ Done(r).audit = <<>> /\ Done(r).i = 1
  <1>1. Done(r) \in Request
    <2>1. <<>> \in Seq(Nat) /\ {} \in SUBSET Nat
          /\ <<>> \in Seq([subject : Operators \union {"", Script}, allowed : BOOLEAN])
      OBVIOUS
    <2> QED
      BY <2>1, ZenonT(60) DEF Done, NoRequest, Request
  <1>2. /\ Done(r).pc = "done" /\ Done(r).kind = r.kind /\ Done(r).client = r.client
        /\ Done(r).stage = r.stage
    BY DEF Done, NoRequest
  <1>3. Done(r).applied = r.applied
    BY Zenon DEF Done, NoRequest
  <1>4. Done(r).cookies = <<>> /\ Done(r).audit = <<>>
    BY Zenon DEF Done, NoRequest
  <1>5. Done(r).found = 0 /\ Done(r).csrf = 0 /\ Done(r).read = 0 /\ Done(r).i = 1
    BY DEF Done, NoRequest
  <1>6. Done(r).out = {}
    BY DEF Done, NoRequest
  <1> QED
    BY <1>1, <1>2, <1>3, <1>4, <1>5, <1>6

Subjects == Operators \union {"", Script}

LEMMA OneEntry ==
    ASSUME NEW E, NEW e \in E
    PROVE  Append(<<>>, e) \in Seq(E) /\ Len(Append(<<>>, e)) = 1 /\ Append(<<>>, e)[1] = e
  OBVIOUS

AuditedAs(x, r, subject, allowed) ==
    /\ x \in Request
    /\ x.pc = "done" /\ x.kind = r.kind /\ x.client = r.client
    /\ x.stage = r.stage /\ x.applied = r.applied /\ x.cookies = <<>>
    /\ x.found = 0 /\ x.csrf = 0 /\ x.read = 0 /\ x.out = {} /\ x.i = 1
    /\ Len(x.audit) = 1 /\ x.audit[1].subject = subject /\ x.audit[1].allowed = allowed

LEMMA AuditedFields ==
    ASSUME NEW r \in Request, r.audit = <<>>,
           NEW subject \in Subjects, NEW allowed \in BOOLEAN, NEW x,
           x = Audited(r, subject, allowed)
    PROVE  AuditedAs(x, r, subject, allowed)
  <1> DEFINE e == [subject |-> subject, allowed |-> allowed]
             E == [subject : Operators \union {"", Script}, allowed : BOOLEAN]
             d == Done(r)
  <1>0. e \in E /\ e.subject = subject /\ e.allowed = allowed
    BY DEF Subjects
  <1>1. x = [d EXCEPT !.audit = Append(<<>>, e)]
    BY Zenon DEF Audited
  <1>2. d \in Request
    BY DoneFields
  <1> HIDE DEF e, d
  <1>3. Append(<<>>, e) \in Seq(E) /\ Len(Append(<<>>, e)) = 1 /\ Append(<<>>, e)[1] = e
    BY <1>0, OneEntry, Zenon
  <1>4. ASSUME NEW q \in Seq(E), NEW y, y = [d EXCEPT !.audit = q]
        PROVE  /\ y \in Request /\ y.audit = q
               /\ y.pc = d.pc /\ y.kind = d.kind /\ y.client = d.client
               /\ y.stage = d.stage /\ y.applied = d.applied /\ y.cookies = d.cookies
               /\ y.found = d.found /\ y.csrf = d.csrf /\ y.read = d.read /\ y.out = d.out /\ y.i = d.i
    BY <1>2, <1>4, Zenon DEF Request
  <1>5. /\ x \in Request /\ x.audit = Append(<<>>, e)
        /\ x.pc = d.pc /\ x.kind = d.kind /\ x.client = d.client
        /\ x.stage = d.stage /\ x.applied = d.applied /\ x.cookies = d.cookies
        /\ x.found = d.found /\ x.csrf = d.csrf /\ x.read = d.read /\ x.out = d.out /\ x.i = d.i
    BY <1>1, <1>3, <1>4, Zenon
  <1>6. /\ d.pc = "done" /\ d.kind = r.kind /\ d.client = r.client
        /\ d.stage = r.stage /\ d.applied = r.applied /\ d.cookies = <<>>
        /\ d.found = 0 /\ d.csrf = 0 /\ d.read = 0 /\ d.out = {} /\ d.i = 1
    BY DoneFields, Zenon DEF d
  <1> QED
    BY <1>0, <1>3, <1>5, <1>6, Zenon DEF AuditedAs

\* An ended request.
LEMMA EndedInv ==
    ASSUME NEW x \in Request, NEW now \in Nat, NEW iss \in Seq(Session), NEW out,
           x.pc = "done", x.cookies = <<>>, x.found = 0, x.csrf = 0, x.out = {},
           Len(x.audit) <= 1,
           x.i >= 1,
           x.kind = "login" => x.client \in Clients,
           x.kind = "control" => x.stage \in {"gate", "policy", "csrf"},
           x.kind = "logout" => x.stage \in {"csrf", "session"},
           x.kind = "view" => x.stage \in {"", "gate"},
           x.applied => x.kind = "control",
           EndsAudited(x)
    PROVE  RequestInv(x, now, iss, out)
  <1>1. Range(x.cookies) = {} /\ 0 \in 0..Len(iss)
    BY ZeroIn, EmptyTuple, SequenceAt, Zenon
  <1>2. Refers(x, iss)
    BY <1>1 DEF Refers
  <1>3. OnItsWay(x) /\ AtCookie(x)
    BY DEF OnItsWay, AtCookie
  <1>4. PassedSpent(x, now, iss, out) /\ Judged(x, now, iss, out)
    BY DEF PassedSpent, Judged
  <1> QED
    BY <1>2, <1>3, <1>4 DEF RequestInv

\* A request that ends without an entry: any but a control past the gate.
LEMMA DoneInv ==
    ASSUME NEW r \in Request, NEW now \in Nat, NEW iss \in Seq(Session), NEW out,
           Refers(r, iss), ~r.applied,
           r.kind = "control" => r.stage = "gate",
           r.kind = "logout" => r.stage \in {"csrf", "session"},
           r.kind = "view" => r.stage \in {"", "gate"}
    PROVE  Done(r) \in Request /\ RequestInv(Done(r), now, iss, out)
  <1> DEFINE x == Done(r)
  <1>1. /\ x \in Request /\ x.pc = "done" /\ x.kind = r.kind /\ x.client = r.client
        /\ x.stage = r.stage /\ x.applied = r.applied /\ x.cookies = <<>>
        /\ x.found = 0 /\ x.csrf = 0 /\ x.read = 0 /\ x.out = {} /\ x.audit = <<>> /\ x.i = 1
    BY DoneFields, Zenon
  <1> HIDE DEF x
  <1>2. Len(x.audit) <= 1 /\ x.i >= 1
    BY <1>1, EmptyTuple, ZeroIn, Zenon
  <1>3. ~x.applied
    BY <1>1, Zenon
  <1>4. EndsAudited(x)
    BY <1>1, <1>3, Zenon DEF EndsAudited
  <1>5. /\ x.kind = "login" => x.client \in Clients
        /\ x.kind = "control" => x.stage \in {"gate", "policy", "csrf"}
        /\ x.kind = "logout" => x.stage \in {"csrf", "session"}
        /\ x.kind = "view" => x.stage \in {"", "gate"}
    BY <1>1, Zenon DEF Refers
  <1>6. RequestInv(x, now, iss, out)
    BY <1>1, <1>2, <1>3, <1>4, <1>5, EndedInv, Zenon
  <1> QED
    BY <1>1, <1>6 DEF x

\* A request that ends with an entry.
LEMMA AuditedInv ==
    ASSUME NEW r \in Request, NEW now \in Nat, NEW iss \in Seq(Session), NEW out,
           Refers(r, iss), r.audit = <<>>,
           NEW subject \in Subjects, NEW allowed \in BOOLEAN,
           r.applied => r.kind = "control" /\ allowed /\ subject \in Permitted,
           r.kind = "control" => r.stage \in {"gate", "policy", "csrf"},
           r.kind = "logout" => r.stage \in {"csrf", "session"},
           r.kind # "view"
    PROVE  /\ Audited(r, subject, allowed) \in Request
           /\ RequestInv(Audited(r, subject, allowed), now, iss, out)
  <1> DEFINE x == Audited(r, subject, allowed)
  <1>0. x = Audited(r, subject, allowed)
    OBVIOUS
  <1> HIDE DEF x
  <1>1. /\ x \in Request
        /\ x.pc = "done" /\ x.kind = r.kind /\ x.client = r.client
        /\ x.stage = r.stage /\ x.applied = r.applied /\ x.cookies = <<>>
        /\ x.found = 0 /\ x.csrf = 0 /\ x.read = 0 /\ x.out = {} /\ x.i = 1
        /\ Len(x.audit) = 1 /\ x.audit[1].subject = subject /\ x.audit[1].allowed = allowed
    <2>1. AuditedAs(x, r, subject, allowed)
      BY <1>0, AuditedFields, Zenon
    <2> QED
      BY <2>1, Zenon DEF AuditedAs
  <1>2. Len(x.audit) <= 1 /\ x.i >= 1
    BY <1>1, ZeroIn, Zenon
  <1>3. x.applied => x.kind = "control"
    BY <1>1, Zenon
  <1>4. EndsAudited(x)
    BY <1>1, Zenon DEF EndsAudited
  <1>5. /\ x.kind = "login" => x.client \in Clients
        /\ x.kind = "control" => x.stage \in {"gate", "policy", "csrf"}
        /\ x.kind = "logout" => x.stage \in {"csrf", "session"}
        /\ x.kind = "view" => x.stage \in {"", "gate"}
    BY <1>1, Zenon DEF Refers
  <1>6. RequestInv(x, now, iss, out)
    BY <1>1, <1>2, <1>3, <1>4, <1>5, EndedInv, Zenon
  <1> QED
    BY <1>1, <1>6 DEF x

\* The handler behind the gate.
LEMMA ServeInv ==
    ASSUME NEW r \in Request, NEW now \in Nat, NEW iss \in Seq(Session), NEW out,
           Refers(r, iss), r.out \subseteq out, r.audit = <<>>, ~r.applied,
           r.kind \in {"view", "control"}, r.kind = "view" => r.stage \in {"", "gate"}
    PROVE  Serve(r) \in Request /\ RequestInv(Serve(r), now, iss, out)
  <1>1. CASE r.kind = "control"
    <2>1. LookUp(r, "policy") \in Request /\ RequestInv(LookUp(r, "policy"), now, iss, out)
      BY <1>1, LookUpInv
    <2> QED
      BY <1>1, <2>1, Zenon DEF Serve
  <1>2. CASE r.kind = "view"
    <2>1. Done(r) \in Request /\ RequestInv(Done(r), now, iss, out)
      BY <1>2, DoneInv
    <2> QED
      BY <1>2, <2>1, Zenon DEF Serve
  <1> QED
    BY <1>1, <1>2

----------------------------------------------------------------------------
(* Lookups. *)

\* A lookup takes a step: only where it stands and what it found may differ.
Onward(x, r) ==
    /\ x \in Request
    /\ x.kind = r.kind /\ x.cookies = r.cookies /\ x.csrf = r.csrf /\ x.client = r.client
    /\ x.stage = r.stage /\ x.via = r.via /\ x.subject = r.subject
    /\ x.out = r.out /\ x.applied = r.applied /\ x.audit = r.audit

Steps(x, r, pc, i, found, read) ==
    \/ x = [r EXCEPT !.pc = pc] /\ i = r.i /\ found = r.found /\ read = r.read
    \/ x = [r EXCEPT !.i = i] /\ pc = r.pc /\ found = r.found /\ read = r.read
    \/ x = [r EXCEPT !.pc = pc, !.i = i] /\ found = r.found /\ read = r.read
    \/ x = [r EXCEPT !.pc = pc, !.found = found, !.read = read] /\ i = r.i

LEMMA OnwardTo ==
    ASSUME NEW r \in Request, NEW pc \in {"scan", "revoked", "scanned"},
           NEW i \in Nat, NEW found \in Nat, NEW read \in Nat, NEW x,
           Steps(x, r, pc, i, found, read)
    PROVE  Onward(x, r) /\ x.pc = pc /\ x.i = i /\ x.found = found /\ x.read = read
  <1> USE DEF Steps
  <1>1. x.pc = pc /\ x.i = i /\ x.found = found /\ x.read = read
    BY DEF Request
  <1>3. x \in Request
    <2>1. CASE x = [r EXCEPT !.pc = pc]
      BY <2>1 DEF Request
    <2>2. CASE x = [r EXCEPT !.i = i]
      BY <2>2 DEF Request
    <2>3. CASE x = [r EXCEPT !.pc = pc, !.i = i]
      BY <2>3 DEF Request
    <2>4. CASE x = [r EXCEPT !.pc = pc, !.found = found, !.read = read]
      BY <2>4 DEF Request
    <2> QED
      BY <2>1, <2>2, <2>3, <2>4, Zenon
  <1>2. /\ x.kind = r.kind /\ x.cookies = r.cookies /\ x.csrf = r.csrf /\ x.client = r.client
        /\ x.stage = r.stage /\ x.via = r.via /\ x.subject = r.subject
        /\ x.out = r.out /\ x.applied = r.applied /\ x.audit = r.audit
    BY DEF Request
  <1> QED
    BY <1>1, <1>2, <1>3 DEF Onward

\* Which cookies a lookup has passed over, and what it may have found, is all that its
\* steps have to account for.
LEMMA OnwardInv ==
    ASSUME NEW r \in Request, NEW x, NEW now \in Nat, NEW iss \in Seq(Session), NEW out,
           RequestInv(r, now, iss, out), Onward(x, r),
           r.pc \in {"scan", "revoked"}, x.pc \in {"scan", "revoked", "scanned"},
           x.i >= 1,
           x.pc \in {"revoked", "scanned"} => x.i \in DOMAIN x.cookies,
           x.pc = "scanned" => x.found = x.cookies[x.i],
           x.pc # "scanned" => x.found = 0,
           PassedSpent(x, now, iss, out), Judged(x, now, iss, out),
           x.found \in x.out => x.read >= iss[x.found].expiry
    PROVE  RequestInv(x, now, iss, out)
  <1>1. \A j \in DOMAIN r.cookies : r.cookies[j] \in DOMAIN iss
    BY DEF RequestInv, Refers, Range
  <1>2. DOMAIN iss \subseteq 0..Len(iss) /\ 0 \in 0..Len(iss)
    OBVIOUS
  <1>3. x.found \in 0..Len(iss)
    BY <1>1, <1>2 DEF Onward
  <1>4. Refers(x, iss) /\ x.out \subseteq out
    BY <1>3, Zenon DEF RequestInv, Refers, Onward
  <1>5. r.kind # "login" /\ ~r.applied /\ r.audit = <<>>
    BY Zenon DEF RequestInv, OnItsWay
  <1>6. x.kind # "login" /\ ~x.applied /\ x.audit = <<>>
    BY <1>5, Zenon DEF Onward
  <1>7. /\ x.kind = "control" => x.stage \in {"gate", "policy", "csrf"}
        /\ x.kind = "logout" => x.stage \in {"csrf", "session"}
        /\ x.kind = "view" => x.stage \in {"", "gate"}
        /\ x.kind = "control" /\ x.stage = "csrf" => x.subject \in Permitted /\ x.via = "session"
    BY DEF RequestInv, OnItsWay, Onward
  <1>8. x.pc # "done" /\ x.pc \notin {"apply", "audit", "form", "limit", "password"}
    OBVIOUS
  <1>9. OnItsWay(x)
    BY <1>6, <1>7, <1>8, Zenon DEF OnItsWay
  <1>10. EndsAudited(x) /\ AtCookie(x)
    BY <1>8, Zenon DEF EndsAudited, AtCookie
  <1> QED
    BY <1>4, <1>9, <1>10, Zenon DEF RequestInv

\* Where a lookup reads a cookie there is one.
LEMMA CookieAt ==
    ASSUME NEW r \in Request, NEW now \in Nat, NEW iss \in Seq(Session), NEW out,
           RequestInv(r, now, iss, out)
    PROVE  /\ r.i \in Nat /\ r.i >= 1
           /\ r.i <= Len(r.cookies) => r.i \in DOMAIN r.cookies
           /\ r.pc = "revoked" => r.i \in DOMAIN r.cookies
           /\ DOMAIN r.cookies \subseteq Nat
           /\ \A j \in DOMAIN r.cookies : /\ r.cookies[j] \in DOMAIN iss /\ r.cookies[j] # 0
                                          /\ r.cookies[j] \in Nat
                                          /\ iss[r.cookies[j]].expiry \in Nat
  <1>1. r.cookies \in Seq(Nat) /\ r.i \in Nat
    BY DEF Request
  <1>2. r.i >= 1 /\ (r.pc = "revoked" => r.i \in DOMAIN r.cookies)
    BY DEF RequestInv, AtCookie
  <1>3. DOMAIN r.cookies = 1..Len(r.cookies) /\ Len(r.cookies) \in Nat
        /\ \A j \in DOMAIN r.cookies : r.cookies[j] \in Nat
    BY <1>1
  <1>4. \A j \in DOMAIN r.cookies : r.cookies[j] \in DOMAIN iss
    BY DEF RequestInv, Refers, Range
  <1>5. \A id \in DOMAIN iss : id # 0 /\ iss[id].expiry \in Nat
    BY SessionAt
  <1> QED
    BY <1>1, <1>2, <1>3, <1>4, <1>5

\* A lookup passes over a cookie whose session is spent.
LEMMA PassOver ==
    ASSUME NEW r \in Request, NEW x, NEW now \in Nat, NEW iss \in Seq(Session), NEW out,
           RequestInv(r, now, iss, out), r.pc \in {"scan", "revoked"},
           r.i \in DOMAIN r.cookies, Spent(r.cookies[r.i], now, iss, out),
           (x = [r EXCEPT !.i = r.i + 1] /\ r.pc = "scan") \/ x = [r EXCEPT !.pc = "scan", !.i = r.i + 1]
    PROVE  x \in Request /\ RequestInv(x, now, iss, out)
  <1>1. /\ r.i \in Nat /\ r.i >= 1 /\ r.found \in Nat /\ r.read \in Nat /\ r.found = 0
        /\ DOMAIN r.cookies \subseteq Nat
    BY CookieAt DEF Request, RequestInv, OnItsWay
  <1>2. Onward(x, r) /\ x.pc = "scan" /\ x.i = r.i + 1 /\ x.found = 0
    <2>1. r.i + 1 \in Nat /\ r.found \in Nat /\ r.read \in Nat
      BY <1>1
    <2>2. Steps(x, r, "scan", r.i + 1, r.found, r.read)
      BY Zenon DEF Steps
    <2>3. Onward(x, r) /\ x.pc = "scan" /\ x.i = r.i + 1 /\ x.found = r.found
      BY <2>1, <2>2, OnwardTo
    <2> QED
      BY <1>1, <2>3
  <1>3. x \in Request /\ x.cookies = r.cookies /\ x.stage = r.stage /\ x.kind = r.kind
        /\ x.subject = r.subject /\ x.out = r.out
    BY <1>2 DEF Onward
  <1>4. PassedSpent(x, now, iss, out)
    BY <1>1, <1>2, <1>3 DEF PassedSpent, RequestInv
  <1>5. Judged(x, now, iss, out)
    <2> SUFFICES ASSUME x.kind = "control", x.stage = "csrf"
                 PROVE  \E p \in DOMAIN x.cookies : JudgedAt(x, p, now, iss, out)
      BY DEF Judged
    <2>1. PICK p \in DOMAIN r.cookies : JudgedAt(r, p, now, iss, out)
      BY <1>3 DEF RequestInv, Judged
    <2>2. JudgedAt(x, p, now, iss, out)
      BY <1>1, <1>2, <1>3, <2>1 DEF JudgedAt
    <2> QED
      BY <1>3, <2>2
  <1>6. x.found \notin x.out
    BY <1>2, <1>3 DEF RequestInv, Refers
  <1> QED
    BY <1>1, <1>2, <1>3, <1>4, <1>5, <1>6, OnwardInv

\* A cookie that has not expired is looked for among the sign-outs.
LEMMA AskSignOuts ==
    ASSUME NEW r \in Request, NEW x, NEW now \in Nat, NEW iss \in Seq(Session), NEW out,
           RequestInv(r, now, iss, out), r.pc = "scan",
           r.i \in DOMAIN r.cookies, now <= iss[r.cookies[r.i]].expiry,
           x = [r EXCEPT !.pc = "revoked"]
    PROVE  x \in Request /\ RequestInv(x, now, iss, out)
  <1>1. /\ r.i \in Nat /\ r.i >= 1 /\ r.found \in Nat /\ r.read \in Nat /\ r.found = 0
        /\ DOMAIN r.cookies \subseteq Nat
        /\ iss[r.cookies[r.i]].expiry \in Nat
    BY CookieAt DEF Request, RequestInv, OnItsWay
  <1>2. Onward(x, r) /\ x.pc = "revoked" /\ x.i = r.i /\ x.found = 0
    <2>1. Steps(x, r, "revoked", r.i, r.found, r.read)
      BY Zenon DEF Steps
    <2>2. r.i \in Nat /\ r.found \in Nat /\ r.read \in Nat
      BY <1>1
    <2>3. Onward(x, r) /\ x.pc = "revoked" /\ x.i = r.i /\ x.found = r.found
      BY <2>1, <2>2, OnwardTo
    <2> QED
      BY <1>1, <2>3
  <1>3. x \in Request /\ x.cookies = r.cookies /\ x.stage = r.stage /\ x.kind = r.kind
        /\ x.subject = r.subject /\ x.out = r.out
    BY <1>2 DEF Onward
  <1>4. PassedSpent(x, now, iss, out)
    BY <1>1, <1>2, <1>3 DEF PassedSpent, RequestInv
  <1>5. Judged(x, now, iss, out)
    <2> SUFFICES ASSUME x.kind = "control", x.stage = "csrf"
                 PROVE  \E p \in DOMAIN x.cookies : JudgedAt(x, p, now, iss, out)
      BY DEF Judged
    <2>1. PICK p \in DOMAIN r.cookies : JudgedAt(r, p, now, iss, out)
      BY <1>3 DEF RequestInv, Judged
    <2>3. r.i < p => r.cookies[r.i] \in out
      BY <1>1, <2>1 DEF JudgedAt, Spent
    <2>2. JudgedAt(x, p, now, iss, out)
      BY <1>1, <1>2, <1>3, <2>1, <2>3 DEF JudgedAt
    <2> QED
      BY <1>3, <2>2
  <1>6. x.found \notin x.out
    BY <1>2, <1>3 DEF RequestInv, Refers
  <1> QED
    BY <1>1, <1>2, <1>3, <1>4, <1>5, <1>6, OnwardInv

\* A lookup finds its session.
LEMMA Find ==
    ASSUME NEW r \in Request, NEW x, NEW now \in Nat, NEW iss \in Seq(Session), NEW out,
           RequestInv(r, now, iss, out), r.pc = "revoked",
           r.cookies[r.i] \in out => now >= iss[r.cookies[r.i]].expiry,
           x = [r EXCEPT !.pc = "scanned", !.found = r.cookies[r.i], !.read = now]
    PROVE  x \in Request /\ RequestInv(x, now, iss, out)
  <1>1. /\ r.i \in Nat /\ r.i >= 1 /\ r.i \in DOMAIN r.cookies /\ r.cookies[r.i] \in Nat
        /\ DOMAIN r.cookies \subseteq Nat
    BY CookieAt
  <1>2. Onward(x, r) /\ x.pc = "scanned" /\ x.i = r.i /\ x.found = r.cookies[r.i] /\ x.read = now
    <2>1. Steps(x, r, "scanned", r.i, r.cookies[r.i], now)
      BY Zenon DEF Steps
    <2> QED
      BY <1>1, <2>1, OnwardTo
  <1>3. x \in Request /\ x.cookies = r.cookies /\ x.stage = r.stage /\ x.kind = r.kind
        /\ x.subject = r.subject /\ x.out = r.out
    BY <1>2 DEF Onward
  <1>4. PassedSpent(x, now, iss, out)
    BY <1>1, <1>2, <1>3 DEF PassedSpent, RequestInv
  <1>5. Judged(x, now, iss, out)
    <2> SUFFICES ASSUME x.kind = "control", x.stage = "csrf"
                 PROVE  \E p \in DOMAIN x.cookies : JudgedAt(x, p, now, iss, out)
      BY DEF Judged
    <2>1. PICK p \in DOMAIN r.cookies : JudgedAt(r, p, now, iss, out)
      BY <1>3 DEF RequestInv, Judged
    <2>2. JudgedAt(x, p, now, iss, out)
      BY <1>1, <1>2, <1>3, <2>1 DEF JudgedAt
    <2> QED
      BY <1>3, <2>2
  <1>6. x.found \in x.out => x.read >= iss[x.found].expiry
    BY <1>2, <1>3 DEF RequestInv
  <1> QED
    BY <1>1, <1>2, <1>3, <1>4, <1>5, <1>6, OnwardInv

----------------------------------------------------------------------------
(* Steps. *)

\* One request moves; the others keep what holds of them.
LEMMA OneRequestMoves ==
    ASSUME StoresOK, RequestsInv, NEW t \in Threads, NEW x \in Request,
           req' = [req EXCEPT ![t] = x], clock' = clock,
           issued' \in Seq(Session), Len(issued) <= Len(issued'),
           \A id \in DOMAIN issued : issued'[id] = issued[id],
           past.out \subseteq past'.out,
           RequestInv(x, clock, issued', past'.out)
    PROVE  RequestsInv'
  <1>1. req' \in [Threads -> Request]
    BY DEF RequestsInv
  <1>2. clock \in Nat /\ clock <= clock /\ issued \in Seq(Session) /\ past.out \subseteq DOMAIN issued
    BY AccessAssumption DEF StoresOK
  <1>3. ASSUME NEW u \in Threads
        PROVE  RequestInv(req'[u], clock, issued', past'.out)
    <2>1. CASE u = t
      BY <2>1 DEF RequestsInv
    <2>2. CASE u # t
      <3>1. req'[u] = req[u] /\ req[u] \in Request /\ RequestInv(req[u], clock, issued, past.out)
        BY <2>2 DEF RequestsInv
      <3>2. RequestInv(req[u], clock, issued', past'.out)
        BY <1>2, <3>1, RequestInvLasts
      <3> QED
        BY <3>1, <3>2
    <2> QED
      BY <2>1, <2>2
  <1> QED
    BY <1>1, <1>3 DEF RequestsInv

LEMMA RequestStep ==
    ASSUME AccessInv, NEW t \in Threads, NEW x \in Request,
           req' = [req EXCEPT ![t] = x],
           UNCHANGED <<clock, conf, issued, dead, seen, browser, past>>,
           RequestInv(x, clock, issued, past.out)
    PROVE  AccessInv'
  <1>1. StoresOK' /\ SignOutsKept'
    BY DEF AccessInv, StoresOK, SignOutsKept
  <1>2. issued \in Seq(Session) /\ Len(issued) <= Len(issued)
    BY DEF AccessInv, StoresOK
  <1>3. RequestsInv'
    BY <1>2, OneRequestMoves DEF AccessInv
  <1> QED
    BY <1>1, <1>3 DEF AccessInv

\* What the steps use of the state before them.
LEMMA Before ==
    ASSUME AccessInv, NEW t \in Threads
    PROVE  /\ clock \in Nat /\ issued \in Seq(Session)
           /\ req[t] \in Request /\ RequestInv(req[t], clock, issued, past.out)
  BY AccessAssumption DEF AccessInv, StoresOK, RequestsInv

LEMMA ReadExpiryStep ==
    ASSUME AccessInv, NEW t \in Threads, ReadExpiry(t)
    PROVE  AccessInv'
  <1> DEFINE r == req[t]
             x == IF clock <= issued[r.cookies[r.i]].expiry
                  THEN [r EXCEPT !.pc = "revoked"] ELSE [r EXCEPT !.i = r.i + 1]
  <1>1. clock \in Nat /\ issued \in Seq(Session) /\ r \in Request
        /\ RequestInv(r, clock, issued, past.out) /\ r.pc = "scan"
    BY Before DEF ReadExpiry
  <1>2. req' = [req EXCEPT ![t] = x]
    BY DEF ReadExpiry
  <1>3. r.i \in DOMAIN r.cookies /\ issued[r.cookies[r.i]].expiry \in Nat
    <2>1. /\ r.i \in Nat /\ r.i >= 1 /\ (r.i <= Len(r.cookies) => r.i \in DOMAIN r.cookies)
          /\ \A j \in DOMAIN r.cookies : issued[r.cookies[j]].expiry \in Nat
      BY <1>1, CookieAt
    <2>2. r.i <= Len(r.cookies) \/ r.i <= Len(<<>>)
      BY DEF ReadExpiry, Carried
    <2>3. ~(r.i <= Len(<<>>))
      BY <2>1, EmptyTuple
    <2> QED
      BY <2>1, <2>2, <2>3
  <1>4. x \in Request /\ RequestInv(x, clock, issued, past.out)
    <2>1. CASE clock <= issued[r.cookies[r.i]].expiry
      <3>1. x = [r EXCEPT !.pc = "revoked"]
        BY <2>1
      <3> QED
        BY <1>1, <1>3, <2>1, <3>1, AskSignOuts, Zenon
    <2>2. CASE ~(clock <= issued[r.cookies[r.i]].expiry)
      <3>1. x = [r EXCEPT !.i = r.i + 1]
        BY <2>2
      <3>2. Spent(r.cookies[r.i], clock, issued, past.out)
        BY <1>1, <1>3, <2>2 DEF Spent
      <3> QED
        BY <1>1, <1>3, <3>1, <3>2, PassOver, Zenon
    <2> QED
      BY <2>1, <2>2
  <1> HIDE DEF x
  <1> QED
    BY <1>2, <1>4, RequestStep DEF ReadExpiry

LEMMA ReadRevokedStep ==
    ASSUME AccessInv, NEW t \in Threads, ReadRevoked(t)
    PROVE  AccessInv'
  <1> DEFINE r == req[t]
             id == r.cookies[r.i]
             x == IF IsRevoked(id) THEN [r EXCEPT !.pc = "scan", !.i = r.i + 1]
                  ELSE [r EXCEPT !.pc = "scanned", !.found = id, !.read = clock]
  <1>1. clock \in Nat /\ issued \in Seq(Session) /\ r \in Request
        /\ RequestInv(r, clock, issued, past.out) /\ r.pc = "revoked"
    BY Before DEF ReadRevoked
  <1>2. req' = [req EXCEPT ![t] = x]
    BY DEF ReadRevoked
  <1>3. r.i \in DOMAIN r.cookies /\ id \in DOMAIN issued /\ issued[id].expiry \in Nat
    BY <1>1, CookieAt
  <1>4. x \in Request /\ RequestInv(x, clock, issued, past.out)
    <2>1. CASE IsRevoked(id)
      <3>1. x = [r EXCEPT !.pc = "scan", !.i = r.i + 1]
        BY <2>1
      <3>2. Spent(id, clock, issued, past.out)
        BY <2>1 DEF Spent, IsRevoked, AccessInv, SignOutsKept
      <3>3. r.pc \in {"scan", "revoked"} /\ Spent(r.cookies[r.i], clock, issued, past.out)
        BY <1>1, <3>2
      <3>4. (x = [r EXCEPT !.i = r.i + 1] /\ r.pc = "scan") \/ x = [r EXCEPT !.pc = "scan", !.i = r.i + 1]
        BY <3>1, Zenon
      <3> HIDE DEF x, id
      <3> QED
        BY <1>1, <1>3, <3>3, <3>4, PassOver, Zenon
    <2>2. CASE ~IsRevoked(id)
      <3>1. x = [r EXCEPT !.pc = "scanned", !.found = id, !.read = clock]
        BY <2>2
      <3>2. id \in past.out => clock >= issued[id].expiry
        BY <1>1, <1>3, <2>2 DEF IsRevoked, AccessInv, SignOutsKept, StoresOK
      <3> QED
        BY <1>1, <1>3, <3>1, <3>2, Find, Zenon
    <2> QED
      BY <2>1, <2>2
  <1> HIDE DEF x
  <1> QED
    BY <1>2, <1>4, RequestStep DEF ReadRevoked

\* What a check knows once its lookup is over.
LEMMA AfterLookUp ==
    ASSUME AccessInv, NEW t \in Threads,
           NEW stage \in {"gate", "policy", "csrf", "session"}, LookedUp(req[t], stage)
    PROVE  LET r == req[t] IN
           /\ clock \in Nat /\ issued \in Seq(Session) /\ r \in Request
           /\ RequestInv(r, clock, issued, past.out)
           /\ Refers(r, issued) /\ r.out \subseteq past.out
           /\ r.stage = stage /\ r.audit = <<>> /\ ~r.applied
           /\ r.pc \in {"scan", "scanned"} /\ r.kind # "login"
           /\ stage = "gate" => r.kind \in {"view", "control"}
           /\ stage = "policy" => r.kind = "control"
           /\ stage = "csrf" => r.kind \in {"control", "logout"}
           /\ stage = "session" => r.kind = "logout"
           /\ r.found # 0 => /\ r.pc = "scanned" /\ r.i \in DOMAIN r.cookies
                             /\ r.found = r.cookies[r.i] /\ r.found \in DOMAIN issued
  <1> DEFINE r == req[t]
  <1>1. /\ clock \in Nat /\ issued \in Seq(Session) /\ r \in Request
        /\ RequestInv(r, clock, issued, past.out)
    BY Before
  <1>2. Refers(r, issued) /\ r.out \subseteq past.out /\ OnItsWay(r) /\ AtCookie(r)
    BY <1>1 DEF RequestInv
  <1>3. r.stage = stage /\ r.pc \in {"scan", "scanned"}
    BY DEF LookedUp
  <1>4. r.audit = <<>> /\ ~r.applied /\ r.kind # "login"
    BY <1>2, <1>3, Zenon DEF OnItsWay
  <1>5. /\ stage = "gate" => r.kind \in {"view", "control"}
        /\ stage = "policy" => r.kind = "control"
        /\ stage = "csrf" => r.kind \in {"control", "logout"}
        /\ stage = "session" => r.kind = "logout"
    <2>1. r.kind \in {"view", "control", "logout"}
      BY <1>1, <1>4 DEF Request, Kinds
    <2>2. /\ r.kind = "control" => r.stage \in {"gate", "policy", "csrf"}
          /\ r.kind = "logout" => r.stage \in {"csrf", "session"}
          /\ r.kind = "view" => r.stage \in {"", "gate"}
      BY <1>2, Zenon DEF OnItsWay
    <2>3. r.stage = stage
      BY <1>3
    <2> HIDE DEF r
    <2> QED
      BY <2>1, <2>2, <2>3
  <1>6. ASSUME r.found # 0
        PROVE  r.pc = "scanned" /\ r.i \in DOMAIN r.cookies
               /\ r.found = r.cookies[r.i] /\ r.found \in DOMAIN issued
    <2>1. r.pc = "scanned"
      BY <1>2, <1>3, <1>6, Zenon DEF OnItsWay
    <2>2. r.i \in DOMAIN r.cookies /\ r.found = r.cookies[r.i]
      BY <1>2, <2>1 DEF AtCookie
    <2> QED
      BY <1>2, <2>1, <2>2 DEF Refers, Range
  <1> QED
    BY <1>1, <1>2, <1>3, <1>4, <1>5, <1>6, Zenon

LEMMA IdentifyType ==
    ASSUME NEW r \in Request, issued \in Seq(Session), r.found # 0 => r.found \in DOMAIN issued
    PROVE  /\ Identify(r).subject \in Subjects /\ Identify(r).via \in {"", "session", "token"}
           /\ Identify(r).via = "session" <=> r.found # 0
           /\ r.found # 0 => Identify(r).subject = issued[r.found].subject
  <1>1. CASE r.found # 0
    <2>1. issued[r.found].subject \in Operators
      BY <1>1, SessionAt
    <2> QED
      BY <1>1, <2>1 DEF Identify, Subjects
  <1>2. CASE r.found = 0
    BY <1>2 DEF Identify, Subjects
  <1> QED
    BY <1>1, <1>2

LEMMA GateStep ==
    ASSUME AccessInv, NEW t \in Threads, Gate(t)
    PROVE  AccessInv'
  <1> DEFINE r == req[t]
             x == IF Identify(r).via = "" THEN Done(r) ELSE Serve(r)
  <1>1. req' = [req EXCEPT ![t] = x] /\ LookedUp(r, "gate")
    BY DEF Gate
  <1>2. /\ clock \in Nat /\ issued \in Seq(Session) /\ r \in Request
        /\ Refers(r, issued) /\ r.out \subseteq past.out
        /\ r.stage = "gate" /\ r.audit = <<>> /\ ~r.applied
        /\ r.kind \in {"view", "control"}
    BY <1>1, AfterLookUp
  <1>3. Done(r) \in Request /\ RequestInv(Done(r), clock, issued, past.out)
    BY <1>2, DoneInv
  <1>4. Serve(r) \in Request /\ RequestInv(Serve(r), clock, issued, past.out)
    BY <1>2, ServeInv
  <1>5. x \in Request /\ RequestInv(x, clock, issued, past.out)
    BY <1>3, <1>4
  <1> HIDE DEF x
  <1> QED
    BY <1>1, <1>5, RequestStep DEF Gate

\* A control that has passed its checks: x is r on its way to the queue, or to the audit.
LEMMA ReadyInv ==
    ASSUME NEW r \in Request, NEW now \in Nat, NEW iss \in Seq(Session), NEW out,
           RequestInv(r, now, iss, out), r.pc # "done", NEW x \in Request,
           x.kind = r.kind, x.cookies = r.cookies, x.csrf = r.csrf, x.client = r.client,
           x.stage = r.stage, x.i = r.i, x.found = r.found, x.read = r.read,
           x.out = r.out, x.audit = r.audit,
           x.pc \in {"apply", "audit"}, x.kind = "control", x.subject \in Permitted,
           x.applied => x.pc = "audit",
           \/ x.via = "token" /\ x.stage = "policy"
           \/ x.via = "session" /\ x.stage = "csrf" /\ x.found # 0 /\ x.csrf = x.found,
           Judged(x, now, iss, out)
    PROVE  RequestInv(x, now, iss, out)
  <1>1. Refers(x, iss) /\ x.out \subseteq out /\ x.i >= 1
        /\ (x.found \in x.out => x.read >= iss[x.found].expiry)
    BY Zenon DEF RequestInv, Refers, AtCookie
  <1>2. x.audit = <<>>
    BY Zenon DEF RequestInv, OnItsWay
  <1>3. x.stage \in {"gate", "policy", "csrf"} /\ (x.stage = "csrf" => x.via = "session")
    BY DEF RequestInv, OnItsWay
  <1>4. x.pc \notin {"form", "limit", "password", "scan", "revoked", "scanned", "done"}
    OBVIOUS
  <1>5. OnItsWay(x)
    BY <1>2, <1>3, <1>4, Zenon DEF OnItsWay
  <1>6. EndsAudited(x) /\ AtCookie(x) /\ PassedSpent(x, now, iss, out)
    BY <1>1, <1>4, Zenon DEF EndsAudited, AtCookie, PassedSpent
  <1> QED
    BY <1>1, <1>5, <1>6, Zenon DEF RequestInv

LEMMA PolicyStep ==
    ASSUME AccessInv, NEW t \in Threads, Policy(t)
    PROVE  AccessInv'
  <1> DEFINE r == req[t]
             id == Identify(r)
             y == [r EXCEPT !.via = id.via, !.subject = id.subject]
             x == IF ~MayControl(id) THEN Audited(r, id.subject, FALSE)
                  ELSE IF id.via = "token" THEN [y EXCEPT !.pc = "apply"] ELSE LookUp(y, "csrf")
  <1>1. req' = [req EXCEPT ![t] = x] /\ LookedUp(r, "policy")
    BY DEF Policy
  <1>2. /\ clock \in Nat /\ issued \in Seq(Session) /\ r \in Request
        /\ RequestInv(r, clock, issued, past.out)
        /\ Refers(r, issued) /\ r.out \subseteq past.out
        /\ r.stage = "policy" /\ r.audit = <<>> /\ ~r.applied
        /\ r.pc \in {"scan", "scanned"} /\ r.kind = "control"
        /\ r.found # 0 => /\ r.pc = "scanned" /\ r.i \in DOMAIN r.cookies
                          /\ r.found = r.cookies[r.i] /\ r.found \in DOMAIN issued
    BY <1>1, AfterLookUp
  <1>3. /\ id.subject \in Subjects /\ id.via \in {"", "session", "token"}
        /\ id.via = "session" <=> r.found # 0
        /\ r.found # 0 => id.subject = issued[r.found].subject
    BY <1>2, IdentifyType
  <1> HIDE DEF id
  <1>4. CASE ~MayControl(id)
    <2>1. Audited(r, id.subject, FALSE) \in Request
          /\ RequestInv(Audited(r, id.subject, FALSE), clock, issued, past.out)
      BY <1>2, <1>3, AuditedInv
    <2>2. x = Audited(r, id.subject, FALSE)
      BY <1>4
    <2> HIDE DEF x
    <2> QED
      BY <1>1, <2>1, <2>2, RequestStep DEF Policy
  <1>5. CASE MayControl(id)
    <2>1. id.via \in {"session", "token"} /\ id.subject \in Permitted
      BY <1>3, <1>5 DEF MayControl
    <2>2. /\ y \in Request /\ y.via = id.via /\ y.subject = id.subject
          /\ y.kind = r.kind /\ y.cookies = r.cookies /\ y.csrf = r.csrf /\ y.client = r.client
          /\ y.stage = r.stage /\ y.i = r.i /\ y.found = r.found /\ y.read = r.read
          /\ y.out = r.out /\ y.audit = r.audit /\ y.applied = r.applied
      <3>1. y \in Request
        BY <1>2, <1>3, <2>1 DEF Request, Subjects
      <3> QED
        BY <1>2, <3>1 DEF Request
    <2> HIDE DEF y
    <2>3. CASE id.via = "token"
      <3> DEFINE z == [y EXCEPT !.pc = "apply"]
      <3>1. x = z
        BY <1>5, <2>3
      <3>2. /\ z \in Request /\ z.via = y.via /\ z.subject = y.subject /\ z.pc = "apply"
            /\ z.kind = y.kind /\ z.cookies = y.cookies /\ z.csrf = y.csrf /\ z.client = y.client
            /\ z.stage = y.stage /\ z.i = y.i /\ z.found = y.found /\ z.read = y.read
            /\ z.out = y.out /\ z.audit = y.audit /\ z.applied = y.applied
        BY <2>2 DEF Request
      <3> HIDE DEF z
      <3>3. Judged(z, clock, issued, past.out)
        BY <1>2, <2>2, <3>2 DEF Judged
      <3>4. ~z.applied
        BY <1>2, <2>2, <3>2, Zenon
      <3>5. /\ z.kind = r.kind /\ z.cookies = r.cookies /\ z.csrf = r.csrf /\ z.client = r.client
            /\ z.stage = r.stage /\ z.i = r.i /\ z.found = r.found /\ z.read = r.read
            /\ z.out = r.out /\ z.audit = r.audit /\ z.kind = "control"
            /\ z.via = "token" /\ z.stage = "policy" /\ z.subject \in Permitted /\ z.pc \in {"apply", "audit"}
            /\ r.pc # "done"
        BY <1>2, <2>1, <2>2, <2>3, <3>2, Zenon
      <3>6. RequestInv(z, clock, issued, past.out)
        BY <1>2, <3>2, <3>3, <3>4, <3>5, ReadyInv, Zenon
      <3> QED
        BY <1>1, <3>1, <3>2, <3>6, RequestStep DEF Policy
    <2>4. CASE id.via = "session"
      <3>1. x = LookUp(y, "csrf")
        BY <1>5, <2>4
      <3>2. r.i \in DOMAIN y.cookies /\ issued[y.cookies[r.i]].subject = y.subject
        BY <1>2, <1>3, <2>2, <2>4
      <3>3. \A j \in DOMAIN y.cookies : j < r.i => Spent(y.cookies[j], clock, issued, past.out)
        BY <1>2, <2>2 DEF RequestInv, PassedSpent
      <3>4. Refers(y, issued) /\ y.out \subseteq past.out /\ y.audit = <<>> /\ ~y.applied
            /\ y.kind = "control" /\ y.subject \in Permitted /\ y.via = "session"
        BY <1>2, <2>1, <2>2, <2>4, Zenon DEF Refers
      <3>5. LookUp(y, "csrf") \in Request /\ RequestInv(LookUp(y, "csrf"), clock, issued, past.out)
        BY <1>2, <2>2, <3>2, <3>3, <3>4, LookUpInv
      <3> HIDE DEF x
      <3> QED
        BY <1>1, <3>1, <3>5, RequestStep DEF Policy
    <2> QED
      BY <2>1, <2>3, <2>4
  <1> QED
    BY <1>4, <1>5

LEMMA CheckCSRFStep ==
    ASSUME AccessInv, NEW t \in Threads, CheckCSRF(t)
    PROVE  AccessInv'
  <1> DEFINE r == req[t]
             x == IF CSRFHolds(r)
                  THEN IF r.kind = "logout" THEN LookUp(r, "session") ELSE [r EXCEPT !.pc = "apply"]
                  ELSE IF r.kind = "logout" THEN Done(r) ELSE Audited(r, r.subject, FALSE)
  <1>1. req' = [req EXCEPT ![t] = x] /\ LookedUp(r, "csrf")
    BY DEF CheckCSRF
  <1>2. /\ clock \in Nat /\ issued \in Seq(Session) /\ r \in Request
        /\ RequestInv(r, clock, issued, past.out)
        /\ Refers(r, issued) /\ r.out \subseteq past.out
        /\ r.stage = "csrf" /\ r.audit = <<>> /\ ~r.applied
        /\ r.pc \in {"scan", "scanned"} /\ r.kind \in {"control", "logout"}
        /\ r.found # 0 => r.pc = "scanned"
    BY <1>1, AfterLookUp
  <1>3. CASE CSRFHolds(r) /\ r.kind = "logout"
    <2>1. LookUp(r, "session") \in Request /\ RequestInv(LookUp(r, "session"), clock, issued, past.out)
      BY <1>2, <1>3, LookUpInv
    <2>2. x = LookUp(r, "session")
      BY <1>3
    <2> HIDE DEF x
    <2> QED
      BY <1>1, <2>1, <2>2, RequestStep DEF CheckCSRF
  <1>4. CASE CSRFHolds(r) /\ r.kind = "control"
    <2> DEFINE z == [r EXCEPT !.pc = "apply"]
    <2>1. x = z
      BY <1>4
    <2>2. /\ z \in Request /\ z.via = r.via /\ z.subject = r.subject /\ z.pc = "apply"
          /\ z.kind = r.kind /\ z.cookies = r.cookies /\ z.csrf = r.csrf /\ z.client = r.client
          /\ z.stage = r.stage /\ z.i = r.i /\ z.found = r.found /\ z.read = r.read
          /\ z.out = r.out /\ z.audit = r.audit /\ z.applied = r.applied
      BY <1>2 DEF Request
    <2> HIDE DEF z
    <2>3. r.pc = "scanned" /\ r.found # 0 /\ r.csrf = r.found
      BY <1>2, <1>4 DEF CSRFHolds
    <2>4. r.subject \in Permitted /\ r.via = "session"
      BY <1>2, <1>4 DEF RequestInv, OnItsWay
    <2>5. Judged(z, clock, issued, past.out)
      <3>1. PICK p \in DOMAIN r.cookies : JudgedAt(r, p, clock, issued, past.out)
        BY <1>2, <1>4 DEF RequestInv, Judged
      <3>2. JudgedAt(z, p, clock, issued, past.out)
        BY <2>2, <2>3, <3>1 DEF JudgedAt
      <3> QED
        BY <2>2, <3>1, <3>2, Zenon DEF Judged
    <2>6. /\ z.kind = "control" /\ ~z.applied /\ z.subject \in Permitted /\ z.pc \in {"apply", "audit"}
          /\ z.via = "session" /\ z.stage = "csrf" /\ z.found # 0 /\ z.csrf = z.found /\ r.pc # "done"
      BY <1>2, <1>4, <2>2, <2>3, <2>4, Zenon
    <2>7. RequestInv(z, clock, issued, past.out)
      BY <1>2, <2>2, <2>5, <2>6, ReadyInv, Zenon
    <2> QED
      BY <1>1, <2>1, <2>2, <2>7, RequestStep DEF CheckCSRF
  <1>5. CASE ~CSRFHolds(r) /\ r.kind = "logout"
    <2>1. Done(r) \in Request /\ RequestInv(Done(r), clock, issued, past.out)
      BY <1>2, <1>5, DoneInv
    <2>2. x = Done(r)
      BY <1>5
    <2> HIDE DEF x
    <2> QED
      BY <1>1, <2>1, <2>2, RequestStep DEF CheckCSRF
  <1>6. CASE ~CSRFHolds(r) /\ r.kind = "control"
    <2>0. r.subject \in Subjects
      BY <1>2 DEF Request, Subjects
    <2>1. Audited(r, r.subject, FALSE) \in Request
          /\ RequestInv(Audited(r, r.subject, FALSE), clock, issued, past.out)
      BY <1>2, <1>6, <2>0, AuditedInv
    <2>2. x = Audited(r, r.subject, FALSE)
      BY <1>6
    <2> HIDE DEF x
    <2> QED
      BY <1>1, <2>1, <2>2, RequestStep DEF CheckCSRF
  <1> QED
    BY <1>2, <1>3, <1>4, <1>5, <1>6

LEMMA ApplyStep ==
    ASSUME AccessInv, NEW t \in Threads, Apply(t)
    PROVE  AccessInv'
  <1> DEFINE r == req[t]
  <1>1. /\ clock \in Nat /\ issued \in Seq(Session) /\ r \in Request
        /\ RequestInv(r, clock, issued, past.out) /\ r.pc = "apply"
    BY Before DEF Apply
  <1>2. PICK x : /\ req' = [req EXCEPT ![t] = x]
                 /\ x \in {[r EXCEPT !.applied = TRUE, !.pc = "audit"], [r EXCEPT !.pc = "audit"]}
    BY DEF Apply, AccessInv, RequestsInv
  <1>3. /\ x \in Request /\ x.via = r.via /\ x.subject = r.subject /\ x.pc = "audit"
        /\ x.kind = r.kind /\ x.cookies = r.cookies /\ x.csrf = r.csrf /\ x.client = r.client
        /\ x.stage = r.stage /\ x.i = r.i /\ x.found = r.found /\ x.read = r.read
        /\ x.out = r.out /\ x.audit = r.audit
    BY <1>1, <1>2, ZenonT(60) DEF Request
  <1>4. /\ x.kind = "control" /\ x.subject \in Permitted
        /\ \/ x.via = "token" /\ x.stage = "policy"
           \/ x.via = "session" /\ x.stage = "csrf" /\ x.found # 0 /\ x.csrf = x.found
    BY <1>1, <1>3 DEF RequestInv, OnItsWay
  <1>5. Judged(x, clock, issued, past.out)
    <2> SUFFICES ASSUME x.stage = "csrf"
                 PROVE  \E p \in DOMAIN x.cookies : JudgedAt(x, p, clock, issued, past.out)
      BY DEF Judged
    <2>1. PICK p \in DOMAIN r.cookies : JudgedAt(r, p, clock, issued, past.out)
      BY <1>1, <1>3, <1>4 DEF RequestInv, Judged
    <2>2. JudgedAt(x, p, clock, issued, past.out)
      BY <1>1, <1>3, <2>1 DEF JudgedAt
    <2> QED
      BY <1>3, <2>1, <2>2
  <1>6. r.pc # "done" /\ x.pc \in {"apply", "audit"}
    BY <1>1, <1>3
  <1>7. RequestInv(x, clock, issued, past.out)
    BY <1>1, <1>3, <1>4, <1>5, <1>6, ReadyInv, Zenon
  <1> QED
    BY <1>2, <1>3, <1>7, RequestStep DEF Apply

LEMMA AuditStep ==
    ASSUME AccessInv, NEW t \in Threads, Audit(t)
    PROVE  AccessInv'
  <1> DEFINE r == req[t]
             x == Audited(r, r.subject, TRUE)
  <1>1. /\ clock \in Nat /\ issued \in Seq(Session) /\ r \in Request
        /\ RequestInv(r, clock, issued, past.out) /\ r.pc = "audit"
    BY Before DEF Audit
  <1>2. req' = [req EXCEPT ![t] = x]
    BY DEF Audit
  <1>3. r.kind = "control" /\ r.subject \in Permitted /\ r.stage \in {"gate", "policy", "csrf"}
    BY <1>1 DEF RequestInv, OnItsWay
  <1>4. Refers(r, issued) /\ r.audit = <<>> /\ r.subject \in Subjects
    BY <1>1 DEF RequestInv, OnItsWay, Request, Subjects
  <1>5. x \in Request /\ RequestInv(x, clock, issued, past.out)
    BY <1>1, <1>3, <1>4, AuditedInv
  <1> HIDE DEF x
  <1> QED
    BY <1>2, <1>5, RequestStep DEF Audit

LEMMA LogoutStep ==
    ASSUME AccessInv, NEW t \in Threads, Logout(t)
    PROVE  AccessInv'
  <1> DEFINE r == req[t]
             id == r.found
  <1>1. LookedUp(r, "session")
    BY DEF Logout
  <1>2. /\ clock \in Nat /\ issued \in Seq(Session) /\ r \in Request
        /\ RequestInv(r, clock, issued, past.out)
        /\ Refers(r, issued) /\ r.out \subseteq past.out
        /\ r.stage = "session" /\ r.audit = <<>> /\ ~r.applied
        /\ r.kind = "logout"
        /\ id # 0 => id \in DOMAIN issued
    BY <1>1, AfterLookUp
  <1>3. CASE id = 0
    <2>1. Done(r) \in Request /\ RequestInv(Done(r), clock, issued, past.out)
      BY <1>2, DoneInv
    <2>2. req' = [req EXCEPT ![t] = Done(r)]
          /\ UNCHANGED <<clock, conf, issued, dead, seen, browser, past>>
      BY <1>3 DEF Logout
    <2> QED
      BY <2>1, <2>2, RequestStep
  <1>4. CASE id # 0
    <2> DEFINE x == Audited(r, issued[id].subject, TRUE)
    <2>1. /\ req' = [req EXCEPT ![t] = x] /\ dead' = Revoke(id)
          /\ past' = [past EXCEPT !.out = past.out \union {id}]
          /\ UNCHANGED <<clock, conf, issued, seen, browser>>
      BY <1>4 DEF Logout
    <2>2. id \in DOMAIN issued /\ id \in Nat /\ issued[id].subject \in Subjects
          /\ \A k \in DOMAIN issued : issued[k].expiry \in Nat
      <3>1. id \in DOMAIN issued
        BY <1>2, <1>4
      <3>2. id \in Nat
        BY <1>2 DEF Request
      <3>3. issued[id].subject \in Operators
        BY <1>2, <3>1, SessionAt
      <3>4. \A k \in DOMAIN issued : issued[k].expiry \in Nat
        BY <1>2, SessionAt
      <3> QED
        BY <3>1, <3>2, <3>3, <3>4 DEF Subjects
    <2>3. /\ past' \in [requests : [Kinds -> Nat], out : SUBSET Nat, checks : [Clients -> Seq(Nat)]]
          /\ past'.out = past.out \union {id}
      BY <2>1, <2>2 DEF AccessInv, StoresOK
    <2>4. x \in Request /\ RequestInv(x, clock, issued, past'.out)
      BY <1>2, <2>2, AuditedInv
    <2> HIDE DEF x
    <2>5. /\ DOMAIN dead' = {k \in DOMAIN dead : clock <= dead[k]} \union {id}
          /\ \A k \in DOMAIN dead' : dead'[k] = issued[k].expiry
      BY <2>1 DEF Revoke, Sweep, Restrict, AccessInv, StoresOK
    <2>6. StoresOK'
      BY <2>1, <2>2, <2>3, <2>5 DEF AccessInv, StoresOK
    <2>7. SignOutsKept'
      BY <1>2, <2>1, <2>2, <2>3, <2>5 DEF AccessInv, StoresOK, SignOutsKept
    <2>8. RequestsInv'
      <3>1. Len(issued) <= Len(issued) /\ past.out \subseteq past'.out
        BY <1>2, <2>3
      <3> QED
        BY <1>2, <2>1, <2>4, <3>1, OneRequestMoves DEF AccessInv
    <2> QED
      BY <2>6, <2>7, <2>8 DEF AccessInv
  <1> QED
    BY <1>3, <1>4

\* A request moves, and a page, a window or a count with it.
LEMMA RequestAndStoresStep ==
    ASSUME AccessInv, NEW t \in Threads, NEW x \in Request,
           req' = [req EXCEPT ![t] = x],
           UNCHANGED <<clock, issued, dead>>, past'.out = past.out, StoresOK',
           RequestInv(x, clock, issued, past.out)
    PROVE  AccessInv'
  <1>1. SignOutsKept'
    BY DEF AccessInv, SignOutsKept
  <1>2. issued \in Seq(Session) /\ Len(issued) <= Len(issued)
    BY DEF AccessInv, StoresOK
  <1>3. RequestsInv'
    BY <1>2, OneRequestMoves DEF AccessInv
  <1> QED
    BY <1>1, <1>3 DEF AccessInv

\* An arriving request.
LEMMA ServeHTTPInv ==
    ASSUME NEW r \in Request, NEW now \in Nat, NEW iss \in Seq(Session), NEW out,
           Refers(r, iss), r.out \subseteq out, r.audit = <<>>, ~r.applied,
           r.stage = "", r.i = 1, r.found = 0, r.read = 0
    PROVE  ServeHTTP(r) \in Request /\ RequestInv(ServeHTTP(r), now, iss, out)
  <1>1. CASE r.kind = "login"
    <2> DEFINE x == [r EXCEPT !.pc = "form"]
    <2>1. ServeHTTP(r) = x
      BY <1>1 DEF ServeHTTP
    <2>2. /\ x \in Request /\ x.pc = "form"
          /\ x.kind = r.kind /\ x.cookies = r.cookies /\ x.csrf = r.csrf /\ x.client = r.client
          /\ x.stage = r.stage /\ x.i = r.i /\ x.found = r.found /\ x.read = r.read
          /\ x.out = r.out /\ x.audit = r.audit /\ x.applied = r.applied
      BY DEF Request
    <2> HIDE DEF x
    <2>3. ~x.applied /\ x.audit = <<>> /\ x.kind = "login" /\ x.stage = "" /\ x.found = 0 /\ x.read = 0
      BY <1>1, <2>2, Zenon
    <2>4. x.pc = "form" /\ x.pc \notin {"scan", "revoked", "scanned", "apply", "audit", "done"}
      BY <2>2
    <2>5. OnItsWay(x) /\ EndsAudited(x)
      BY <2>3, <2>4, Zenon DEF OnItsWay, EndsAudited
    <2>6. PassedSpent(x, now, iss, out) /\ Judged(x, now, iss, out)
      BY <2>3, <2>4, Zenon DEF PassedSpent, Judged
    <2>7. AtCookie(x)
      BY <2>2, <2>4, ZeroIn, Zenon DEF AtCookie
    <2>8. Refers(x, iss) /\ x.out \subseteq out
      BY <2>2, Zenon DEF Refers
    <2>9. 0 \notin DOMAIN iss /\ x.out \subseteq DOMAIN iss
      BY <2>2, SessionAt DEF Refers
    <2>10. x.found \notin x.out
      BY <2>3, <2>9
    <2> QED
      BY <2>1, <2>2, <2>5, <2>6, <2>7, <2>8, <2>10, Zenon DEF RequestInv
  <1>2. CASE r.kind = "logout"
    <2>1. LookUp(r, "csrf") \in Request /\ RequestInv(LookUp(r, "csrf"), now, iss, out)
      BY <1>2, LookUpInv
    <2> QED
      BY <1>2, <2>1, Zenon DEF ServeHTTP
  <1>3. CASE r.kind \in {"view", "control"}
    <2>1. LookUp(r, "gate") \in Request /\ RequestInv(LookUp(r, "gate"), now, iss, out)
      BY <1>3, LookUpInv
    <2>2. Serve(r) \in Request /\ RequestInv(Serve(r), now, iss, out)
      BY <1>3, ServeInv
    <2>3. ServeHTTP(r) \in {LookUp(r, "gate"), Serve(r)}
      BY <1>3 DEF ServeHTTP
    <2> QED
      BY <2>1, <2>2, <2>3, Zenon
  <1> QED
    BY <1>1, <1>2, <1>3 DEF Request, Kinds

LEMMA CookiesType ==
    ASSUME issued \in Seq(Session), NEW cookies \in Cookies
    PROVE  cookies \in Seq(Nat) /\ Range(cookies) \subseteq DOMAIN issued
  <1>1. DOMAIN issued \subseteq Nat /\ Len(issued) \in Nat
    OBVIOUS
  <1>2. PICK n \in 0..Len(issued) : cookies \in [1..n -> DOMAIN issued]
    BY DEF Cookies, Injection
  <1>3. n \in Nat
    BY <1>1, <1>2
  <1>4. cookies \in Seq(Nat)
    <2>1. cookies \in [1..n -> Nat]
      BY <1>1, <1>2
    <2> QED
      BY <1>3, <2>1
  <1> QED
    BY <1>2, <1>4 DEF Range

\* What arrives.
LEMMA Arrived ==
    ASSUME AccessInv, NEW t \in Threads, Arrive(t)
    PROVE  /\ past' \in [requests : [Kinds -> Nat], out : SUBSET Nat, checks : [Clients -> Seq(Nat)]]
           /\ past'.out = past.out /\ past'.checks = past.checks
           /\ \E r \in Request : /\ req' = [req EXCEPT ![t] = ServeHTTP(r)]
                                 /\ Refers(r, issued) /\ r.out \subseteq past.out
                                 /\ r.audit = <<>> /\ ~r.applied
                                 /\ r.stage = "" /\ r.i = 1 /\ r.found = 0 /\ r.read = 0
  <1>1. clock \in Nat /\ issued \in Seq(Session) /\ past.out \subseteq DOMAIN issued
    BY AccessAssumption DEF AccessInv, StoresOK
  <1>2. PICK kind \in Routes :
             /\ \/ /\ kind # "login"
                   /\ \E cookies \in Cookies, token \in {conf.tokens /\ kind # "logout", FALSE} :
                      \E csrf \in IF kind = "view" THEN {0} ELSE {0} \union Range(cookies) :
                         req' = [req EXCEPT ![t] = ServeHTTP([NoRequest EXCEPT !.kind = kind, !.cookies = cookies,
                                    !.csrf = csrf, !.token = token, !.out = past.out])]
                \/ /\ kind = "login"
                   /\ \E c \in Clients :
                         req' = [req EXCEPT ![t] = ServeHTTP([NoRequest EXCEPT !.kind = kind, !.client = c,
                                    !.csrf = browser[c].form, !.held = browser[c].cookie # 0])]
             /\ past' = [past EXCEPT !.requests[kind] = past.requests[kind] + 1]
    BY DEF Arrive
  <1>3. kind \in {"view", "control", "login", "logout"} /\ kind \in Kinds
    BY DEF Routes, Kinds
  <1>4. /\ past' \in [requests : [Kinds -> Nat], out : SUBSET Nat, checks : [Clients -> Seq(Nat)]]
        /\ past'.out = past.out /\ past'.checks = past.checks
    <2> DEFINE n == [past.requests EXCEPT ![kind] = past.requests[kind] + 1]
    <2>1. past' = [past EXCEPT !.requests = n]
      BY <1>2
    <2>2. past \in [requests : [Kinds -> Nat], out : SUBSET Nat, checks : [Clients -> Seq(Nat)]]
      BY DEF AccessInv, StoresOK
    <2>3. n \in [Kinds -> Nat]
      BY <1>3, <2>2
    <2> HIDE DEF n
    <2> QED
      BY <2>1, <2>2, <2>3
  <1>6. \E r \in Request : /\ req' = [req EXCEPT ![t] = ServeHTTP(r)]
                           /\ Refers(r, issued) /\ r.out \subseteq past.out /\ r.audit = <<>> /\ ~r.applied
                           /\ r.stage = "" /\ r.i = 1 /\ r.found = 0 /\ r.read = 0
    <2>1. CASE kind # "login"
      <3>1. PICK cookies \in Cookies, token \in {conf.tokens /\ kind # "logout", FALSE} :
                  \E csrf \in IF kind = "view" THEN {0} ELSE {0} \union Range(cookies) :
                         req' = [req EXCEPT ![t] = ServeHTTP([NoRequest EXCEPT !.kind = kind, !.cookies = cookies,
                                    !.csrf = csrf, !.token = token, !.out = past.out])]
        BY <1>2, <2>1
      <3>2. PICK csrf \in {0} \union Range(cookies) :
                         req' = [req EXCEPT ![t] = ServeHTTP([NoRequest EXCEPT !.kind = kind, !.cookies = cookies,
                                    !.csrf = csrf, !.token = token, !.out = past.out])]
        BY <3>1
      <3> DEFINE r == [NoRequest EXCEPT !.kind = kind, !.cookies = cookies,
                                    !.csrf = csrf, !.token = token, !.out = past.out]
      <3>3. token \in BOOLEAN
        OBVIOUS
      <3>4. cookies \in Seq(Nat) /\ Range(cookies) \subseteq DOMAIN issued
        BY <1>1, CookiesType
      <3>5. csrf \in 0..Len(issued) /\ csrf \in Nat
        BY <1>1, <3>2, <3>4
      <3>6. past.out \in SUBSET Nat
        BY DEF AccessInv, StoresOK
      <3>7. r \in Request
        BY <1>3, <3>3, <3>4, <3>5, <3>6, FreeRequest, <1>1, ZenonT(60) DEF Request, NoRequest
      <3>8. /\ r.kind = kind /\ r.cookies = cookies /\ r.csrf = csrf /\ r.out = past.out
            /\ r.audit = <<>> /\ r.applied = FALSE /\ r.stage = "" /\ r.i = 1 /\ r.found = 0 /\ r.read = 0
        BY Zenon DEF NoRequest
      <3>9. Refers(r, issued)
        <4>1. 0 \in 0..Len(issued)
          BY <1>1, ZeroIn, SequenceAt, Zenon
        <4>2. Len(r.audit) <= 1
          BY <3>8, EmptyTuple, ZeroIn, Zenon
        <4>3. Range(r.cookies) \union r.out \subseteq DOMAIN issued
          BY <1>1, <3>4, <3>8
        <4> HIDE DEF r
        <4> QED
          BY <2>1, <3>5, <3>8, <4>1, <4>2, <4>3, Zenon DEF Refers
      <3> HIDE DEF r
      <3>10. req' = [req EXCEPT ![t] = ServeHTTP(r)]
        BY <3>2 DEF r
      <3>11. r.out \subseteq past.out /\ ~r.applied
        BY <3>8
      <3> QED
        BY <3>7, <3>8, <3>9, <3>10, <3>11, Zenon
    <2>2. CASE kind = "login"
      <3>1. PICK c \in Clients :
                         req' = [req EXCEPT ![t] = ServeHTTP([NoRequest EXCEPT !.kind = kind, !.client = c,
                                    !.csrf = browser[c].form, !.held = browser[c].cookie # 0])]
        BY <1>2, <2>2
      <3> DEFINE r == [NoRequest EXCEPT !.kind = kind, !.client = c,
                                    !.csrf = browser[c].form, !.held = browser[c].cookie # 0]
      <3>2. browser[c].form \in Nat
        <4>1. browser \in [Clients -> [cookie : 0..1, form : 0..1]]
          BY DEF AccessInv, StoresOK
        <4>2. browser[c].form \in 0..1
          BY <4>1
        <4> QED
          BY <4>2
      <3>3. (browser[c].cookie # 0) \in BOOLEAN /\ c \in Clients \union {""}
        OBVIOUS
      <3>7. r \in Request
        <4>1. ASSUME NEW b \in BOOLEAN, NEW n \in Nat, NEW k \in {"view", "control", "login", "logout"}
              PROVE  [NoRequest EXCEPT !.kind = k, !.client = c, !.csrf = n, !.held = b] \in Request
          BY <1>1, <3>3, FreeRequest, ZenonT(60) DEF Request, Kinds, NoRequest
        <4> QED
          BY <1>3, <3>2, <3>3, <4>1, Zenon
      <3>8. /\ r.kind = kind /\ r.cookies = <<>> /\ r.client = c /\ r.out = {}
            /\ r.audit = <<>> /\ r.applied = FALSE /\ r.stage = "" /\ r.i = 1 /\ r.found = 0 /\ r.read = 0
        BY Zenon DEF NoRequest
      <3>9. Refers(r, issued)
        <4>1. 0 \in 0..Len(issued)
          BY <1>1, ZeroIn, SequenceAt, Zenon
        <4>2. Len(r.audit) <= 1
          BY <3>8, EmptyTuple, ZeroIn, Zenon
        <4>3. Range(r.cookies) \union r.out \subseteq DOMAIN issued
          BY <3>8, EmptyTuple, Zenon
        <4> HIDE DEF r
        <4> QED
          BY <2>2, <3>1, <3>8, <4>1, <4>2, <4>3, Zenon DEF Refers
      <3> HIDE DEF r
      <3>10. req' = [req EXCEPT ![t] = ServeHTTP(r)]
        BY <3>1 DEF r
      <3>11. r.out \subseteq past.out /\ ~r.applied
        BY <3>8
      <3> QED
        BY <3>7, <3>8, <3>9, <3>10, <3>11, Zenon
    <2> QED
      BY <2>1, <2>2
  <1> QED
    BY <1>4, <1>6

LEMMA ArriveStep ==
    ASSUME AccessInv, NEW t \in Threads, Arrive(t)
    PROVE  AccessInv'
  <1>1. clock \in Nat /\ issued \in Seq(Session)
    BY AccessAssumption DEF AccessInv, StoresOK
  <1>4. /\ past' \in [requests : [Kinds -> Nat], out : SUBSET Nat, checks : [Clients -> Seq(Nat)]]
        /\ past'.out = past.out
    BY Arrived
  <1>5. StoresOK' /\ UNCHANGED <<clock, issued, dead>>
    BY <1>4 DEF Arrive, AccessInv, StoresOK
  <1>7. PICK r \in Request : /\ req' = [req EXCEPT ![t] = ServeHTTP(r)]
                           /\ Refers(r, issued) /\ r.out \subseteq past.out /\ r.audit = <<>> /\ ~r.applied
                           /\ r.stage = "" /\ r.i = 1 /\ r.found = 0 /\ r.read = 0
    BY Arrived
  <1>8. ServeHTTP(r) \in Request /\ RequestInv(ServeHTTP(r), clock, issued, past.out)
    BY <1>1, <1>7, ServeHTTPInv
  <1> QED
    BY <1>4, <1>5, <1>7, <1>8, RequestAndStoresStep

LEMMA LoginFormStep ==
    ASSUME AccessInv, NEW c \in Clients, LoginForm(c)
    PROVE  AccessInv'
  <1>1. browser' \in [Clients -> [cookie : 0..1, form : 0..1]]
    BY DEF LoginForm, AccessInv, StoresOK
  <1>2. UNCHANGED <<clock, conf, issued, dead, seen, queue, req, past>>
    BY DEF LoginForm
  <1> QED
    BY <1>1, <1>2 DEF AccessInv, StoresOK, SignOutsKept, RequestsInv

\* A login on its way to the password check.
LEMMA LoginMoves ==
    ASSUME NEW r \in Request, NEW now \in Nat, NEW iss \in Seq(Session), NEW out,
           RequestInv(r, now, iss, out), r.pc \in {"form", "limit"},
           NEW pc \in {"limit", "password"}, NEW x, x = [r EXCEPT !.pc = pc]
    PROVE  x \in Request /\ RequestInv(x, now, iss, out)
  <1>1. /\ x \in Request /\ x.pc = pc
        /\ x.kind = r.kind /\ x.cookies = r.cookies /\ x.csrf = r.csrf /\ x.client = r.client
        /\ x.stage = r.stage /\ x.i = r.i /\ x.found = r.found /\ x.read = r.read
        /\ x.out = r.out /\ x.audit = r.audit /\ x.applied = r.applied
    BY DEF Request
  <1>2. r.kind = "login" /\ r.pc # "done" /\ r.pc \notin {"audit", "done"}
    BY DEF RequestInv, OnItsWay
  <1>3. r.found = 0 /\ r.read = 0 /\ r.audit = <<>> /\ ~r.applied
    BY <1>2, Zenon DEF RequestInv, OnItsWay
  <1>4. x.pc \notin {"scan", "revoked", "scanned", "apply", "audit", "done"}
        /\ x.pc \in {"form", "limit", "password"}
    BY <1>1
  <1>5. x.kind = "login" /\ x.found = 0 /\ x.read = 0 /\ x.audit = <<>> /\ ~x.applied
    BY <1>1, <1>2, <1>3, Zenon
  <1>6. OnItsWay(x) /\ EndsAudited(x)
    BY <1>4, <1>5, Zenon DEF OnItsWay, EndsAudited
  <1>7. PassedSpent(x, now, iss, out) /\ Judged(x, now, iss, out)
    BY <1>4, <1>5, Zenon DEF PassedSpent, Judged
  <1>8. AtCookie(x)
    BY <1>1, <1>4, Zenon DEF RequestInv, AtCookie
  <1>9. Refers(x, iss) /\ x.out \subseteq out
        /\ (x.found \in x.out => x.read >= iss[x.found].expiry)
    BY <1>1, Zenon DEF RequestInv, Refers
  <1> QED
    BY <1>1, <1>6, <1>7, <1>8, <1>9, Zenon DEF RequestInv

\* What a login's steps know of it.
LEMMA LoginBefore ==
    ASSUME AccessInv, NEW t \in Threads, req[t].pc \in {"form", "limit", "password"}
    PROVE  LET r == req[t] IN
           /\ clock \in Nat /\ issued \in Seq(Session) /\ r \in Request
           /\ RequestInv(r, clock, issued, past.out) /\ Refers(r, issued)
           /\ r.kind = "login" /\ r.client \in Clients /\ r.audit = <<>> /\ ~r.applied
  <1> DEFINE r == req[t]
  <1>1. /\ clock \in Nat /\ issued \in Seq(Session) /\ r \in Request
        /\ RequestInv(r, clock, issued, past.out)
    BY Before
  <1>2. Refers(r, issued) /\ OnItsWay(r)
    BY <1>1 DEF RequestInv
  <1>3. r.kind = "login"
    BY <1>2, Zenon DEF OnItsWay
  <1>4. r.pc \notin {"audit", "done"}
    OBVIOUS
  <1>5. r.client \in Clients /\ r.audit = <<>> /\ ~r.applied
    BY <1>2, <1>3, <1>4, Zenon DEF OnItsWay, Refers
  <1> QED
    BY <1>1, <1>2, <1>3, <1>5, Zenon

LEMMA FormBlank ==
    ASSUME NEW b \in [Clients -> [cookie : 0..1, form : 0..1]], NEW c \in Clients
    PROVE  [b EXCEPT ![c].form = 0] \in [Clients -> [cookie : 0..1, form : 0..1]]
  <1>1. [b[c] EXCEPT !.form = 0] \in [cookie : 0..1, form : 0..1]
    OBVIOUS
  <1>2. [b EXCEPT ![c].form = 0] = [b EXCEPT ![c] = [b[c] EXCEPT !.form = 0]]
    OBVIOUS
  <1> QED
    BY <1>1, <1>2, Zenon

LEMMA RejectedStep ==
    ASSUME AccessInv, NEW t \in Threads, req[t].pc \in {"form", "limit", "password"}, Rejected(t),
           UNCHANGED <<clock, conf, issued, dead, seen, past>>
    PROVE  AccessInv'
  <1> DEFINE r == req[t]
             x == Audited(r, "", FALSE)
  <1>1. /\ clock \in Nat /\ issued \in Seq(Session) /\ r \in Request /\ Refers(r, issued)
        /\ r.kind = "login" /\ r.client \in Clients /\ r.audit = <<>> /\ ~r.applied
    BY LoginBefore
  <1>2. req' = [req EXCEPT ![t] = x] /\ browser' = [browser EXCEPT ![r.client].form = 0]
    BY DEF Rejected
  <1>3. x \in Request /\ RequestInv(x, clock, issued, past.out)
    <2>1. "" \in Subjects
      BY DEF Subjects
    <2> QED
      BY <1>1, <2>1, AuditedInv
  <1>4. StoresOK'
    <2>1. browser' \in [Clients -> [cookie : 0..1, form : 0..1]]
      BY <1>1, <1>2, FormBlank DEF AccessInv, StoresOK
    <2> QED
      BY <2>1 DEF AccessInv, StoresOK
  <1> HIDE DEF x
  <1> QED
    BY <1>2, <1>3, <1>4, RequestAndStoresStep

LEMMA LoginSubmitStep ==
    ASSUME AccessInv, NEW t \in Threads, LoginSubmit(t)
    PROVE  AccessInv'
  <1>1. CASE req' = [req EXCEPT ![t].pc = "limit"] /\ UNCHANGED browser
    <2> DEFINE x == [req[t] EXCEPT !.pc = "limit"]
    <2>1. req' = [req EXCEPT ![t] = x]
      BY <1>1
    <2>2. /\ clock \in Nat /\ issued \in Seq(Session) /\ req[t] \in Request
          /\ RequestInv(req[t], clock, issued, past.out) /\ req[t].pc = "form"
      BY Before DEF LoginSubmit
    <2>3. x \in Request /\ RequestInv(x, clock, issued, past.out)
      BY <2>2, LoginMoves, Zenon
    <2> HIDE DEF x
    <2> QED
      BY <1>1, <2>1, <2>3, RequestStep DEF LoginSubmit
  <1>2. CASE Rejected(t)
    BY <1>2, RejectedStep DEF LoginSubmit
  <1> QED
    BY <1>1, <1>2 DEF LoginSubmit

LEMMA TickStep ==
    ASSUME AccessInv, Tick
    PROVE  AccessInv'
  <1>1. clock \in Nat /\ clock' \in Nat /\ clock <= clock' /\ clock' \in 1..MaxClock
        /\ issued \in Seq(Session) /\ past.out \subseteq DOMAIN issued
    BY AccessAssumption DEF Tick, AccessInv, StoresOK
  <1>2. \A id \in DOMAIN issued : issued[id].expiry \in Nat
    BY <1>1, SessionAt
  <1>3. StoresOK'
    BY <1>1, <1>2, AccessAssumption, SMTT(40) DEF Tick, AccessInv, StoresOK
  <1>4. SignOutsKept'
    BY <1>1, <1>2 DEF Tick, AccessInv, SignOutsKept
  <1>5. RequestsInv'
    <2>1. req \in [Threads -> Request] /\ req' = req /\ issued' = issued /\ past' = past
      BY DEF Tick, AccessInv, RequestsInv
    <2>2. Len(issued) <= Len(issued)
      BY <1>1
    <2>3. ASSUME NEW u \in Threads
          PROVE  RequestInv(req[u], clock', issued, past.out)
      <3>1. req[u] \in Request /\ RequestInv(req[u], clock, issued, past.out)
        BY <2>1 DEF AccessInv, RequestsInv
      <3> QED
        BY <1>1, <2>2, <3>1, RequestInvLasts
    <2> QED
      BY <2>1, <2>3 DEF RequestsInv
  <1> QED
    BY <1>3, <1>4, <1>5 DEF AccessInv

\* A window after one more attempt.
LEMMA AllowType ==
    ASSUME StoresOK, NEW c \in Clients
    PROVE  /\ DOMAIN Allow(c) = {k \in DOMAIN seen : clock <= seen[k].until} \union {c}
           /\ \A k \in DOMAIN Allow(c) : k # c => Allow(c)[k] = seen[k]
           /\ c \in DOMAIN seen /\ clock <= seen[c].until =>
                 Allow(c)[c].until = seen[c].until /\ Allow(c)[c].count = seen[c].count + 1
           /\ ~(c \in DOMAIN seen /\ clock <= seen[c].until) =>
                 Allow(c)[c].until = clock + LoginWindow /\ Allow(c)[c].count = 1
           /\ Allow(c)[c] \in [count : Nat, until : Nat]
           /\ Allow(c)[c].until <= clock + LoginWindow
  <1> DEFINE live == {k \in DOMAIN seen : clock <= seen[k].until}
  <1>1. Allow(c) = [k \in live \union {c} |->
                       IF k # c THEN seen[k]
                       ELSE IF c \in live THEN [seen[c] EXCEPT !.count = seen[c].count + 1]
                       ELSE [count |-> 1, until |-> clock + LoginWindow]]
    BY DEF Allow, Restrict
  <1>2. clock \in Nat /\ LoginWindow \in Nat
    BY AccessAssumption DEF StoresOK
  <1>3. c \in live => seen[c] \in [count : Nat, until : Nat] /\ seen[c].until <= clock + LoginWindow
    BY DEF StoresOK
  <1>4. /\ DOMAIN Allow(c) = live \union {c}
        /\ \A k \in DOMAIN Allow(c) : k # c => Allow(c)[k] = seen[k]
    BY <1>1
  <1>5. CASE c \in live
    <2>1. Allow(c)[c] = [seen[c] EXCEPT !.count = seen[c].count + 1]
      BY <1>1, <1>5
    <2> QED
      BY <1>2, <1>3, <1>4, <1>5, <2>1
  <1>6. CASE c \notin live
    <2>1. Allow(c)[c] = [count |-> 1, until |-> clock + LoginWindow]
      BY <1>1, <1>6
    <2> QED
      BY <1>2, <1>4, <1>6, <2>1
  <1> QED
    BY <1>5, <1>6

LEMMA LimitLoginStep ==
    ASSUME AccessInv, NEW t \in Threads, LimitLogin(t)
    PROVE  AccessInv'
  <1> DEFINE r == req[t]
             c == r.client
  <1>1. /\ clock \in Nat /\ issued \in Seq(Session) /\ r \in Request /\ Refers(r, issued)
        /\ RequestInv(r, clock, issued, past.out) /\ r.pc = "limit"
        /\ r.kind = "login" /\ c \in Clients /\ r.audit = <<>> /\ ~r.applied
    BY LoginBefore DEF LimitLogin
  <1>2. /\ DOMAIN seen' \subseteq Clients
        /\ \A k \in DOMAIN seen' : /\ seen'[k] \in [count : Nat, until : Nat]
                                   /\ seen'[k].until <= clock + LoginWindow
    <2>1. seen' = Allow(c) /\ StoresOK
      BY DEF LimitLogin, AccessInv
    <2>2. /\ DOMAIN seen' = {k \in DOMAIN seen : clock <= seen[k].until} \union {c}
          /\ \A k \in DOMAIN seen' : k # c => seen'[k] = seen[k]
          /\ seen'[c] \in [count : Nat, until : Nat]
          /\ seen'[c].until <= clock + LoginWindow
      BY <1>1, <2>1, AllowType
    <2> QED
      BY <1>1, <2>1, <2>2 DEF StoresOK
  <1>3. CASE /\ req' = [req EXCEPT ![t].pc = "password"]
             /\ past' = [past EXCEPT !.checks[c] = Append(past.checks[c], clock)]
             /\ UNCHANGED browser
    <2> DEFINE x == [r EXCEPT !.pc = "password"]
               n == [past.checks EXCEPT ![c] = Append(past.checks[c], clock)]
    <2>1. req' = [req EXCEPT ![t] = x] /\ past' = [past EXCEPT !.checks = n]
      BY <1>3
    <2>2. x \in Request /\ RequestInv(x, clock, issued, past.out)
      BY <1>1, LoginMoves, Zenon
    <2>3. past \in [requests : [Kinds -> Nat], out : SUBSET Nat, checks : [Clients -> Seq(Nat)]]
      BY DEF AccessInv, StoresOK
    <2>4. n \in [Clients -> Seq(Nat)]
      <3>1. past.checks \in [Clients -> Seq(Nat)]
        BY <2>3
      <3>2. Append(past.checks[c], clock) \in Seq(Nat)
        BY <1>1, <3>1
      <3> QED
        BY <3>1, <3>2
    <2> HIDE DEF x, n
    <2>5. /\ past' \in [requests : [Kinds -> Nat], out : SUBSET Nat, checks : [Clients -> Seq(Nat)]]
          /\ past'.out = past.out
      BY <2>1, <2>3, <2>4
    <2>6. StoresOK' /\ UNCHANGED <<clock, issued, dead>>
      BY <1>2, <1>3, <2>5 DEF AccessInv, StoresOK, LimitLogin
    <2> QED
      BY <2>1, <2>2, <2>5, <2>6, RequestAndStoresStep
  <1>4. CASE /\ req' = [req EXCEPT ![t] = [Audited(r, "", FALSE) EXCEPT !.read = clock]]
             /\ browser' = [browser EXCEPT ![c].form = 0]
             /\ UNCHANGED past
    <2> DEFINE y == Audited(r, "", FALSE)
               x == [y EXCEPT !.read = clock]
    <2>1. "" \in Subjects
      BY DEF Subjects
    <2>2. y = Audited(r, "", FALSE)
      OBVIOUS
    <2> HIDE DEF y
    <2>3. AuditedAs(y, r, "", FALSE)
      BY <1>1, <2>1, <2>2, AuditedFields, Zenon
    <2>4. /\ y \in Request
          /\ y.pc = "done" /\ y.kind = r.kind /\ y.client = r.client
          /\ y.stage = r.stage /\ y.applied = r.applied /\ y.cookies = <<>>
          /\ y.found = 0 /\ y.csrf = 0 /\ y.out = {} /\ y.i = 1
          /\ Len(y.audit) = 1
      BY <2>3, Zenon DEF AuditedAs
    <2>5. /\ x \in Request /\ x.read = clock
          /\ x.pc = y.pc /\ x.kind = y.kind /\ x.client = y.client
          /\ x.stage = y.stage /\ x.applied = y.applied /\ x.cookies = y.cookies
          /\ x.found = y.found /\ x.csrf = y.csrf /\ x.out = y.out /\ x.i = y.i
          /\ x.audit = y.audit
      BY <1>1, <2>4, Zenon DEF Request
    <2> HIDE DEF x
    <2>6. /\ x.pc = "done" /\ x.kind = "login" /\ x.client \in Clients
          /\ ~x.applied /\ x.cookies = <<>>
          /\ x.found = 0 /\ x.csrf = 0 /\ x.out = {} /\ x.i >= 1
          /\ Len(x.audit) <= 1
      BY <1>1, <2>4, <2>5, ZeroIn, Zenon
    <2>7. x.kind # "control" /\ x.kind # "logout" /\ x.kind # "view"
      BY <2>6
    <2>8. EndsAudited(x)
      BY <2>7, Zenon DEF EndsAudited
    <2>9. RequestInv(x, clock, issued, past.out)
      BY <1>1, <2>5, <2>6, <2>7, <2>8, EndedInv, Zenon
    <2>10. req' = [req EXCEPT ![t] = x]
      BY <1>4, <2>2 DEF x
    <2>11. browser' \in [Clients -> [cookie : 0..1, form : 0..1]]
      BY <1>1, <1>4, FormBlank DEF AccessInv, StoresOK
    <2>12. StoresOK' /\ UNCHANGED <<clock, issued, dead>>
      BY <1>2, <1>4, <2>11 DEF AccessInv, StoresOK, LimitLogin
    <2> QED
      BY <1>4, <2>5, <2>9, <2>10, <2>12, RequestAndStoresStep
  <1> QED
    BY <1>3, <1>4 DEF LimitLogin

\* signSession rounds down, so that a session lasts no longer than TTL.
LEMMA RoundedDown ==
    ASSUME NEW a \in Nat, NEW d \in Nat \ {0}
    PROVE  (a \div d) * d <= a /\ (a \div d) * d \in Nat
  OBVIOUS

LEMMA SignSessionType ==
    ASSUME NEW subject \in Operators, clock \in Nat
    PROVE  SignSession(subject) \in Session /\ SignSession(subject).expiry <= clock + TTL
  <1>1. clock + TTL \in Nat /\ Second \in Nat \ {0}
    BY AccessAssumption
  <1>2. ((clock + TTL) \div Second) * Second <= clock + TTL
        /\ ((clock + TTL) \div Second) * Second \in Nat
    BY <1>1, RoundedDown
  <1> QED
    BY <1>2 DEF SignSession, Session

LEMMA PasswordStep ==
    ASSUME AccessInv, NEW t \in Threads, Password(t)
    PROVE  AccessInv'
  <1> DEFINE r == req[t]
  <1>1. /\ clock \in Nat /\ issued \in Seq(Session) /\ r \in Request /\ Refers(r, issued)
        /\ RequestInv(r, clock, issued, past.out) /\ r.pc = "password"
        /\ r.kind = "login" /\ r.client \in Clients /\ r.audit = <<>> /\ ~r.applied
    BY LoginBefore DEF Password
  <1>2. CASE Rejected(t) /\ UNCHANGED issued
    BY <1>1, <1>2, RejectedStep DEF Password
  <1>3. CASE /\ req' = [req EXCEPT ![t] = Done(r)]
             /\ browser' = [browser EXCEPT ![r.client].form = 0]
             /\ UNCHANGED issued
    <2>1. Done(r) \in Request /\ RequestInv(Done(r), clock, issued, past.out)
      BY <1>1, DoneInv
    <2>2. browser' \in [Clients -> [cookie : 0..1, form : 0..1]]
      BY <1>1, <1>3, FormBlank DEF AccessInv, StoresOK
    <2>3. StoresOK' /\ UNCHANGED <<clock, issued, dead, past>>
      BY <1>3, <2>2 DEF AccessInv, StoresOK, Password
    <2> QED
      BY <1>3, <2>1, <2>3, RequestAndStoresStep
  <1>4. ASSUME NEW subject \in Operators,
               issued' = Append(issued, SignSession(subject)),
               req' = [req EXCEPT ![t] = Audited(r, subject, TRUE)],
               browser' = [browser EXCEPT ![r.client] = [cookie |-> 0, form |-> 0]]
        PROVE  AccessInv'
    <2>0. UNCHANGED <<clock, conf, dead, seen, past>>
      BY DEF Password
    <2>1. SignSession(subject) \in Session /\ SignSession(subject).expiry <= clock + TTL
      BY <1>1, SignSessionType
    <2>2. /\ issued' \in Seq(Session) /\ Len(issued') = Len(issued) + 1
          /\ issued'[Len(issued) + 1] = SignSession(subject)
          /\ \A id \in DOMAIN issued : issued'[id] = issued[id]
          /\ DOMAIN issued' = DOMAIN issued \union {Len(issued) + 1}
      BY <1>1, <1>4, <2>1, AppendFacts
    <2>3. \A id \in DOMAIN issued' : issued'[id].expiry <= clock + TTL
      BY <2>1, <2>2 DEF AccessInv, StoresOK
    <2>4. browser' \in [Clients -> [cookie : 0..1, form : 0..1]]
      BY <1>1, <1>4 DEF AccessInv, StoresOK
    <2>5. StoresOK'
      BY <2>0, <2>2, <2>3, <2>4 DEF AccessInv, StoresOK
    <2>6. SignOutsKept'
      BY <2>0, <2>2 DEF AccessInv, SignOutsKept, StoresOK
    <2>7. Len(issued) <= Len(issued') /\ Refers(r, issued')
      BY <1>1, <2>2 DEF Refers
    <2>8. Audited(r, subject, TRUE) \in Request
          /\ RequestInv(Audited(r, subject, TRUE), clock, issued', past.out)
      <3>1. subject \in Subjects
        BY DEF Subjects
      <3> QED
        BY <1>1, <2>2, <2>7, <3>1, AuditedInv
    <2>9. RequestsInv'
      BY <1>4, <2>0, <2>2, <2>7, <2>8, OneRequestMoves DEF AccessInv
    <2> QED
      BY <2>5, <2>6, <2>9 DEF AccessInv
  <1> QED
    BY <1>2, <1>3, <1>4 DEF Password

LEMMA InitInv ==
    ASSUME Init
    PROVE  AccessInv
  <1>1. clock = 1 /\ 1 \in 1..MaxClock /\ 1 \in Nat
    BY AccessAssumption DEF Init
  <1>2. issued \in Seq(Session) /\ \A id \in DOMAIN issued : issued[id].expiry <= clock + TTL
    <2>1. issued = <<>> \/ issued \in Earlier
      BY DEF Init
    <2>2. CASE issued = <<>>
      BY <2>2, EmptyTuple, Zenon
    <2>3. CASE issued \in Earlier
      BY <1>1, <2>3, AccessAssumption
    <2> QED
      BY <2>1, <2>2, <2>3
  <1>3. conf \in Deployments /\ New(conf)
    BY DEF Init
  <1>4. DOMAIN dead = {} /\ DOMAIN seen = {}
    BY EmptyTuple, Zenon DEF Init
  <1>5. browser \in [Clients -> [cookie : 0..1, form : 0..1]]
    BY DEF Init
  <1>6. /\ past \in [requests : [Kinds -> Nat], out : SUBSET Nat, checks : [Clients -> Seq(Nat)]]
        /\ past.out = {}
    <2> DEFINE n == [k \in Kinds |-> 0]
               q == [c \in Clients |-> <<>>]
    <2>1. n \in [Kinds -> Nat]
      OBVIOUS
    <2>2. q \in [Clients -> Seq(Nat)]
      BY EmptyTuple, Zenon
    <2>3. past = [requests |-> n, out |-> {}, checks |-> q]
      BY Zenon DEF Init
    <2> HIDE DEF n, q
    <2> QED
      BY <2>1, <2>2, <2>3
  <1>7. StoresOK
    BY <1>1, <1>2, <1>3, <1>4, <1>5, <1>6, Zenon DEF StoresOK
  <1>8. SignOutsKept
    BY <1>4, <1>6 DEF SignOutsKept
  <1>9. RequestsInv
    <2>1. NoRequest \in Request /\ RequestInv(NoRequest, clock, issued, past.out)
      BY <1>1, <1>2, FreeRequest, Zenon
    <2>2. req = [t \in Threads |-> NoRequest]
      BY DEF Init
    <2> HIDE DEF NoRequest
    <2> QED
      BY <2>1, <2>2 DEF RequestsInv
  <1> QED
    BY <1>7, <1>8, <1>9 DEF AccessInv

LEMMA NextInv ==
    ASSUME AccessInv, [Next]_vars
    PROVE  AccessInv'
  <1>1. CASE UNCHANGED vars
    BY <1>1 DEF vars, AccessInv, StoresOK, SignOutsKept, RequestsInv
  <1>2. CASE Tick
    BY <1>2, TickStep
  <1>3. CASE \E c \in Clients : LoginForm(c)
    BY <1>3, LoginFormStep
  <1>4. ASSUME NEW t \in Threads,
               \/ Arrive(t) \/ ReadExpiry(t) \/ ReadRevoked(t) \/ Gate(t) \/ Policy(t) \/ CheckCSRF(t)
               \/ Apply(t) \/ Audit(t) \/ Logout(t) \/ LoginSubmit(t) \/ LimitLogin(t) \/ Password(t)
        PROVE  AccessInv'
    BY <1>4, ArriveStep, ReadExpiryStep, ReadRevokedStep, GateStep, PolicyStep, CheckCSRFStep,
       ApplyStep, AuditStep, LogoutStep, LoginSubmitStep, LimitLoginStep, PasswordStep
  <1> QED
    BY <1>1, <1>2, <1>3, <1>4, Zenon DEF Next

LEMMA AccessInvariant == Spec => []AccessInv
  <1>1. Init => AccessInv
    BY InitInv
  <1>2. AccessInv /\ [Next]_vars => AccessInv'
    BY NextInv
  <1> QED
    BY <1>1, <1>2, PTL DEF Spec

\* The shape of sessions, sign-outs, windows, pages and requests in every reachable state:
\* no session outlasts sessionTTL, no sign-out or window is kept beyond its end, and a
\* request has at most one entry in the audit trail.
THEOREM AccessTypeOK == Spec => []TypeOK
  <1>1. AccessInv => TypeOK
    <2> SUFFICES ASSUME AccessInv PROVE TypeOK
      OBVIOUS
    <2>1. \A t \in Threads : Refers(req[t], issued)
      BY Zenon DEF AccessInv, RequestsInv, RequestInv
    <2> QED
      BY <2>1, Zenon DEF AccessInv, StoresOK, RequestsInv, Refers, TypeOK
  <1> QED
    BY <1>1, AccessInvariant, PTL

\* logout with revocations.isRevoked and its sweep: whatever else goes on between the two
\* readings of a lookup, a request that arrives after a session was signed out does not
\* pass for that session before its expiry.
THEOREM SignedOutStaysOutAlways == Spec => []SignedOutStaysOut
  <1>1. AccessInv => SignedOutStaysOut
    BY Zenon DEF AccessInv, RequestsInv, RequestInv, SignedOutStaysOut
  <1> QED
    BY <1>1, AccessInvariant, PTL

\* control: past the gate a request leaves one entry, and one that acted is on record as
\* allowed under a subject the policy admits, at whichever check it ended.
THEOREM AuditTellsAlways == Spec => []AuditTells
  <1>1. AccessInv => AuditTells
    BY Zenon DEF AccessInv, RequestsInv, RequestInv, EndsAudited, AuditTells
  <1> QED
    BY <1>1, AccessInvariant, PTL

\* mayControl and checkCSRF look the session up apart: the operator the policy judged is
\* the one whose form was sent, unless the judged session ended in between or the form's
\* session was signed out and is read at its expiry.
THEOREM ActsInOneNameAlways == Spec => []ActsInOneName
  <1>1. AccessInv => ActsInOneName
    <2> SUFFICES ASSUME AccessInv, NEW t \in Threads,
                        req[t].pc = "audit", req[t].applied, req[t].via = "session"
                 PROVE  \/ issued[req[t].csrf].subject = req[t].subject
                        \/ \E id \in Range(req[t].cookies) :
                              /\ issued[id].subject = req[t].subject
                              /\ clock > issued[id].expiry \/ id \in past.out
                        \/ req[t].csrf \in past.out /\ req[t].read >= issued[req[t].csrf].expiry
      BY Zenon DEF ActsInOneName
    <2> DEFINE r == req[t]
    <2>1. RequestInv(r, clock, issued, past.out)
      BY Before
    <2>2. r.kind = "control" /\ r.stage = "csrf" /\ r.found # 0 /\ r.csrf = r.found
      BY <2>1 DEF RequestInv, OnItsWay
    <2>3. PICK p \in DOMAIN r.cookies : JudgedAt(r, p, clock, issued, past.out)
      BY <2>1, <2>2 DEF RequestInv, Judged
    <2>4. r.cookies[p] \in Range(r.cookies)
      BY <2>3, Zenon DEF Range
    <2>5. issued[r.cookies[p]].subject = r.subject
      BY <2>3 DEF JudgedAt
    <2>6. CASE r.found = r.cookies[p]
      BY <2>2, <2>5, <2>6
    <2>7. CASE Spent(r.cookies[p], clock, issued, past.out)
      BY <2>4, <2>5, <2>7, Zenon DEF Spent
    <2>8. CASE r.found \in past.out /\ r.read >= issued[r.found].expiry
      BY <2>2, <2>8
    <2> QED
      BY <2>3, <2>6, <2>7, <2>8 DEF JudgedAt
  <1> QED
    BY <1>1, AccessInvariant, PTL
=============================================================================
