---------------------------- MODULE LimiterProofs ----------------------------
(***************************************************************************)
(* Proofs about the login limiter: how many passwords a client can have    *)
(* checked, and when it may be refused, for any burst, window, number of   *)
(* clients and of concurrent logins.                                       *)
(***************************************************************************)
EXTENDS AccessProofs

(* The inductive invariant.  The times of a client's checks are a sequence q. *)

\* The checks of the window that ends at u.
Since(q, u) == {n \in DOMAIN q : u <= q[n] + LoginWindow}

\* The checks in the LoginWindow before it.
Preceding(q, u) == {n \in DOMAIN q : u <= q[n] + 2 * LoginWindow /\ q[n] + LoginWindow < u}

\* The checks from one time to another.
Between(q, from, to) == {n \in DOMAIN q : from <= q[n] /\ q[n] <= to}

\* The checks in the LoginWindow before a time.
Prior(q, a) == {n \in DOMAIN q : q[n] < a /\ a <= q[n] + LoginWindow}

\* An open window was opened by a check and counts its checks up to the burst.  Those in
\* the LoginWindow before it are fewer than a burst, and are of windows opened earlier yet.
WindowInv(q, w, now) ==
    /\ w.count >= 1 /\ w.until > LoginWindow /\ w.until <= now + LoginWindow
    /\ \A n \in DOMAIN q : q[n] <= w.until
    /\ \E m \in DOMAIN q : q[m] + LoginWindow = w.until
    /\ Cardinality(Since(q, w.until)) = (IF w.count < Burst THEN w.count ELSE Burst)
    /\ Cardinality(Preceding(q, w.until)) < Burst
    /\ \A n \in Preceding(q, w.until) :
          \E m \in DOMAIN q : q[n] <= q[m] + LoginWindow /\ q[m] + 2 * LoginWindow < w.until

\* A client without a window has had less than a burst in the last LoginWindow, of windows
\* opened before that.
IdleInv(q, now) ==
    /\ \A n \in DOMAIN q : q[n] < now
    /\ Cardinality(Since(q, now)) < Burst
    /\ \A n \in Since(q, now) :
          \E m \in DOMAIN q : q[n] <= q[m] + LoginWindow /\ q[m] + LoginWindow < now

\* A stretch of LoginWindow has fewer than two bursts, and at most one after a quiet one.
TwoBursts(q) ==
    \A a \in Nat :
        /\ Cardinality(Between(q, a, a + LoginWindow)) <= 2 * Burst - 1
        /\ Prior(q, a) = {} => Cardinality(Between(q, a, a + LoginWindow)) <= Burst

ClientInv(c) ==
    /\ \A n \in DOMAIN past.checks[c] : past.checks[c][n] <= clock
    /\ TwoBursts(past.checks[c])
    /\ IF c \in DOMAIN seen THEN WindowInv(past.checks[c], seen[c], clock)
       ELSE IdleInv(past.checks[c], clock)

\* A refused login had a burst before it.
Refusal(r) ==
    r.kind = "login" /\ r.read # 0 =>
        Cardinality(Between(past.checks[r.client],
                            IF r.read > LoginWindow THEN r.read - LoginWindow ELSE 1, r.read)) >= Burst

LimiterInv == (\A c \in Clients : ClientInv(c)) /\ (\A t \in Threads : Refusal(req[t]))

----------------------------------------------------------------------------
(* Windows. *)

LEMMA Constants == LoginWindow \in Nat /\ Burst \in Nat /\ Burst >= 1
  BY AccessAssumption

\* Parts of a client's checks are finite, and a smaller part has no more of them.
LEMMA PartOf ==
    ASSUME NEW q \in Seq(Nat), NEW T, T \subseteq DOMAIN q, NEW S, S \subseteq T
    PROVE  /\ IsFiniteSet(T) /\ IsFiniteSet(S) /\ Cardinality(T) \in Nat /\ Cardinality(S) \in Nat
           /\ Cardinality(S) <= Cardinality(T)
  <1>1. DOMAIN q = 1..Len(q) /\ Len(q) \in Nat /\ 1 \in Int /\ Len(q) \in Int
    OBVIOUS
  <1>2. IsFiniteSet(DOMAIN q)
    BY <1>1, FS_Interval
  <1>3. IsFiniteSet(T)
    BY <1>2, FS_Subset
  <1>4. IsFiniteSet(S) /\ Cardinality(S) <= Cardinality(T)
    BY <1>3, FS_Subset
  <1> QED
    BY <1>3, <1>4, FS_CardinalityType

LEMMA Shift ==
    ASSUME NEW q \in Seq(Nat), NEW now \in Nat, NEW p, p = Append(q, now)
    PROVE  /\ p \in Seq(Nat) /\ Len(q) + 1 \notin DOMAIN q
           /\ DOMAIN p = DOMAIN q \union {Len(q) + 1} /\ p[Len(q) + 1] = now
           /\ \A n \in DOMAIN q : p[n] = q[n] /\ q[n] \in Nat
  OBVIOUS

\* A window that is over leaves its client idle.
LEMMA Lapsed ==
    ASSUME NEW q \in Seq(Nat), NEW w \in [count : Nat, until : Nat], NEW now \in Nat,
           WindowInv(q, w, now), w.until < now
    PROVE  IdleInv(q, now)
  <1>1. \A n \in DOMAIN q : q[n] \in Nat
    OBVIOUS
  <1>2. w.until \in Nat /\ w.count \in Nat
    OBVIOUS
  <1>3. PICK m \in DOMAIN q : q[m] + LoginWindow = w.until
    BY DEF WindowInv
  <1>4. Since(q, now) \subseteq Since(q, w.until) \ {m} /\ Since(q, w.until) \subseteq DOMAIN q
        /\ m \in Since(q, w.until)
    BY <1>1, <1>2, <1>3, Constants DEF Since
  <1>5. /\ IsFiniteSet(Since(q, w.until)) /\ Cardinality(Since(q, w.until)) \in Nat
        /\ Cardinality(Since(q, now)) \in Nat /\ Cardinality(Since(q, w.until) \ {m}) \in Nat
        /\ Cardinality(Since(q, now)) <= Cardinality(Since(q, w.until) \ {m})
    <2>1. Since(q, w.until) \ {m} \subseteq DOMAIN q
      BY <1>4
    <2> QED
      BY <1>4, <2>1, PartOf
  <1>6. Cardinality(Since(q, w.until) \ {m}) = Cardinality(Since(q, w.until)) - 1
    BY <1>4, <1>5, FS_RemoveElement
  <1>7. Cardinality(Since(q, w.until)) <= Burst
    BY <1>2, Constants DEF WindowInv
  <1>8. \A n \in DOMAIN q : q[n] < now /\ q[n] <= q[m] + LoginWindow
    BY <1>1, <1>2, <1>3 DEF WindowInv
  <1>9. q[m] + LoginWindow < now /\ Since(q, now) \subseteq DOMAIN q
    BY <1>3 DEF Since
  <1>10. Cardinality(Since(q, now)) < Burst
    BY <1>5, <1>6, <1>7, Constants
  <1> QED
    BY <1>8, <1>9, <1>10 DEF IdleInv

\* An idle client's next attempt opens a window.
LEMMA Reopened ==
    ASSUME NEW q \in Seq(Nat), NEW now \in Nat, now >= 1, IdleInv(q, now),
           NEW p, p = Append(q, now), NEW w, w.count = 1, w.until = now + LoginWindow
    PROVE  WindowInv(p, w, now)
  <1> DEFINE m == Len(q) + 1
  <1>1. /\ p \in Seq(Nat) /\ m \notin DOMAIN q /\ DOMAIN p = DOMAIN q \union {m} /\ p[m] = now
        /\ \A n \in DOMAIN q : p[n] = q[n] /\ q[n] \in Nat
    BY Shift
  <1> HIDE DEF m
  <1>2. \A n \in DOMAIN q : q[n] < now
    BY DEF IdleInv
  <1>3. Since(p, w.until) = {m}
    BY <1>1, <1>2, Constants DEF Since
  <1>4. Cardinality({m}) = 1
    BY FS_Singleton
  <1>5. Preceding(p, w.until) = Since(q, now)
    BY <1>1, <1>2, Constants DEF Since, Preceding
  <1>6. \A n \in DOMAIN p : p[n] <= w.until
    BY <1>1, <1>2, Constants
  <1>7. (IF w.count < Burst THEN w.count ELSE Burst) = 1
    BY Constants
  <1>8. w.count >= 1 /\ w.until > LoginWindow /\ w.until <= now + LoginWindow
    BY Constants
  <1>9. p[m] + LoginWindow = w.until /\ m \in DOMAIN p
    BY <1>1
  <1>10. ASSUME NEW n \in Preceding(p, w.until)
         PROVE  \E k \in DOMAIN p : p[n] <= p[k] + LoginWindow /\ p[k] + 2 * LoginWindow < w.until
    <2>1. n \in Since(q, now) /\ n \in DOMAIN q
      BY <1>5 DEF Since
    <2>2. PICK k \in DOMAIN q : q[n] <= q[k] + LoginWindow /\ q[k] + LoginWindow < now
      BY <2>1 DEF IdleInv
    <2>3. p[k] = q[k] /\ p[n] = q[n] /\ q[k] \in Nat /\ k \in DOMAIN p
      BY <1>1, <2>1
    <2>4. p[k] + 2 * LoginWindow < w.until
      BY <2>2, <2>3, Constants
    <2> QED
      BY <2>2, <2>3, <2>4
  <1> QED
    BY <1>3, <1>4, <1>5, <1>6, <1>7, <1>8, <1>9, <1>10 DEF WindowInv, IdleInv

\* An attempt within the burst is counted and checked.
LEMMA Counted ==
    ASSUME NEW q \in Seq(Nat), NEW now \in Nat, NEW v \in [count : Nat, until : Nat],
           WindowInv(q, v, now), now <= v.until, v.count < Burst,
           NEW p, p = Append(q, now), NEW w, w.count = v.count + 1, w.until = v.until
    PROVE  WindowInv(p, w, now)
  <1> DEFINE m == Len(q) + 1
  <1>1. /\ p \in Seq(Nat) /\ m \notin DOMAIN q /\ DOMAIN p = DOMAIN q \union {m} /\ p[m] = now
        /\ \A n \in DOMAIN q : p[n] = q[n] /\ q[n] \in Nat
    BY Shift
  <1> HIDE DEF m
  <1>2. v.until \in Nat /\ v.count \in Nat /\ v.until <= now + LoginWindow
        /\ v.until > LoginWindow
    BY DEF WindowInv
  <1>3. Since(p, w.until) = Since(q, v.until) \union {m}
    <2>1. w.until <= p[m] + LoginWindow
      BY <1>1, <1>2, Constants
    <2> QED
      BY <1>1, <2>1, Zenon DEF Since
  <1>4. m \notin Since(q, v.until) /\ Since(q, v.until) \subseteq DOMAIN q
    BY <1>1 DEF Since
  <1>5. IsFiniteSet(Since(q, v.until)) /\ Cardinality(Since(q, v.until)) \in Nat
    BY <1>4, PartOf
  <1>6. Cardinality(Since(p, w.until)) = Cardinality(Since(q, v.until)) + 1
    BY <1>3, <1>4, <1>5, FS_AddElement, ZenonT(60)
  <1>7. Cardinality(Since(q, v.until)) = v.count
    BY DEF WindowInv
  <1>8. Preceding(p, w.until) = Preceding(q, v.until)
    <2>1. ~(p[m] + LoginWindow < w.until)
      BY <1>1, <1>2, Constants
    <2> QED
      BY <1>1, <2>1, Zenon DEF Preceding
  <1>9. \A n \in DOMAIN p : p[n] <= w.until
    BY <1>1, <1>2 DEF WindowInv
  <1>10. (IF w.count < Burst THEN w.count ELSE Burst) = v.count + 1
    BY <1>2, Constants
  <1>11. w.count >= 1
    BY <1>2
  <1>12. \E k \in DOMAIN p : p[k] + LoginWindow = w.until
    BY <1>1 DEF WindowInv
  <1>13. ASSUME NEW n \in Preceding(p, w.until)
         PROVE  \E k \in DOMAIN p : p[n] <= p[k] + LoginWindow /\ p[k] + 2 * LoginWindow < w.until
    <2>1. n \in DOMAIN q /\ n \in Preceding(q, v.until)
      BY <1>8 DEF Preceding
    <2>2. PICK k \in DOMAIN q : q[n] <= q[k] + LoginWindow /\ q[k] + 2 * LoginWindow < v.until
      BY <2>1 DEF WindowInv
    <2> QED
      BY <1>1, <2>1, <2>2
  <1>14. Cardinality(Preceding(p, w.until)) < Burst
    BY <1>8 DEF WindowInv
  <1> QED
    BY <1>2, <1>6, <1>7, <1>9, <1>10, <1>11, <1>12, <1>13, <1>14 DEF WindowInv

\* An attempt beyond the burst is only counted.
LEMMA Overrun ==
    ASSUME NEW q \in Seq(Nat), NEW now \in Nat, NEW v \in [count : Nat, until : Nat],
           WindowInv(q, v, now), v.count >= Burst,
           NEW w, w.count = v.count + 1, w.until = v.until
    PROVE  WindowInv(q, w, now)
  <1>1. v.count \in Nat
    OBVIOUS
  <1>2. ~(v.count < Burst) /\ ~(w.count < Burst) /\ w.count >= 1
    BY <1>1, Constants
  <1> QED
    BY <1>2 DEF WindowInv

\* After a check a stretch is still within its bounds: one that reaches up to now lies within
\* the open window and the LoginWindow before, or, after a quiet one, within the open window.
LEMMA StillTwoBursts ==
    ASSUME NEW q \in Seq(Nat), NEW now \in Nat, TwoBursts(q),
           NEW p, p = Append(q, now), NEW w \in [count : Nat, until : Nat], WindowInv(p, w, now)
    PROVE  TwoBursts(p)
  <1> DEFINE m == Len(q) + 1
  <1>1. /\ p \in Seq(Nat) /\ m \notin DOMAIN q /\ DOMAIN p = DOMAIN q \union {m} /\ p[m] = now
        /\ \A n \in DOMAIN q : p[n] = q[n] /\ q[n] \in Nat
    BY Shift
  <1> HIDE DEF m
  <1>2. w.until \in Nat /\ w.until <= now + LoginWindow /\ w.count \in Nat
    BY DEF WindowInv
  <1> SUFFICES ASSUME NEW a \in Nat
               PROVE  /\ Cardinality(Between(p, a, a + LoginWindow)) <= 2 * Burst - 1
                      /\ Prior(p, a) = {} => Cardinality(Between(p, a, a + LoginWindow)) <= Burst
    BY DEF TwoBursts
  <1>3. CASE a + LoginWindow < now
    <2>1. Between(p, a, a + LoginWindow) = Between(q, a, a + LoginWindow)
      <3>1. ~(p[m] <= a + LoginWindow)
        BY <1>1, <1>3, Constants
      <3> QED
        BY <1>1, <3>1, Zenon DEF Between
    <2>2. Prior(q, a) \subseteq Prior(p, a)
      BY <1>1 DEF Prior
    <2> QED
      BY <2>1, <2>2 DEF TwoBursts
  <1>4. CASE a + LoginWindow >= now
    <2> DEFINE S == Since(p, w.until)
               P == Preceding(p, w.until)
    <2>1. Between(p, a, a + LoginWindow) \subseteq S \union P
      <3>1. \A n \in DOMAIN p : p[n] \in Nat
        BY <1>1
      <3> QED
        BY <1>2, <1>4, <3>1, Constants, SMTT(40) DEF Between, Since, Preceding
    <2>2. S \subseteq DOMAIN p /\ P \subseteq DOMAIN p /\ S \union P \subseteq DOMAIN p
      BY DEF Since, Preceding
    <2>3. Cardinality(S) <= Burst /\ Cardinality(P) < Burst
      BY <1>2, Constants DEF WindowInv
    <2>7. ASSUME Prior(p, a) = {}
          PROVE  Between(p, a, a + LoginWindow) \subseteq S
      <3> SUFFICES ASSUME NEW n \in Between(p, a, a + LoginWindow), n \notin S
                   PROVE  FALSE
        OBVIOUS
      <3>1. n \in P /\ n \in DOMAIN p
        BY <2>1 DEF Between
      <3>2. PICK k \in DOMAIN p : p[n] <= p[k] + LoginWindow /\ p[k] + 2 * LoginWindow < w.until
        BY <3>1 DEF WindowInv
      <3>3. p[k] \in Nat /\ p[n] \in Nat /\ a <= p[n]
        BY <1>1, <3>1 DEF Between
      <3>4. ASSUME NEW x \in Nat, x + 2 * LoginWindow < w.until
            PROVE  x < a
        BY <1>2, <1>4, <3>4, Constants
      <3>5. p[k] < a
        BY <3>2, <3>3, <3>4, Zenon
      <3>6. ASSUME NEW x \in Nat, NEW y \in Nat, a <= y, y <= x + LoginWindow
            PROVE  a <= x + LoginWindow
        BY <3>6, Constants
      <3>7. a <= p[k] + LoginWindow
        BY <3>2, <3>3, <3>6, Zenon
      <3> QED
        BY <2>7, <3>5, <3>7 DEF Prior
    <2> HIDE DEF S, P
    <2>4. /\ IsFiniteSet(S) /\ IsFiniteSet(P)
          /\ Cardinality(S) \in Nat /\ Cardinality(P) \in Nat
          /\ Cardinality(S \intersect P) \in Nat /\ Cardinality(S \union P) \in Nat
      <3>1. S \intersect P \subseteq S
        OBVIOUS
      <3> QED
        BY <1>1, <2>2, <3>1, PartOf
    <2>5. Cardinality(S \union P) = Cardinality(S) + Cardinality(P) - Cardinality(S \intersect P)
      BY <2>4, FS_Union
    <2>6. /\ Cardinality(Between(p, a, a + LoginWindow)) <= Cardinality(S \union P)
          /\ Cardinality(Between(p, a, a + LoginWindow)) \in Nat
      BY <1>1, <2>1, <2>2, PartOf
    <2>8. Prior(p, a) = {} => Cardinality(Between(p, a, a + LoginWindow)) <= Cardinality(S)
      BY <1>1, <2>2, <2>7, PartOf
    <2>9. Cardinality(Between(p, a, a + LoginWindow)) <= 2 * Burst - 1
      BY <2>3, <2>4, <2>5, <2>6, Constants, SMTT(40)
    <2> QED
      BY <2>3, <2>4, <2>6, <2>8, <2>9, Constants
  <1> QED
    BY <1>3, <1>4, Constants

----------------------------------------------------------------------------
(* Steps. *)

\* A request that was not refused for its attempts.
Quiet(r) == r.kind # "login" \/ r.read = 0

\* A request under way, or one that ended otherwise, is not a refusal.
LEMMA UnderWay ==
    ASSUME NEW r, NEW now, NEW iss, NEW out, RequestInv(r, now, iss, out), r.pc # "done"
    PROVE  Quiet(r)
  BY Zenon DEF RequestInv, OnItsWay, Quiet

LEMMA EndedQuiet ==
    ASSUME NEW r, NEW subject, NEW allowed
    PROVE  Quiet(Done(r)) /\ Quiet(Audited(r, subject, allowed))
  <1>1. Done(r).read = 0
    BY DEF Done, NoRequest
  <1>2. Audited(r, subject, allowed).read = 0
    BY Zenon DEF Audited, Done, NoRequest
  <1> QED
    BY <1>1, <1>2, Zenon DEF Quiet

\* Steps that leave the clock, the windows and the checks alone.
LEMMA CountsKept ==
    ASSUME AccessInv, AccessInv', LimiterInv, clock' = clock, seen' = seen,
           past'.checks = past.checks,
           \A u \in Threads : req'[u] = req[u] \/ req'[u].pc # "done" \/ Quiet(req'[u])
    PROVE  LimiterInv'
  <1>1. \A c \in Clients : ClientInv(c)'
    BY DEF LimiterInv, ClientInv
  <1>2. ASSUME NEW u \in Threads
        PROVE  Refusal(req[u])'
    <2>1. RequestInv(req[u]', clock', issued', past'.out)
      BY <1>2 DEF AccessInv, RequestsInv
    <2>2. CASE req'[u] = req[u]
      BY <2>2 DEF LimiterInv, Refusal
    <2>3. CASE req'[u].pc # "done" \/ Quiet(req'[u])
      <3>1. Quiet(req'[u])
        BY <2>1, <2>3, UnderWay
      <3> QED
        BY <3>1 DEF Quiet, Refusal
    <2> QED
      BY <2>2, <2>3
  <1> QED
    BY <1>1, <1>2 DEF LimiterInv

\* The same for a step of one request.
LEMMA OneQuiet ==
    ASSUME AccessInv, AccessInv', LimiterInv, clock' = clock, seen' = seen,
           past'.checks = past.checks, NEW t \in Threads, NEW x,
           req' = [req EXCEPT ![t] = x], x.pc # "done" \/ Quiet(x)
    PROVE  LimiterInv'
  <1>1. req \in [Threads -> Request]
    BY DEF AccessInv, RequestsInv
  <1>2. \A u \in Threads : req'[u] = req[u] \/ req'[u].pc # "done" \/ Quiet(req'[u])
    BY <1>1
  <1> QED
    BY <1>2, CountsKept

LEMMA ServeQuiet ==
    ASSUME NEW r, r \in Request
    PROVE  /\ \A stage : LookUp(r, stage).pc # "done"
           /\ Serve(r).pc # "done" \/ Quiet(Serve(r))
           /\ ServeHTTP(r).pc # "done" \/ Quiet(ServeHTTP(r))
  <1>1. \A stage : LookUp(r, stage).pc # "done"
    BY DEF LookUp, Request
  <1>2. Serve(r).pc # "done" \/ Quiet(Serve(r))
    BY <1>1, EndedQuiet, Zenon DEF Serve
  <1>3. [r EXCEPT !.pc = "form"].pc # "done"
    BY DEF Request
  <1>4. ServeHTTP(r).pc # "done" \/ Quiet(ServeHTTP(r))
    BY <1>1, <1>2, <1>3, Zenon DEF ServeHTTP
  <1> QED
    BY <1>1, <1>2, <1>4

\* A step of a request other than at the limiter.
LEMMA QuietSteps ==
    ASSUME AccessInv, AccessInv', LimiterInv, NEW t \in Threads,
           \/ ReadExpiry(t) \/ ReadRevoked(t) \/ Gate(t) \/ Policy(t) \/ CheckCSRF(t)
           \/ Apply(t) \/ Audit(t) \/ Logout(t) \/ LoginSubmit(t) \/ Password(t)
    PROVE  LimiterInv'
  <1> DEFINE r == req[t]
  <1>1. r \in Request /\ req \in [Threads -> Request]
    BY DEF AccessInv, RequestsInv
  <1>2. clock' = clock /\ seen' = seen /\ past'.checks = past.checks
    <2>1. past \in [requests : [Kinds -> Nat], out : SUBSET Nat, checks : [Clients -> Seq(Nat)]]
      BY DEF AccessInv, StoresOK
    <2>2. \A S : [past EXCEPT !.out = S].checks = past.checks
      BY <2>1
    <2>3. Logout(t) => past'.checks = past.checks
      BY <2>2 DEF Logout
    <2> QED
      BY <2>3 DEF ReadExpiry, ReadRevoked, Gate, Policy, CheckCSRF, Apply, Audit, Logout,
                  LoginSubmit, Password
  <1>3. \E x : req' = [req EXCEPT ![t] = x] /\ (x.pc # "done" \/ Quiet(x))
    <2>0. /\ \A n : [r EXCEPT !.i = n].pc = r.pc
          /\ \A n : [r EXCEPT !.pc = "scan", !.i = n].pc = "scan"
          /\ \A n, m : [r EXCEPT !.pc = "scanned", !.found = n, !.read = m].pc = "scanned"
          /\ \A pc : [r EXCEPT !.pc = pc].pc = pc
          /\ [r EXCEPT !.applied = TRUE, !.pc = "audit"].pc = "audit"
      BY <1>1 DEF Request
    <2>1. CASE ReadExpiry(t)
      <3> DEFINE x == IF clock <= issued[r.cookies[r.i]].expiry
                      THEN [r EXCEPT !.pc = "revoked"] ELSE [r EXCEPT !.i = r.i + 1]
      <3>1. req' = [req EXCEPT ![t] = x] /\ r.pc = "scan"
        BY <2>1 DEF ReadExpiry
      <3>2. x.pc # "done"
        BY <2>0, <3>1
      <3> QED
        BY <3>1, <3>2, Zenon
    <2>2. CASE ReadRevoked(t)
      <3> DEFINE x == IF IsRevoked(r.cookies[r.i]) THEN [r EXCEPT !.pc = "scan", !.i = r.i + 1]
                      ELSE [r EXCEPT !.pc = "scanned", !.found = r.cookies[r.i], !.read = clock]
      <3>1. req' = [req EXCEPT ![t] = x]
        BY <2>2 DEF ReadRevoked
      <3>2. x.pc # "done"
        BY <2>0
      <3> QED
        BY <3>1, <3>2, Zenon
    <2>3. CASE Gate(t)
      <3> DEFINE x == IF Identify(r).via = "" THEN Done(r) ELSE Serve(r)
      <3>1. req' = [req EXCEPT ![t] = x]
        BY <2>3 DEF Gate
      <3>2. x.pc # "done" \/ Quiet(x)
        BY <1>1, EndedQuiet, ServeQuiet, Zenon
      <3> QED
        BY <3>1, <3>2, Zenon
    <2>4. CASE Policy(t)
      <3> DEFINE id == Identify(r)
                 y == [r EXCEPT !.via = id.via, !.subject = id.subject]
                 x == IF ~MayControl(id) THEN Audited(r, id.subject, FALSE)
                      ELSE IF id.via = "token" THEN [y EXCEPT !.pc = "apply"] ELSE LookUp(y, "csrf")
      <3>1. req' = [req EXCEPT ![t] = x]
        BY <2>4 DEF Policy
      <3>2. [y EXCEPT !.pc = "apply"].pc = "apply" /\ LookUp(y, "csrf").pc = "scan"
        BY <1>1 DEF Request, LookUp
      <3>3. x.pc # "done" \/ Quiet(x)
        BY <3>2, EndedQuiet, Zenon
      <3> QED
        BY <3>1, <3>3, Zenon
    <2>5. CASE CheckCSRF(t)
      <3> DEFINE x == IF CSRFHolds(r)
                      THEN IF r.kind = "logout" THEN LookUp(r, "session") ELSE [r EXCEPT !.pc = "apply"]
                      ELSE IF r.kind = "logout" THEN Done(r) ELSE Audited(r, r.subject, FALSE)
      <3>1. req' = [req EXCEPT ![t] = x]
        BY <2>5 DEF CheckCSRF
      <3>2. [r EXCEPT !.pc = "apply"].pc = "apply" /\ LookUp(r, "session").pc = "scan"
        BY <1>1 DEF Request, LookUp
      <3>3. x.pc # "done" \/ Quiet(x)
        BY <3>2, EndedQuiet, Zenon
      <3> QED
        BY <3>1, <3>3, Zenon
    <2>6. CASE Apply(t)
      <3>1. PICK x : /\ req' = [req EXCEPT ![t] = x]
                     /\ x \in {[r EXCEPT !.applied = TRUE, !.pc = "audit"], [r EXCEPT !.pc = "audit"]}
        BY <1>1, <2>6 DEF Apply
      <3>2. x.pc = "audit"
        BY <2>0, <3>1, Zenon
      <3>3. x.pc # "done"
        BY <3>2
      <3> QED
        BY <3>1, <3>3, Zenon
    <2>7. CASE Audit(t)
      BY <2>7, EndedQuiet, Zenon DEF Audit
    <2>8. CASE Logout(t)
      BY <2>8, EndedQuiet, Zenon DEF Logout
    <2>9. CASE LoginSubmit(t)
      <3>1. CASE Rejected(t)
        BY <3>1, EndedQuiet, Zenon DEF Rejected
      <3>2. CASE req' = [req EXCEPT ![t].pc = "limit"]
        <4>1. req' = [req EXCEPT ![t] = [r EXCEPT !.pc = "limit"]]
          BY <3>2
        <4>2. [r EXCEPT !.pc = "limit"].pc # "done"
          BY <2>0
        <4> QED
          BY <4>1, <4>2, Zenon
      <3> QED
        BY <2>9, <3>1, <3>2 DEF LoginSubmit
    <2>10. CASE Password(t)
      BY <2>10, EndedQuiet, Zenon DEF Password, Rejected
    <2> QED
      BY <2>1, <2>2, <2>3, <2>4, <2>5, <2>6, <2>7, <2>8, <2>9, <2>10, Zenon
  <1> QED
    BY <1>2, <1>3, OneQuiet

LEMMA ArriveQuiet ==
    ASSUME AccessInv, AccessInv', LimiterInv, NEW t \in Threads, Arrive(t)
    PROVE  LimiterInv'
  <1>1. PICK r \in Request : req' = [req EXCEPT ![t] = ServeHTTP(r)]
    BY Arrived
  <1>2. ServeHTTP(r).pc # "done" \/ Quiet(ServeHTTP(r))
    BY ServeQuiet
  <1>3. clock' = clock /\ seen' = seen /\ past'.checks = past.checks
    BY Arrived DEF Arrive
  <1> QED
    BY <1>1, <1>2, <1>3, OneQuiet

LEMMA LoginFormQuiet ==
    ASSUME AccessInv, AccessInv', LimiterInv, NEW c \in Clients, LoginForm(c)
    PROVE  LimiterInv'
  BY DEF LoginForm, LimiterInv, ClientInv, Refusal

LEMMA TickCounts ==
    ASSUME AccessInv, LimiterInv, Tick
    PROVE  LimiterInv'
  <1>1. clock \in Nat /\ clock' = clock + 1 /\ UNCHANGED <<seen, req, past>>
        /\ past.checks \in [Clients -> Seq(Nat)]
    BY AccessAssumption DEF AccessInv, StoresOK, Tick
  <1>2. ASSUME NEW c \in Clients
        PROVE  ClientInv(c)'
    <2> DEFINE q == past.checks[c]
    <2>1. q \in Seq(Nat) /\ ClientInv(c)
      BY <1>1 DEF LimiterInv
    <2>2. \A n \in DOMAIN q : q[n] \in Nat
      BY <2>1
    <2>3. \A n \in DOMAIN q : q[n] <= clock + 1
      BY <1>1, <2>1, <2>2 DEF ClientInv
    <2>4. ASSUME c \in DOMAIN seen
          PROVE  WindowInv(q, seen[c], clock + 1)
      <3>1. WindowInv(q, seen[c], clock) /\ seen[c].until \in Nat
        BY <2>1, <2>4 DEF ClientInv, AccessInv, StoresOK
      <3>2. seen[c].until <= clock + 1 + LoginWindow
        BY <1>1, <3>1, Constants DEF WindowInv
      <3> QED
        BY <3>1, <3>2 DEF WindowInv
    <2>5. ASSUME c \notin DOMAIN seen
          PROVE  IdleInv(q, clock + 1)
      <3>1. IdleInv(q, clock)
        BY <2>1, <2>5 DEF ClientInv
      <3>2. Since(q, clock + 1) \subseteq Since(q, clock) /\ Since(q, clock) \subseteq DOMAIN q
        BY <1>1, <2>2, Constants DEF Since
      <3>3. /\ Cardinality(Since(q, clock + 1)) <= Cardinality(Since(q, clock))
            /\ Cardinality(Since(q, clock + 1)) \in Nat /\ Cardinality(Since(q, clock)) \in Nat
        BY <2>1, <3>2, PartOf
      <3>4. \A n \in DOMAIN q : q[n] < clock + 1
        BY <1>1, <2>2, <3>1 DEF IdleInv
      <3>5. Cardinality(Since(q, clock + 1)) < Burst
        BY <3>1, <3>3, Constants DEF IdleInv
      <3>6. ASSUME NEW n \in Since(q, clock + 1)
            PROVE  \E m \in DOMAIN q : q[n] <= q[m] + LoginWindow /\ q[m] + LoginWindow < clock + 1
        <4>1. PICK m \in DOMAIN q : q[n] <= q[m] + LoginWindow /\ q[m] + LoginWindow < clock
          BY <3>1, <3>2 DEF IdleInv
        <4>2. q[m] + LoginWindow < clock + 1
          BY <1>1, <2>2, <4>1, Constants
        <4> QED
          BY <4>1, <4>2
      <3> QED
        BY <3>4, <3>5, <3>6 DEF IdleInv
    <2>6. past'.checks[c] = q /\ clock' = clock + 1 /\ seen' = seen
      BY <1>1
    <2>7. TwoBursts(q)
      BY <2>1 DEF ClientInv
    <2> HIDE DEF q
    <2> QED
      BY <2>3, <2>4, <2>5, <2>6, <2>7, Zenon DEF ClientInv
  <1>3. \A t \in Threads : Refusal(req[t])'
    BY <1>1 DEF LimiterInv, Refusal
  <1> QED
    BY <1>2, <1>3 DEF LimiterInv

\* A check more takes nothing away.
LEMMA MoreBetween ==
    ASSUME NEW q \in Seq(Nat), NEW now \in Nat, NEW p, p = Append(q, now), NEW a \in Nat, NEW b \in Nat
    PROVE  /\ Cardinality(Between(q, a, b)) <= Cardinality(Between(p, a, b))
           /\ Cardinality(Between(q, a, b)) \in Nat /\ Cardinality(Between(p, a, b)) \in Nat
  <1>1. p \in Seq(Nat) /\ DOMAIN q \subseteq DOMAIN p /\ \A n \in DOMAIN q : p[n] = q[n]
    BY Shift
  <1>2. Between(q, a, b) \subseteq Between(p, a, b) /\ Between(p, a, b) \subseteq DOMAIN p
    BY <1>1 DEF Between
  <1> QED
    BY <1>1, <1>2, PartOf

\* What an attempt does to the windows of the others: those that are over are swept.
LEMMA OthersSwept ==
    ASSUME AccessInv, LimiterInv, NEW c \in Clients, seen' = Allow(c), clock' = clock,
           NEW k \in Clients, k # c, past'.checks[k] = past.checks[k]
    PROVE  ClientInv(k)'
  <1>1. /\ DOMAIN seen' = {j \in DOMAIN seen : clock <= seen[j].until} \union {c}
        /\ \A j \in DOMAIN seen' : j # c => seen'[j] = seen[j]
    BY AllowType DEF AccessInv
  <1>2. clock \in Nat /\ past.checks[k] \in Seq(Nat) /\ ClientInv(k)
    BY AccessAssumption DEF AccessInv, StoresOK, LimiterInv
  <1>3. ASSUME k \in DOMAIN seen'
        PROVE  WindowInv(past.checks[k], seen'[k], clock)
    BY <1>1, <1>2, <1>3 DEF ClientInv
  <1>4. ASSUME k \notin DOMAIN seen'
        PROVE  IdleInv(past.checks[k], clock)
    <2>1. CASE k \notin DOMAIN seen
      BY <1>2, <2>1 DEF ClientInv
    <2>2. CASE k \in DOMAIN seen
      <3>1. seen[k] \in [count : Nat, until : Nat] /\ ~(clock <= seen[k].until)
        BY <1>1, <1>4, <2>2 DEF AccessInv, StoresOK
      <3>2. seen[k].until < clock
        BY <1>2, <3>1
      <3>3. WindowInv(past.checks[k], seen[k], clock)
        BY <1>2, <2>2 DEF ClientInv
      <3> QED
        BY <1>2, <3>1, <3>2, <3>3, Lapsed
    <2> QED
      BY <2>1, <2>2
  <1>5. /\ \A n \in DOMAIN past.checks[k] : past.checks[k][n] <= clock
        /\ TwoBursts(past.checks[k])
    BY <1>2 DEF ClientInv
  <1> QED
    BY <1>3, <1>4, <1>5, Zenon DEF ClientInv

\* And to the client's own: an attempt that is checked.
LEMMA CheckCounted ==
    ASSUME AccessInv, LimiterInv, NEW c \in Clients, seen' = Allow(c), clock' = clock,
           seen'[c].count <= Burst, past'.checks[c] = Append(past.checks[c], clock)
    PROVE  ClientInv(c)'
  <1> DEFINE q == past.checks[c]
             p == Append(q, clock)
             v == seen[c]
             w == seen'[c]
  <1>1. clock \in Nat /\ clock >= 1 /\ q \in Seq(Nat) /\ ClientInv(c)
    BY AccessAssumption DEF AccessInv, StoresOK, LimiterInv
  <1>2. /\ c \in DOMAIN seen'
        /\ c \in DOMAIN seen /\ clock <= v.until => w.until = v.until /\ w.count = v.count + 1
        /\ ~(c \in DOMAIN seen /\ clock <= v.until) => w.until = clock + LoginWindow /\ w.count = 1
        /\ w \in [count : Nat, until : Nat]
    BY AllowType DEF AccessInv
  <1>3. WindowInv(p, w, clock)
    <2>1. CASE c \in DOMAIN seen /\ clock <= v.until
      <3>1. v \in [count : Nat, until : Nat] /\ WindowInv(q, v, clock)
        BY <1>1, <2>1 DEF AccessInv, StoresOK, ClientInv
      <3>2. v.count < Burst
        BY <1>2, <2>1, <3>1, Constants
      <3>3. w.until = v.until /\ w.count = v.count + 1
        BY <1>2, <2>1
      <3> HIDE DEF q, v, w
      <3> QED
        BY <1>1, <2>1, <3>1, <3>2, <3>3, Counted
    <2>2. CASE ~(c \in DOMAIN seen /\ clock <= v.until)
      <3>1. IdleInv(q, clock)
        <4>1. CASE c \notin DOMAIN seen
          BY <1>1, <4>1 DEF ClientInv
        <4>2. CASE c \in DOMAIN seen
          <5>1. v \in [count : Nat, until : Nat] /\ WindowInv(q, v, clock)
            BY <1>1, <4>2 DEF AccessInv, StoresOK, ClientInv
          <5>2. v.until < clock
            BY <1>1, <2>2, <4>2, <5>1
          <5> HIDE DEF q, v
          <5> QED
            BY <1>1, <5>1, <5>2, Lapsed
        <4> QED
          BY <4>1, <4>2
      <3>2. w.until = clock + LoginWindow /\ w.count = 1
        BY <1>2, <2>2
      <3> HIDE DEF q, v, w
      <3> QED
        BY <1>1, <3>1, <3>2, Reopened
    <2> QED
      BY <2>1, <2>2
  <1>4. TwoBursts(p)
    <2>1. TwoBursts(q)
      BY <1>1 DEF ClientInv
    <2> HIDE DEF q, w
    <2> QED
      BY <1>1, <1>2, <1>3, <2>1, StillTwoBursts
  <1>5. \A n \in DOMAIN p : p[n] <= clock
    <2>1. \A n \in DOMAIN q : q[n] <= clock
      BY <1>1 DEF ClientInv
    <2> HIDE DEF q
    <2> QED
      BY <1>1, <2>1, Shift
  <1>6. past'.checks[c] = p
    OBVIOUS
  <1> HIDE DEF p
  <1> QED
    BY <1>2, <1>3, <1>4, <1>5, <1>6, Zenon DEF ClientInv

\* And one that is refused, for which there was reason.
LEMMA RefusalCounted ==
    ASSUME AccessInv, LimiterInv, NEW c \in Clients, seen' = Allow(c), clock' = clock,
           seen'[c].count > Burst, past'.checks[c] = past.checks[c]
    PROVE  /\ ClientInv(c)'
           /\ Cardinality(Between(past.checks[c],
                                  IF clock > LoginWindow THEN clock - LoginWindow ELSE 1, clock)) >= Burst
  <1> DEFINE q == past.checks[c]
             v == seen[c]
             w == seen'[c]
             from == IF clock > LoginWindow THEN clock - LoginWindow ELSE 1
  <1>1. clock \in Nat /\ clock >= 1 /\ q \in Seq(Nat) /\ ClientInv(c)
    BY AccessAssumption DEF AccessInv, StoresOK, LimiterInv
  <1>2. /\ c \in DOMAIN seen'
        /\ c \in DOMAIN seen /\ clock <= v.until => w.until = v.until /\ w.count = v.count + 1
        /\ ~(c \in DOMAIN seen /\ clock <= v.until) => w.until = clock + LoginWindow /\ w.count = 1
        /\ w \in [count : Nat, until : Nat]
    BY AllowType DEF AccessInv
  <1>3. c \in DOMAIN seen /\ clock <= v.until
    BY <1>2, Constants
  <1>4. v \in [count : Nat, until : Nat] /\ WindowInv(q, v, clock)
    BY <1>1, <1>3 DEF AccessInv, StoresOK, ClientInv
  <1>5. w.until = v.until /\ w.count = v.count + 1
    BY <1>2, <1>3
  <1>6. v.count >= Burst
    BY <1>4, <1>5, Constants
  <1>7. WindowInv(q, w, clock)
    <2> HIDE DEF q, v, w
    <2> QED
      BY <1>1, <1>4, <1>5, <1>6, Overrun
  <1>8. \A n \in DOMAIN q : q[n] <= clock /\ q[n] \in Nat
    BY <1>1 DEF ClientInv
  <1>9. TwoBursts(q) /\ past'.checks[c] = q
    BY <1>1 DEF ClientInv
  <1>10. ClientInv(c)'
    <2> HIDE DEF q
    <2> QED
      BY <1>2, <1>7, <1>8, <1>9, Zenon DEF ClientInv
  <1>11. Since(q, v.until) \subseteq Between(q, from, clock) /\ Between(q, from, clock) \subseteq DOMAIN q
    <2>1. v.until \in Nat /\ v.until > LoginWindow /\ clock <= v.until
      BY <1>3, <1>4 DEF WindowInv
    <2> HIDE DEF q, v
    <2> QED
      BY <1>1, <1>8, <2>1, Constants DEF Since, Between
  <1>12. Cardinality(Since(q, v.until)) = Burst
    BY <1>4, <1>6, Constants DEF WindowInv
  <1> HIDE DEF q, v
  <1>13. /\ Cardinality(Since(q, v.until)) <= Cardinality(Between(q, from, clock))
         /\ Cardinality(Between(q, from, clock)) \in Nat
    BY <1>1, <1>11, PartOf
  <1>14. Cardinality(Between(q, from, clock)) >= Burst
    BY <1>12, <1>13, Constants
  <1> QED
    BY <1>10, <1>14 DEF q

LEMMA LimitLoginCounts ==
    ASSUME AccessInv, AccessInv', LimiterInv, NEW t \in Threads, LimitLogin(t)
    PROVE  LimiterInv'
  <1> DEFINE r == req[t]
  <1>0. PICK c \in Clients : c = r.client
    BY LoginBefore DEF LimitLogin
  <1>1. /\ clock \in Nat /\ clock' = clock /\ seen' = Allow(c)
        /\ c \in Clients /\ r.kind = "login" /\ req \in [Threads -> Request]
        /\ past.checks \in [Clients -> Seq(Nat)]
    BY <1>0, LoginBefore DEF LimitLogin, AccessInv, StoresOK, RequestsInv
  <1>2. CASE /\ seen'[c].count <= Burst
             /\ req' = [req EXCEPT ![t].pc = "password"]
             /\ past' = [past EXCEPT !.checks[c] = Append(past.checks[c], clock)]
    <2>1. /\ past'.checks[c] = Append(past.checks[c], clock)
          /\ \A k \in Clients : k # c => past'.checks[k] = past.checks[k]
      <3>1. past \in [requests : [Kinds -> Nat], out : SUBSET Nat, checks : [Clients -> Seq(Nat)]]
        BY DEF AccessInv, StoresOK
      <3>2. past'.checks = [past.checks EXCEPT ![c] = Append(past.checks[c], clock)]
        BY <1>2, <3>1
      <3> QED
        BY <1>1, <3>2
    <2>2. \A k \in Clients : ClientInv(k)'
      <3>1. ClientInv(c)'
        BY <1>1, <1>2, <2>1, CheckCounted
      <3>2. ASSUME NEW k \in Clients, k # c
            PROVE  ClientInv(k)'
        BY <1>1, <2>1, <3>2, OthersSwept
      <3> QED
        BY <3>1, <3>2
    <2>3. ASSUME NEW u \in Threads
          PROVE  Refusal(req[u])'
      <3>0. RequestInv(req'[u], clock', issued', past'.out) /\ req'[u] \in Request
        BY <2>3 DEF AccessInv, RequestsInv
      <3>1. CASE u = t
        <4>1. req'[u].pc = "password"
          BY <1>1, <1>2, <3>1 DEF Request
        <4>2. Quiet(req'[u])
          BY <3>0, <4>1, UnderWay
        <4> QED
          BY <4>2 DEF Quiet, Refusal
      <3>2. CASE u # t
        <4>1. req'[u] = req[u] /\ req[u] \in Request
          BY <1>1, <1>2, <3>2
        <4>2. SUFFICES ASSUME req[u].kind = "login", req[u].read # 0
                       PROVE  Refusal(req[u])'
          BY <4>1 DEF Refusal
        <4> DEFINE d == req[u].client
                   to == req[u].read
                   from == IF to > LoginWindow THEN to - LoginWindow ELSE 1
        <4>3. d \in Clients
          BY <3>0, <4>1, <4>2 DEF RequestInv, Refers
        <4>4. to \in Nat /\ from \in Nat
          <5>1. to \in Nat
            BY <4>1 DEF Request
          <5> HIDE DEF to
          <5> QED
            BY <5>1, Constants
        <4>5. Cardinality(Between(past.checks[d], from, to)) >= Burst
          BY <4>2 DEF LimiterInv, Refusal
        <4> HIDE DEF from
        <4>6. Cardinality(Between(past'.checks[d], from, to)) >= Burst
          <5>1. CASE d = c
            <6>1. past'.checks[d] = Append(past.checks[d], clock) /\ past.checks[d] \in Seq(Nat)
              BY <1>1, <2>1, <4>3, <5>1
            <6>2. /\ Cardinality(Between(past.checks[d], from, to)) <= Cardinality(Between(past'.checks[d], from, to))
                  /\ Cardinality(Between(past.checks[d], from, to)) \in Nat
                  /\ Cardinality(Between(past'.checks[d], from, to)) \in Nat
              BY <1>1, <4>4, <6>1, MoreBetween
            <6> QED
              BY <4>5, <6>2, Constants
          <5>2. CASE d # c
            BY <2>1, <4>3, <4>5, <5>2
          <5> QED
            BY <5>1, <5>2
        <4> QED
          BY <4>1, <4>6 DEF Refusal, from
      <3> QED
        BY <3>1, <3>2
    <2> QED
      BY <2>2, <2>3 DEF LimiterInv
  <1>3. CASE /\ seen'[c].count > Burst
             /\ req' = [req EXCEPT ![t] = [Audited(r, "", FALSE) EXCEPT !.read = clock]]
             /\ UNCHANGED past
    <2>1. /\ ClientInv(c)'
          /\ Cardinality(Between(past.checks[c],
                                 IF clock > LoginWindow THEN clock - LoginWindow ELSE 1, clock)) >= Burst
      BY <1>1, <1>3, RefusalCounted
    <2>2. \A k \in Clients : k # c => ClientInv(k)'
      BY <1>1, <1>3, OthersSwept
    <2>3. ASSUME NEW u \in Threads
          PROVE  Refusal(req[u])'
      <3>1. CASE u = t
        <4> DEFINE x == [Audited(r, "", FALSE) EXCEPT !.read = clock]
        <4>1. x.client = c /\ x.read = clock
          BY <1>0, Zenon DEF Audited, Done, NoRequest
        <4>2. req'[u] = x
          BY <1>1, <1>3, <3>1
        <4> HIDE DEF x
        <4> QED
          BY <1>3, <2>1, <4>1, <4>2 DEF Refusal
      <3>2. CASE u # t
        <4>1. req'[u] = req[u]
          BY <1>1, <1>3, <3>2
        <4> QED
          BY <1>3, <4>1 DEF LimiterInv, Refusal
      <3> QED
        BY <3>1, <3>2
    <2> QED
      BY <2>1, <2>2, <2>3 DEF LimiterInv
  <1> QED
    BY <1>0, <1>2, <1>3 DEF LimitLogin

LEMMA LimiterInit ==
    ASSUME Init, AccessInv
    PROVE  LimiterInv
  <1>1. seen = <<>> /\ DOMAIN seen = {}
    BY EmptyTuple, Zenon DEF Init
  <1>2. ASSUME NEW c \in Clients
        PROVE  ClientInv(c)
    <2>1. past.checks[c] = <<>>
      BY Zenon DEF Init
    <2> DEFINE q == past.checks[c]
    <2>2. DOMAIN q = {}
      BY <2>1, EmptyTuple, Zenon
    <2> HIDE DEF q
    <2>3. Since(q, clock) = {} /\ \A a : Between(q, a, a + LoginWindow) = {}
      BY <2>2, Zenon DEF Since, Between
    <2>4. Cardinality({}) = 0
      BY FS_EmptySet
    <2>5. 0 <= Burst /\ 0 < Burst /\ 0 <= 2 * Burst - 1
      BY Constants
    <2>6. TwoBursts(q)
      BY <2>3, <2>4, <2>5, Zenon DEF TwoBursts
    <2>7. IdleInv(q, clock)
      BY <2>2, <2>3, <2>4, <2>5, Zenon DEF IdleInv
    <2> QED
      BY <1>1, <2>2, <2>6, <2>7, Zenon DEF ClientInv, q
  <1>3. ASSUME NEW t \in Threads
        PROVE  Refusal(req[t])
    <2>1. req[t] = NoRequest
      BY DEF Init
    <2>2. NoRequest.kind = "view"
      BY DEF NoRequest
    <2> HIDE DEF NoRequest
    <2> QED
      BY <2>1, <2>2 DEF Refusal
  <1> QED
    BY <1>2, <1>3 DEF LimiterInv

LEMMA LimiterNext ==
    ASSUME AccessInv, AccessInv', LimiterInv, [Next]_vars
    PROVE  LimiterInv'
  <1>1. CASE UNCHANGED vars
    BY <1>1 DEF vars, LimiterInv, ClientInv, Refusal
  <1>2. CASE Tick
    BY <1>2, TickCounts
  <1>3. CASE \E c \in Clients : LoginForm(c)
    BY <1>3, LoginFormQuiet
  <1>4. ASSUME NEW t \in Threads,
               \/ Arrive(t) \/ ReadExpiry(t) \/ ReadRevoked(t) \/ Gate(t) \/ Policy(t) \/ CheckCSRF(t)
               \/ Apply(t) \/ Audit(t) \/ Logout(t) \/ LoginSubmit(t) \/ LimitLogin(t) \/ Password(t)
        PROVE  LimiterInv'
    BY <1>4, ArriveQuiet, QuietSteps, LimitLoginCounts
  <1> QED
    BY <1>1, <1>2, <1>3, <1>4, Zenon DEF Next

LEMMA LimiterInvariant == Spec => []LimiterInv
  <1>1. Init /\ AccessInv => LimiterInv
    BY LimiterInit
  <1>2. AccessInv /\ AccessInv' /\ LimiterInv /\ [Next]_vars => LimiterInv'
    BY LimiterNext
  <1> QED
    BY <1>1, <1>2, AccessInvariant, PTL DEF Spec

\* attemptLimiter.allow: in a stretch of loginWindow a client has fewer than two bursts of
\* passwords checked, and at most one if it had none checked in the loginWindow before,
\* whatever other clients do to the shared table.
THEOREM GuessesBoundedAlways == Spec => []GuessesBounded
  <1>1. AccessInv /\ LimiterInv => GuessesBounded
    <2> SUFFICES ASSUME AccessInv, LimiterInv, NEW c \in Clients, NEW n \in 1..MaxClock
                 PROVE  ChecksIn(c, n, n + LoginWindow) <=
                            (IF ChecksIn(c, IF n > LoginWindow THEN n - LoginWindow ELSE 0, n - 1) = 0
                             THEN Burst ELSE 2 * Burst - 1)
      BY DEF GuessesBounded
    <2> DEFINE q == past.checks[c]
               from == IF n > LoginWindow THEN n - LoginWindow ELSE 0
    <2>1. n \in Nat /\ n >= 1 /\ TwoBursts(q) /\ q \in Seq(Nat)
      BY AccessAssumption DEF LimiterInv, ClientInv, AccessInv, StoresOK
    <2>2. /\ ChecksIn(c, n, n + LoginWindow) = Cardinality(Between(q, n, n + LoginWindow))
          /\ ChecksIn(c, from, n - 1) = Cardinality(Between(q, from, n - 1))
      BY DEF ChecksIn, Between
    <2> HIDE DEF q
    <2>3. Prior(q, n) \subseteq Between(q, from, n - 1)
      <3>1. \A k \in DOMAIN q : q[k] \in Nat
        BY <2>1
      <3> QED
        BY <2>1, <3>1, Constants DEF Prior, Between
    <2>4. Between(q, from, n - 1) \subseteq DOMAIN q
      BY DEF Between
    <2>5. IsFiniteSet(Between(q, from, n - 1))
      BY <2>1, <2>4, PartOf
    <2>6. Cardinality(Between(q, from, n - 1)) = 0 => Prior(q, n) = {}
      BY <2>3, <2>5, FS_EmptySet
    <2> HIDE DEF from
    <2>7. /\ Cardinality(Between(q, n, n + LoginWindow)) <= 2 * Burst - 1
          /\ Prior(q, n) = {} => Cardinality(Between(q, n, n + LoginWindow)) <= Burst
      BY <2>1 DEF TwoBursts
    <2>8. CASE ChecksIn(c, from, n - 1) = 0
      BY <2>2, <2>6, <2>7, <2>8 DEF from
    <2>9. CASE ChecksIn(c, from, n - 1) # 0
      BY <2>2, <2>7, <2>9 DEF from
    <2> QED
      BY <2>8, <2>9
  <1> QED
    BY <1>1, AccessInvariant, LimiterInvariant, PTL

\* attemptLimiter.allow and its sweep: a client is refused only after a whole burst of its
\* own passwords was checked within the last loginWindow; refusals do not extend it.
THEOREM RefusalsJustifiedAlways == Spec => []RefusalsJustified
  <1>1. LimiterInv => RefusalsJustified
    BY DEF LimiterInv, Refusal, RefusalsJustified, ChecksIn, Between
  <1> QED
    BY <1>1, LimiterInvariant, PTL
=============================================================================
