------------------------------ MODULE Listing ------------------------------
(***************************************************************************)
(* A reader walks through a job list, page by page, while the history      *)
(* under it changes: list, filterFrom, filterQuery and pageURL of the web  *)
(* handler, the jobs and failures pages, and the JSON listing.             *)
(*                                                                         *)
(* A request is four steps, and other processes act between any two: it is *)
(* parsed, the matching rows are counted, one page of them is read, and    *)
(* the page is rendered with its links.  The clock counts microseconds,    *)
(* the unit the databases keep and both forms of before carry, so several  *)
(* events may fall on one reading of it.                                   *)
(***************************************************************************)
EXTENDS Naturals, Sequences, FiniteSets

CONSTANTS Jobs,         \* the jobs that may come up
          PerPage,      \* rows on a page
          MaxClock      \* bound on the clock

ASSUME ListingAssumption ==
    /\ IsFiniteSet(Jobs) /\ Jobs # {}
    /\ PerPage \in Nat \ {0} /\ MaxClock \in Nat \ {0}

VARIABLES clock,
          buffered,     \* enqueued, not flushed yet: job -> enqueue time
          stored,       \* the rows by row number, in the order they were inserted:
                        \* [job, at, state], a deleted one with state "gone"
          req,          \* the request under way, or the page it ended in
          walk          \* what this walk has shown and what moved since it began

vars == <<clock, buffered, stored, req, walk>>

FailureStates == {"failed"}

\* No page: what a reader starts from.
NoRequest ==
    [pc |-> "idle", api |-> FALSE, path |-> "jobs", states |-> {}, pattern |-> FALSE, view |-> "groups",
     page |-> 1, before |-> 0, offset |-> 0, total |-> 0, pages |-> 1, shown |-> {},
     link |-> 0, slipIn |-> 0, slipOut |-> 0]

NoWalk == [stage |-> "ready", seen |-> {}, repeats |-> 0, steady |-> {}, in |-> 0, out |-> 0, clamps |-> 0,
           opened |-> 0]

Init ==
    /\ clock = 1
    /\ buffered = <<>>
    /\ stored = <<>>
    /\ req = NoRequest
    /\ walk = NoWalk

----------------------------------------------------------------------------
(* The listing. *)

\* A row is in the window of a request: of a wanted state, not enqueued after before.
Matches(row, r) ==
    /\ row.state \in (IF r.states = {} THEN {"active", "completed", "failed"} ELSE r.states)
    /\ r.before = 0 \/ row.at <= r.before

Matching(rows, r) == {i \in DOMAIN rows : Matches(rows[i], r)}

\* ORDER BY: row j comes before row i, newest first and the latest insert first among equals.
Precedes(rows, j, i) == rows[j].at > rows[i].at \/ (rows[j].at = rows[i].at /\ j > i)

\* The place of row i in a window, from 1.
Place(rows, window, i) == Cardinality({j \in window : j = i \/ Precedes(rows, j, i)})

\* Mutant: the query has an offset and no limit.
PageUnlimited(rows, r) ==
    LET window == Matching(rows, r) IN {i \in window : Place(rows, window, i) > r.offset}

\* The rows of the page a request asks for: LIMIT and OFFSET keep those of its places.
Page(rows, r) ==
    LET window == Matching(rows, r)
    IN {i \in window : Place(rows, window, i) \in (r.offset + 1)..(r.offset + PerPage)}

\* Mutant: the window of the link is ignored.
WindowLive(link) == IF link.api \/ link.page > 1 THEN clock ELSE 0

\* The window as list settles it: the link's, or now for a page deeper than the
\* first; the JSON listing starts from now on its first page too.
Window(link) ==
    IF link.before # 0 THEN link.before
    ELSE IF link.api \/ link.page > 1 THEN clock ELSE 0

\* A request for a link is parsed.  The failures page without a family shows groups
\* unless the link says otherwise, and so has no pages to walk.
Parse(link) ==
    req' = [link EXCEPT
        !.pc = IF link.path = "failures" /\ ~link.pattern /\ link.view # "list"
               THEN "groups" ELSE "parsed",
        !.before = Window(link), !.offset = (link.page - 1) * PerPage, !.shown = {},
        !.link = 0, !.slipIn = 0, !.slipOut = 0]

\* A reader opens the jobs page: all of them or those of one state, on page one or, by
\* hand, on page two.
OpenJobs ==
    /\ req.pc = "idle"
    /\ \E link \in {[states |-> {}, page |-> 1], [states |-> {}, page |-> 2],
                    [states |-> {"active"}, page |-> 1]} :
            Parse([NoRequest EXCEPT !.states = link.states, !.page = link.page])
    /\ UNCHANGED <<clock, buffered, stored, walk>>

\* The failures page: grouped, as a flat list, or of one family.
OpenFailures ==
    /\ req.pc = "idle"
    /\ \E family \in BOOLEAN, view \in {"groups", "list"} :
            Parse([NoRequest EXCEPT !.path = "failures", !.states = FailureStates,
                                    !.pattern = family, !.view = view])
    /\ UNCHANGED <<clock, buffered, stored, walk>>

\* The first page of the JSON listing.
OpenJSON ==
    /\ req.pc = "idle"
    /\ Parse([NoRequest EXCEPT !.api = TRUE])
    /\ UNCHANGED <<clock, buffered, stored, walk>>

\* The number of pages a count makes.
Pages(total) == IF total = 0 THEN 1 ELSE (total + PerPage - 1) \div PerPage

\* Mutant: the page number is cut down and the offset left as it was.
CountOnly ==
    /\ req.pc = "parsed"
    /\ LET total == Cardinality(Matching(stored, req))
           pages == Pages(total)
           page == IF req.page > pages THEN pages ELSE req.page
       IN /\ req' = [req EXCEPT !.pc = "counted", !.total = total, !.pages = pages, !.page = page]
          /\ walk' = [walk EXCEPT !.clamps = IF page < req.page THEN @ + 1 ELSE @]
    /\ UNCHANGED <<clock, buffered, stored>>

\* CountJobs, and the page number cut down to the last page.
Count ==
    /\ req.pc = "parsed"
    /\ LET total == Cardinality(Matching(stored, req))
           pages == Pages(total)
           page == IF req.page > pages THEN pages ELSE req.page
       IN /\ req' = [req EXCEPT !.pc = "counted", !.total = total, !.pages = pages,
                                !.page = page, !.offset = (page - 1) * PerPage]
          /\ walk' = [walk EXCEPT !.clamps = IF page < req.page THEN @ + 1 ELSE @]
    /\ UNCHANGED <<clock, buffered, stored>>

\* Jobs reads the page.  A walk begins with the rows from its first page on.
Fetch ==
    /\ req.pc = "counted"
    /\ LET shown == Page(stored, req)
           window == Matching(stored, req)
           rest == {i \in window : Place(stored, window, i) > req.offset}
       IN /\ req' = [req EXCEPT !.pc = "fetched", !.shown = shown]
          /\ walk' = IF walk.stage = "walking"
                     THEN [walk EXCEPT !.seen = @ \union shown,
                                       !.repeats = @ + Cardinality(shown \intersect walk.seen)]
                     ELSE [walk EXCEPT !.stage = "walking", !.seen = shown, !.steady = rest, !.clamps = 0]
    /\ UNCHANGED <<clock, buffered, stored>>

HasPrev(r) == r.page > 1

\* Mutant: the last page is never offered.
HasNextShort(r) == r.page + 1 < r.pages

HasNext(r) == r.page < r.pages

\* Mutant: the window is not carried, every link takes the time it is made.
LinkNow(r) == clock

\* pageURL: the window a link to another page carries, once there is one to page one too.
\* The JSON listing echoes it.
LinkBefore(r) == IF r.before # 0 THEN r.before ELSE clock

\* The page is rendered, with the links it has.
Render ==
    /\ req.pc = "fetched"
    /\ req' = [req EXCEPT !.pc = "rendered",
                          !.link = IF HasPrev(req) \/ HasNext(req) THEN LinkBefore(req) ELSE 0]
    /\ walk' = [walk EXCEPT !.opened = IF @ = 0 THEN clock ELSE @]
    /\ UNCHANGED <<clock, buffered, stored>>

\* The request behind a link: filterQuery keeps the queue, the family, the search, the
\* attribute, one state and the window.  It does not keep the view: from the flat list
\* of failures the link leads to the groups.
PageURL(r, page) == [r EXCEPT !.page = page, !.before = r.link, !.view = "groups"]

\* The reader follows the link to the next page.
FollowNext ==
    /\ req.pc = "rendered" /\ HasNext(req)
    /\ Parse(PageURL(req, req.page + 1))
    /\ UNCHANGED <<clock, buffered, stored, walk>>

\* The reader goes back a page and walks on from there.
FollowPrev ==
    /\ req.pc = "rendered" /\ HasPrev(req)
    /\ Parse(PageURL(req, req.page - 1))
    /\ walk' = [NoWalk EXCEPT !.opened = walk.opened]
    /\ UNCHANGED <<clock, buffered, stored>>

----------------------------------------------------------------------------
(* What happens to the history meanwhile. *)

\* The list under way: of a rendered page, the one its links lead through.
List == IF req.pc = "rendered" /\ req.link # 0 THEN [req EXCEPT !.before = req.link] ELSE req

\* Rows that enter and leave the list under way, which may lie inside its window.
Moved(before, after) ==
    LET entered == Matching(after, List) \ Matching(before, List)
        left == Matching(before, List) \ Matching(after, List)
        in == Cardinality(entered)
        out == Cardinality(left)
    IN /\ walk' = IF walk.stage = "walking"
                  THEN [walk EXCEPT !.in = @ + in, !.out = @ + out, !.steady = @ \ left]
                  ELSE walk
       /\ req' = IF req.pc = "counted" THEN [req EXCEPT !.slipIn = @ + in, !.slipOut = @ + out] ELSE req

Enqueue(j) ==
    /\ j \notin DOMAIN buffered /\ \A i \in DOMAIN stored : stored[i].job # j
    /\ buffered' = [k \in DOMAIN buffered \union {j} |-> IF k = j THEN clock ELSE buffered[k]]
    /\ UNCHANGED <<clock, stored, req, walk>>

\* A sink writes the record, maybe long after the job was enqueued.
Flush(j) ==
    /\ j \in DOMAIN buffered
    /\ stored' = Append(stored, [job |-> j, at |-> buffered[j], state |-> "active"])
    /\ buffered' = [k \in DOMAIN buffered \ {j} |-> buffered[k]]
    /\ Moved(stored, stored')
    /\ UNCHANGED clock

\* A job ends, which keeps its place by enqueue time.
End(i) ==
    /\ stored[i].state = "active"
    /\ \E s \in {"completed", "failed"} : stored' = [stored EXCEPT ![i].state = s]
    /\ Moved(stored, stored')
    /\ UNCHANGED <<clock, buffered>>

\* Retention deletes an ended row.
Prune(i) ==
    /\ stored[i].state \in {"completed", "failed"}
    /\ stored' = [stored EXCEPT ![i].state = "gone"]
    /\ Moved(stored, stored')
    /\ UNCHANGED <<clock, buffered>>

Tick ==
    /\ clock < MaxClock
    /\ clock' = clock + 1
    /\ UNCHANGED <<buffered, stored, req, walk>>

Next ==
    \/ OpenJobs \/ OpenFailures \/ OpenJSON \/ Count \/ Fetch \/ Render \/ FollowNext \/ FollowPrev
    \/ \E j \in Jobs : Enqueue(j) \/ Flush(j)
    \/ \E i \in DOMAIN stored : End(i) \/ Prune(i)
    \/ Tick

Spec == Init /\ [][Next]_vars

----------------------------------------------------------------------------
(* Properties. *)

\* A request and a walk are of the right shape, and the clock is past every row.
TypeOK ==
    /\ clock \in 1..MaxClock
    /\ req.pc \in {"idle", "parsed", "counted", "fetched", "rendered", "groups"}
    /\ req.page \in 1..(Cardinality(Jobs) + 1) /\ req.before \in 0..clock /\ req.link \in 0..clock
    /\ req.shown \subseteq DOMAIN stored /\ Cardinality(req.shown) <= PerPage
    /\ walk.steady \union walk.seen \subseteq DOMAIN stored
    /\ \A i \in DOMAIN stored : stored[i].job \in Jobs /\ stored[i].at \in 1..clock

\* "A stale page number from a shrinking list should land on the last page, not on an
\* empty one": a page is as full as the count promised, less what left the list
\* between the count and the read.
PagesAreFull ==
    req.pc \in {"fetched", "rendered"} =>
        LET promised == req.total - (req.page - 1) * PerPage IN
        Cardinality(req.shown) + req.slipOut >= (IF promised < PerPage THEN promised ELSE PerPage)

\* A walk repeats a row only for a row that entered its window after it began, by a
\* late flush or a change of state, or where the list shrank under a page number.
RepeatsAreEntries == walk.repeats <= walk.in + PerPage * walk.clamps

\* The rows that were in the list all along and that a finished walk has not shown.
Missed == walk.steady \ walk.seen

\* At the end of a walk, no row that was in the list all along is missing from its
\* pages, except one for each row that left the list meanwhile, or that entered it
\* between the count and the read of the last page.
MissesAreLeaves ==
    req.pc = "rendered" /\ ~HasNext(req) => Cardinality(Missed) <= walk.out + req.slipIn

\* "Deeper pages read a frozen window": once the first page a reader opens is rendered,
\* the list that a page deeper than the first is cut from, reached by whatever links,
\* forward and back, holds no job that was enqueued later.  Nothing is said of page one,
\* which the same comment calls live: a link back to it carries the window like any other.
WindowIsFrozen ==
    walk.opened # 0 /\ req.page > 1 => \A i \in Matching(stored, req) : stored[i].at <= walk.opened
============================================================================
