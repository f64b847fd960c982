----------------------------- MODULE StoreQuery -----------------------------
(***************************************************************************)
(* What the three drivers share: the filter a reader passes, the limits of *)
(* a read, the failure states and the name pattern.  Text is abstracted:   *)
(* a name is known by its segments, an attribute string by the map it      *)
(* encodes, and whether a search term occurs in a text, or matches it as   *)
(* an SQL pattern, by relations: each database has its own.                *)
(***************************************************************************)
EXTENDS JobRecord, FiniteSets, Sequences

CONSTANTS
    KeyOrder,       \* the row keys, in lexical order
    KeyFor,         \* the epoch, queue and id a key is made of
    Segments,       \* for a name: its segments, each [text, digits, hex, len]
    AttrMap,        \* for an attribute string: the map it encodes
    PathKeys,       \* the attribute keys that read as more than one step of a JSON path
    Occurs,         \* the <<text, term>> pairs where the term occurs, in any case of letters
    Like, ILike,    \* those that match as SQLite's LIKE and Postgres's ILIKE '%term%'
    Nanos,          \* clock units in a microsecond
    MaxSpan,        \* the longest duration, which is how long ago the zero time is
    MaxBuckets,     \* the most buckets a timeline may have
    JobLimits, GroupLimits, AttrLimits    \* [max, default] rows of the three listings

ASSUME QueryAssumption ==
    /\ Nanos \in Nat \ {0}
    /\ KeyOrder \in Seq(DOMAIN KeyFor) /\ {KeyOrder[i] : i \in DOMAIN KeyOrder} = DOMAIN KeyFor
    /\ JobLimits.default \in Nat
    /\ \A n \in DOMAIN Segments : n # "" => DOMAIN Segments[n] # {}

\* The table f with v under the key k, and without the rows of some keys.
Put(f, k, v) == [i \in DOMAIN f \union {k} |-> IF i = k THEN v ELSE f[i]]
Delete(f, keys) == [i \in DOMAIN f \ keys |-> f[i]]

\* maskSegment: a digit, or a hex run of eight or more, reads as an identifier.
MaskSegment(segment) ==
    IF segment.len > 0 /\ (segment.digits > 0 \/ (segment.hex = segment.len /\ segment.len >= 8))
    THEN "*" ELSE segment.text

\* NormalizeName masks each segment and keeps the separators; <<>> is blank.
NormalizeName(name) ==
    IF name = "" THEN <<>>
    ELSE [i \in DOMAIN Segments[name] |-> MaskSegment(Segments[name][i])]

\* The terminal states worth reviewing.
FailureStates == {"failed", "cancelled", "discarded", "abandoned", "interrupted"}

\* The filter that constrains nothing.
NoFilter == [queue |-> "", name |-> "", pattern |-> <<>>, states |-> {}, terms |-> {},
             before |-> 0, attrKey |-> "", attrValue |-> "", limit |-> 0, offset |-> 0]

\* The limit a listing applies: out of range asks for the default.
Clip(limit, bounds) == IF limit <= 0 \/ limit > bounds.max THEN bounds.default ELSE limit

\* The rows of a sorted listing that LIMIT and OFFSET keep.
Window(sorted, limit, offset) ==
    SubSeq(sorted, offset + 1, IF offset + limit < Len(sorted) THEN offset + limit ELSE Len(sorted))

\* The members of a finite set, sorted by a relation that is total on it.
InOrder(S, precedes) ==
    [i \in 1..Cardinality(S) |->
        CHOOSE k \in S : Cardinality({j \in S : <<j, k>> \in precedes}) = i - 1]

\* How long ago t was: time.Since saturates for the zero time.
SinceWhen(t, now) == IF t = 0 THEN MaxSpan ELSE now - t

\* An attribute map carries a key, with the value asked for if one was.
Carries(attrs, filter) ==
    /\ filter.attrKey \in DOMAIN AttrMap[attrs]
    /\ filter.attrValue \in {"", AttrMap[attrs][filter.attrKey]}
============================================================================
