----------------------------- MODULE MCDrivers -----------------------------
(* Two jobs of two processes that share a queue name and a root number. The *)
(* clock has two units to the microsecond and starts after the first one.   *)
EXTENDS Drivers, TLC

MCKeyOrder == <<"a:q:1", "b:q:2">>
MCKeyFor == ("a:q:1" :> [epoch |-> "a", queue |-> "q", id |-> "1"])
         @@ ("b:q:2" :> [epoch |-> "b", queue |-> "q", id |-> "2"])
MCNameOf == ("a:q:1" :> "E'tat-7f") @@ ("b:q:2" :> "deadbeef:\\sync")
MCAttrsOf == ("a:q:1" :> "order.id=1") @@ ("b:q:2" :> "tenant=acme")
MCRootOf == ("a:q:1" :> "1") @@ ("b:q:2" :> "1")
MCParentOf == ("a:q:1" :> "") @@ ("b:q:2" :> "1")
MCSegments ==
    ("E'tat-7f" :> <<[text |-> "E'tat", digits |-> 0, hex |-> 2, len |-> 4],
                     [text |-> "7f", digits |-> 1, hex |-> 2, len |-> 2]>>)
 @@ ("deadbeef:\\sync" :> <<[text |-> "deadbeef", digits |-> 0, hex |-> 8, len |-> 8],
                             [text |-> "\\sync", digits |-> 0, hex |-> 1, len |-> 5]>>)
MCAttrMap == ("" :> <<>>) @@ ("order.id=1" :> ("order.id" :> "1"))
                          @@ ("tenant=acme" :> ("tenant" :> "acme"))
MCPathKeys == {"order.id"}

\* E' stands for a capital letter with an accent and e' for the small one.  The term
\* "tat_7f" has a wildcard, which matches the hyphen of the name; ":\\sync" has a
\* backslash, which ILIKE takes as an escape; "e'tat" is in a case that LIKE does not fold.
MCOccurs == {<<"E'tat-7f", "7f">>, <<"2", "2">>,
             <<"E'tat-7f", "e'tat">>, <<"deadbeef:\\sync", ":\\sync">>}
MCLike == (MCOccurs \ {<<"E'tat-7f", "e'tat">>}) \union {<<"E'tat-7f", "tat_7f">>}
MCILike == (MCOccurs \ {<<"deadbeef:\\sync", ":\\sync">>}) \union {<<"E'tat-7f", "tat_7f">>}

MCFilters ==
    {[NoFilter EXCEPT !.queue = "q"],
     [NoFilter EXCEPT !.limit = 1, !.offset = 1, !.before = 5],
     [NoFilter EXCEPT !.name = "E'tat-7f", !.states = {"failed", "interrupted"}],
     [NoFilter EXCEPT !.pattern = <<"E'tat", "*">>, !.terms = {"7f"}],
     [NoFilter EXCEPT !.terms = {"tat_7f"}],
     [NoFilter EXCEPT !.terms = {"e'tat"}],
     [NoFilter EXCEPT !.terms = {":\\sync"}],
     [NoFilter EXCEPT !.attrKey = "tenant", !.attrValue = "acme"],
     [NoFilter EXCEPT !.attrKey = "order.id"]}

MCLimits == [max |-> 2, default |-> 2]
MCRetentions == {[age |-> 1, states |-> {"completed", "interrupted"}]}
MCBudget(a, b, calls, due) ==
    [events |-> ("a:q:1" :> a) @@ ("b:q:2" :> b), rounds |-> calls, late |-> due]
MCBudgets == {MCBudget(5, 0, 0, 1), MCBudget(4, 0, 0, 3), MCBudget(4, 0, 1, 1), MCBudget(3, 0, 2, 1),
              MCBudget(3, 1, 0, 2), MCBudget(2, 1, 1, 2)}
MCSinces == {2, 5, 6}
============================================================================
