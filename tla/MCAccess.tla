------------------------------ MODULE MCAccess ------------------------------
(* Two requests at once, two operators of whom one may use the controls, and *)
(* a script that may.                                                        *)
EXTENDS Access, TLC

Options(login, tokens, controls, requireAuth) ==
    [login |-> login, tokens |-> tokens, controls |-> controls, requireAuth |-> requireAuth]

\* Everything, a token-only dashboard open or closed to readers, a public one, and two
\* that New refuses.
MCDeployments ==
    {Options(TRUE, TRUE, TRUE, FALSE), Options(FALSE, TRUE, TRUE, FALSE), Options(FALSE, TRUE, TRUE, TRUE),
     Options(FALSE, FALSE, FALSE, FALSE), Options(FALSE, FALSE, TRUE, FALSE), Options(FALSE, FALSE, FALSE, TRUE)}

\* Nobody signed in before, or both operators; the one who may use the controls is
\* the first to expire.
MCEarlier ==
    {<<>>, <<[subject |-> "bob", expiry |-> 2], [subject |-> "ann", expiry |-> 4]>>}

Mix(view, control, login, logout) ==
    [view |-> view, control |-> control, login |-> login, logout |-> logout]

\* A control or a view among sign-ins and sign-outs, and logins enough for the end of one
\* window's burst and the start of the next window's.
MCMixes ==
    {Mix(0, 1, 0, 2), Mix(1, 0, 1, 1), Mix(0, 1, 1, 0), Mix(0, 0, 4, 0)}

Symmetry == Permutations(Threads)
=============================================================================
