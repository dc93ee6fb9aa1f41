----------------------------- MODULE MCLiveChat -----------------------------
(***************************************************************************)
(* Small instances of the chat page: how it is opened, and what happens.    *)
(***************************************************************************)
EXTENDS LiveChat

Zero == [types |-> 0, attaches |-> 0, selects |-> 0, news |-> 0, deletes |-> 0, renames |-> 0,
         models |-> 0, projects |-> 0, rewinds |-> 0, stops |-> 0, plans |-> 0, ends |-> 0,
         lost |-> 0, foreign |-> 0]

\* No session, one, or two of which the second is bound to a model that is no
\* longer configured.
Row(s, m) == [id |-> s, model |-> m, project |-> None]
Opening(objs, url, stored, budget) ==
    [objs |-> objs, url |-> url, stored |-> stored, left |-> budget]
Bare(budget) == Opening(<<>>, None, None, budget)
Single(budget) == Opening(<<Row(1, 1)>>, None, None, budget)
Double(budget) == Opening(<<Row(2, 9), Row(1, 1)>>, 1, 2, budget)

MCScenarios == {
    Bare([Zero EXCEPT !.types = 1, !.news = 1, !.lost = 1]),
    Bare([Zero EXCEPT !.types = 1, !.plans = 1, !.lost = 1]),
    Bare([Zero EXCEPT !.types = 1, !.attaches = 1, !.lost = 1]),
    Single([Zero EXCEPT !.types = 2, !.lost = 1, !.ends = 1]),
    Single([Zero EXCEPT !.types = 1, !.deletes = 1, !.ends = 1]),
    Single([Zero EXCEPT !.projects = 2]),
    Single([Zero EXCEPT !.types = 1, !.plans = 2]),
    Single([Zero EXCEPT !.types = 1, !.stops = 1]),
    Double([Zero EXCEPT !.types = 1, !.selects = 1, !.lost = 1]),
    Double([Zero EXCEPT !.types = 1, !.attaches = 1, !.selects = 1]),
    Double([Zero EXCEPT !.types = 1, !.deletes = 1, !.ends = 1]),
    Double([Zero EXCEPT !.models = 1, !.renames = 1, !.selects = 1]),
    Double([Zero EXCEPT !.deletes = 1, !.selects = 1, !.news = 1]),
    Double([Zero EXCEPT !.rewinds = 1, !.selects = 1]),
    Single([Zero EXCEPT !.types = 1, !.rewinds = 1]),
    Single([Zero EXCEPT !.types = 2, !.foreign = 1]),
    Single([Zero EXCEPT !.types = 1, !.foreign = 1, !.lost = 1, !.ends = 1]),
    Double([Zero EXCEPT !.foreign = 1, !.selects = 1, !.stops = 1])
    }
=============================================================================
