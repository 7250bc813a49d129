------------------------------ MODULE MCSearch -----------------------------
\* Pools of up to four items out of eight, small targets, four configurations.
EXTENDS Search

I(paise, age, widened) == [paise |-> paise, age |-> age, widened |-> widened]

\* Oldest first, as build_pool sorts them; -49 paise round to zero rupees.
MCItems == << I(-101, 3, TRUE), I(150, 3, FALSE), I(199, 2, FALSE), I(200, 2, FALSE),
              I(-250, 2, TRUE), I(-49, 1, TRUE), I(299, 1, FALSE), I(399, 1, FALSE) >>

\* The increasing sequences of up to m of the indices of MCItems.
MCPicks(m) == {<< >>} \cup
    UNION {{p \in [1 .. k -> 1 .. Len(MCItems)] : \A i \in 1 .. k - 1 : p[i] < p[i + 1]} :
           k \in 1 .. m}

C(epsilon, maxPool, axis, nodeCap, cap, split, attempts) ==
    [epsilon |-> epsilon, maxPool |-> maxPool, maxAxisWidth |-> axis, maxNodes |-> nodeCap,
     enumerateCap |-> cap, requireNonempty |-> TRUE, split |-> split,
     maxAttempts |-> attempts]

\* The window alone; sub-windows; few nodes and a wider window; a short axis.
MCConfigs == {C(1, 4, 50, 99, 2, FALSE, 0), C(0, 2, 50, 3, 2, TRUE, 2),
              C(2, 4, 50, 12, 3, FALSE, 0), C(1, 2, 6, 99, 2, FALSE, 0)}

MCQuestions ==
    {[items |-> [i \in 1 .. Len(p) |-> MCItems[p[i]]], target |-> t, cfg |-> c] :
        p \in MCPicks(4), t \in {49, 98, 349, 1047}, c \in MCConfigs}

=============================================================================
