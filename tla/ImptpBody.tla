----------------------------- MODULE ImptpBody -------------------------------
(***************************************************************************)
(* What does not change while the fill of com/imptp.m runs: the body of    *)
(* its loop as the updates and commits that it does, what they add up to,  *)
(* and what recovery can give back of them.                                *)
(*                                                                         *)
(* Recovery after a crash is external.  All that the code assumes of it is *)
(* that each region gets back a prefix of the updates to it, and that what *)
(* a TP or ZTP fence encloses comes back in all its regions or in none,    *)
(* except for a ZTP fence that was open when the job was killed.  Regions  *)
(* need not get back the same prefix.                                      *)
(***************************************************************************)
EXTENDS Checkdb

CONSTANTS
    top          \* ^%imptp(fillid,"top"), number of iterations of a job

ASSUME BodyAssumption == top \in Nat \ {0}

\* The body of the loop of each mode.
BodyOf == [m \in Modes |-> Body(m)]
LenOf(m) == Len(BodyOf[m])

\* Net effect of the first k updates of the body on each node.
NetEffect == [m \in Modes |->
    [k \in 0 .. LenOf(m) |-> [n \in Nodes(m) |-> LastWrite(BodyOf[m], k, n)]]]

\* The updates of s that end a commit: the last one of a TP transaction, and every
\* one outside of a transaction that is to a region the model keeps.
Ends(m, s) ==
    {p \in 1 .. Len(s) :
        \/ p = Len(s)
        \/ s[p].tp /\ s[p + 1].id # s[p].id
        \/ ~s[p].tp /\ s[p].node[2] \in m.letters}

\* Where the commit that begins after the first k updates of s ends.
CommitEnds(m, s) == [k \in 0 .. Len(s) - 1 |-> Min({p \in Ends(m, s) : p > k})]

EndOf == [m \in Modes |-> CommitEnds(m, BodyOf[m])]

\* $incr of ^cntloop among the first q updates of a run.
incrAt(m) == CHOOSE p \in 1 .. LenOf(m) : BodyOf[m][p].node = cntloopNode(m)
Incrs(m, q) == (q \div LenOf(m)) + (IF q % LenOf(m) >= incrAt(m) THEN 1 ELSE 0)

\* The nodes of iteration n after the first k[l] updates of its body, in region l.
After(m, n, nodes, k) ==
    [x \in DOMAIN nodes |-> Over(Leaves(m, n, x, NetEffect[m][k[x[2]]][x]), nodes[x])]

\* How many updates of iteration n there are among the first q of a run that
\* started with iteration f.
InIteration(m, q, f, n) ==
    IF n < f \/ q <= (n - f) * LenOf(m) THEN 0
    ELSE IF q >= (n - f + 1) * LenOf(m) THEN LenOf(m) ELSE q - (n - f) * LenOf(m)

\* The nodes of a job, nodes at the start of a run with iteration f, when region l
\* has the first cut[l] updates of the run.
Recovered(m, nodes, f, cut) ==
    [n \in 1 .. top |-> After(m, n, nodes[n], [l \in m.letters |-> InIteration(m, cut[l], f, n)])]

-----------------------------------------------------------------------------
(* Recovery, external *)

\* The updates to region l among the first q of a run.
UpdatesTo(m, q, l) ==
    {k \in 1 .. q : BodyOf[m][((k - 1) % LenOf(m)) + 1].node[2] = l}

\* The fences that are closed after q updates of a run: the updates of each.
ClosedFences(m, q) ==
    LET Of(id) == {i \in 1 .. LenOf(m) : BodyOf[m][i].id = id}
        ids == {BodyOf[m][i].id : i \in 1 .. LenOf(m)} \ {0}
        all == {{t * LenOf(m) + i : i \in Of(id)} : t \in 0 .. top - 1, id \in ids}
    IN {F \in all : \A k \in F : k <= q}

\* A fence, of which mine and other are the updates to two regions, comes back
\* with the prefixes x and y in both regions or in neither.
Agree(mine, x, other, y) ==
    \/ (\A k \in mine : k > x) /\ (\A k \in other : k > y)
    \/ (\A k \in mine : k <= x) /\ (\A k \in other : k <= y)

\* The prefixes of cs, which are for some of the regions, and one for region l
\* to go with them.  to[l] are the updates to region l; P[l] those of fence P.
WithRegion(to, fences, l, cs) ==
    LET whole == {x \in {0} \cup to[l] : \A P \in fences : Agree(P[l], x, {}, 0)}
        Fits(c, x) == \A k \in DOMAIN c, P \in fences : Agree(P[l], x, P[k], c[k])
    IN IF l \notin DOMAIN to THEN cs
       ELSE UNION {{[k \in DOMAIN c \cup {l} |-> IF k = l THEN x ELSE c[k]] :
                       x \in {x \in whole : Fits(c, x)}} : c \in cs}

\* The prefixes that recovery can give to the regions after q updates.
Cuts(m, q) ==
    LET to == [l \in m.letters |-> UpdatesTo(m, q, l)]
        fences == {[l \in m.letters |-> F \cap to[l]] : F \in ClosedFences(m, q)}
        With(l, cs) == WithRegion(to, fences, l, cs)
    IN With("i", With("e", With("c", With("b", With("a", {[l \in {} |-> 0]})))))

\* Between two commits: here a job can be killed.
CommitPoints(m) == {q \in 0 .. top * LenOf(m) : q % LenOf(m) \in {0} \cup Ends(m, BodyOf[m])}

CutsOf == [m \in {m \in Modes : m.crash} |-> [q \in CommitPoints(m) |-> Cuts(m, q)]]
=============================================================================
