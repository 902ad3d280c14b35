------------------------------- MODULE Checkdb -------------------------------
(***************************************************************************)
(* The verdict of com/checkdb.m on the nodes of an iteration, and on the   *)
(* database: db[j][n] holds the nodes of iteration n of job j.             *)
(***************************************************************************)
EXTENDS ImptpStages, FiniteSetsExt

Defined(db, n) == db[n] # "undef"

\* valPIECE with its targetpiece set: the value of Stage 7 when that is piece 0.
SpanValue(m, n) == IF n \in m.piece0 THEN "stage7" ELSE "stage10"

\* Mutant: ^bspan is not compared.
compiterNoBspan(m, n, db) ==
    /\ \A l \in m.letters : db[random(l)] = "val"
    /\ ~Defined(db, jrandom(1)) /\ ~Defined(db, jrandom(2)) /\ db[jrandom(3)] = "val"
    /\ \A l \in m.letters, J \in 1 .. jobcnt :
          db[randomJ(l, J)] = IF J = 1 THEN "undef" ELSE "val"
    /\ \A l \in m.letters \cap {"a", "b", "c"} : ~Defined(db, ntp(l))
    /\ \A l \in m.letters \cap {"e", "i"} : db[ntp(l)] = "val"
    /\ \A l \in SpanLetters(m) \ {"b"} : l = "a" \/ n \notin m.piece0 => db[span(l)] = SpanValue(m, n)

\* Label compiter: all stages of iteration n have been done.  Of ^espan it compares
\* the targetpiece only: nothing when that is 0.
compiter(m, n, db) ==
    /\ \A l \in m.letters : db[random(l)] = "val"
    /\ ~Defined(db, jrandom(1)) /\ ~Defined(db, jrandom(2)) /\ db[jrandom(3)] = "val"
    /\ \A l \in m.letters, J \in 1 .. jobcnt :
          db[randomJ(l, J)] = IF J = 1 THEN "undef" ELSE "val"
    /\ \A l \in m.letters \cap {"a", "b", "c"} : ~Defined(db, ntp(l))
    /\ \A l \in m.letters \cap {"e", "i"} : db[ntp(l)] = "val"
    /\ \A l \in SpanLetters(m) \ {"e"} : db[span(l)] = SpanValue(m, n)
    /\ "e" \in m.letters /\ n \notin m.piece0 => db[span("e")] = SpanValue(m, n)

\* $ZPREVIOUS(^arandom(subs,"")): the last J, or 0 for none.
zprevious(db, l) == Max({0} \cup {J \in 1 .. jobcnt : Defined(db, randomJ(l, J))})

\* The states of ^[abe]span that label crash accepts when the iteration is
\* not complete: <<aspan, espan, bspan>>.  With targetpiece 0 the values of
\* Stage 7 and Stage 10 are one and no node holds "stage10".
SpanStates ==
    {<<"undef", "undef", "undef">>,
     <<"stage7", "stage7", "stage7">>, <<"stage7", "undef", "undef">>, <<"stage7", "stage7", "undef">>,
     <<"stage7", "undef", "stage7">>,
     <<"stage10", "stage10", "stage10">>, <<"stage10", "undef", "stage7">>,
     <<"stage10", "stage10", "stage7">>}

SpanOK(m, db) ==
    \E s \in SpanStates :
        /\ db[span("a")] = s[1]
        /\ "e" \in m.letters => db[span("e")] = s[2]
        /\ "b" \in m.letters => db[span("b")] = s[3]

\* Label crash, for one iteration: Stage 1 has been done, and the later
\* stages as far as TP partners say.
crashiter(m, db) ==
    LET complete == Defined(db, ndxarr("a"))
        jmax == IF complete THEN jobcnt ELSE zprevious(db, "a")
    IN /\ \A l \in m.letters : db[random(l)] = "val"
       /\ db[jrandom(3)] = "val"
       /\ complete => ~Defined(db, jrandom(1)) /\ ~Defined(db, jrandom(2))
       /\ ~complete => \A l \in m.letters : zprevious(db, l) = jmax
       /\ \A l \in m.letters, J \in 1 .. jmax :
             db[randomJ(l, J)] =
                 IF J = 1 /\ (complete \/ ~Defined(db, randomJ("a", 1))) THEN "undef" ELSE "val"
       /\ complete => \A l \in m.letters \cap {"a", "b", "c"} : ~Defined(db, ntp(l))
       /\ complete \/ jmax # 0 => \A l \in m.letters \cap {"e", "i"} : db[ntp(l)] = "val"
       /\ ~complete => SpanOK(m, db)

\* datacnt=9: the ndxarr nodes of all regions are there.
AllNdxarr(m, db) == \A l \in m.letters : Defined(db, ndxarr(l))

\* ^lasti(fillid,jobno): the last iteration that set it.
LastiOf(dbs) == Max({0} \cup {n \in DOMAIN dbs : Defined(dbs[n], lasti)})

\* The loops of labels nocrash, crash and crashztp over the iterations of a job.
checkjob(m, dbs) ==
    LET last == LastiOf(dbs) IN
    IF ~m.crash \/ m.istp = 0 THEN \A n \in 1 .. last : compiter(m, n, dbs[n])
    ELSE IF m.istp = 2 THEN \A n \in 1 .. last - 1 : AllNdxarr(m, dbs[n]) => compiter(m, n, dbs[n])
    ELSE \A n \in 1 .. last : crashiter(m, dbs[n])

\* The sum of f over the jobs.
Total(f) ==
    LET sum[j \in 0 .. jobcnt] ==
            IF j = 0 THEN 0 ELSE sum[j - 1] + (IF j \in DOMAIN f THEN f[j] ELSE 0)
    IN sum[jobcnt]

\* "checkdb PASSED."  cntloop is the value of ^cntloop(fillid).
checkdb(m, db, cntloop) ==
    /\ \A j \in DOMAIN db : checkjob(m, db[j])
    /\ ~m.crash => cntloop = Total([j \in DOMAIN db |-> LastiOf(db[j])])
=============================================================================
