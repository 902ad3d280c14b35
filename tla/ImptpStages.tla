----------------------------- MODULE ImptpStages -----------------------------
(***************************************************************************)
(* One iteration of the database fill of com/imptp.m: the nodes that it    *)
(* touches and the updates of its eleven stages, in program order.         *)
(*                                                                         *)
(* The globals of imptp differ in the letter that they start with, and the *)
(* letter decides the region that they live in.  Letters of the model:     *)
(*   a, b, c, e   AREG, BREG, CREG (^c and ^d do the same), EREG;          *)
(*   i            DEFAULT: ^i (^f, ^g and ^h do the same), and ^j, ^lasti. *)
(* A node is <<global, letter, subscript>>; its other subscripts are those *)
(* of the iteration (fillid, and I, subs or subsMAX, which are different   *)
(* for different iterations, see ImptpIndex).  Values too are determined   *)
(* by the iteration.  Triggers are off, all regions are checked and there  *)
(* is no GT.CM (trigger=0, skipreg=0, gtcm=0).                             *)
(*                                                                         *)
(* The parameter m of most operators is the mode of the test, which comes  *)
(* from its environment variables:                                         *)
(*   m.istp       0 no fences, 1 TP, 2 ZTP;                                *)
(*   m.crash      gtm_test_crash is 1;                                     *)
(*   m.letters    the regions of the database;                             *)
(*   m.piece0     the iterations whose targetpiece (Stage 10) is 0, which    *)
(*                depends on the length of the value; the same for all jobs, *)
(*                whose nodes are disjoint.                                  *)
(***************************************************************************)
EXTENDS Integers, Sequences, FiniteSets

CONSTANTS
    Modes,     \* the modes of the instance
    jobcnt     \* number of jobs

AllLetters == {"a", "b", "c", "e", "i"}

ASSUME StageAssumption ==
    /\ jobcnt \in Nat \ {0}
    /\ \A m \in Modes :
          /\ m.istp \in {0, 1, 2}
          /\ m.crash \in BOOLEAN
          /\ m.letters \subseteq AllLetters
          /\ {"a", "i"} \subseteq m.letters
          /\ m.piece0 \subseteq Nat

\* The fence of Stage 11: TP even for non-TP when the test crashes.
lfence(m) == IF m.istp = 0 /\ m.crash THEN 1 ELSE m.istp

-----------------------------------------------------------------------------
(* Nodes *)

random(l) == <<"random", l, 0>>         \* ^arandom(subsMAX) .. ^irandom...(subs)
randomJ(l, J) == <<"randomJ", l, J>>    \* ^arandom(subs,J) ..
jrandom(d) == <<"jrandom", "i", d>>     \* ^jrandom...(I), (I,I) and (I,I,subs)
ntp(l) == <<"ntp", l, 0>>               \* ^antp(subs) ..
span(l) == <<"span", l, 0>>             \* ^aspan(I), ^bspan(I), ^espan(I)
ndxarr(l) == <<"ndxarr", l, 0>>         \* ^andxarr(jobno,loop) ..
lasti == <<"lasti", "i", 0>>            \* ^lasti(jobno), defined: set by this iteration

\* ^bntp(subsMAX): the padding is empty with ZTP, so it is ^bntp(subs).
bntpMAX(m) == IF m.istp = 2 THEN ntp("b") ELSE <<"ntpMAX", "b", 0>>

SpanLetters(m) == m.letters \cap {"a", "b", "e"}

Nodes(m) ==
    {random(l) : l \in m.letters}
    \cup {randomJ(l, J) : l \in m.letters, J \in 1 .. jobcnt}
    \cup {jrandom(d) : d \in 1 .. 3}
    \cup {ntp(l) : l \in m.letters}
    \cup {bntpMAX(m) : l \in m.letters \cap {"b"}}
    \cup {span(l) : l \in SpanLetters(m)}
    \cup {ndxarr(l) : l \in m.letters}
    \cup {lasti}

\* A node is undefined, or has the value of the iteration: val for most,
\* for ^[abe]span the one of Stage 7 and then the one of Stage 10.
Values == {"undef", "val", "stage7", "stage10"}

-----------------------------------------------------------------------------
(* Updates and stages *)

\* No KILL of the fill takes descendants with it: the one global that has
\* some, ^jrandom, is only ZKILLed.
Set(n, v) == [node |-> n, value |-> v]
Kill(n) == [node |-> n, value |-> "undef"]
ZKill(n) == [node |-> n, value |-> "undef"]

\* A SET under a postconditional that does not hold.
Nothing == [node |-> <<"none", "none", 0>>, value |-> "undef"]

\* $incr(^cntloop): in CREG, or in DEFAULT when there are few regions.
cntloopRegion(m) == IF "c" \in m.letters THEN "c" ELSE "i"
cntloopNode(m) == <<"cntloop", cntloopRegion(m), 0>>

Stage1(m) ==
    <<Set(random("a"), "val"), Set(random("b"), "val"), Set(random("c"), "val"),
      Set(random("e"), "val"), Set(random("i"), "val"),
      Set(jrandom(1), "val"), Set(jrandom(2), "val"), Set(jrandom(3), "val"),
      IF m.istp # 0 THEN Set(lasti, "val") ELSE Nothing>>

Stage2(m) == <<Set(ntp("a"), "val"), Set(ntp("b"), "val"), Set(ntp("c"), "val")>>

Stage3(m) == <<Set(ntp("e"), "val"), Set(ntp("i"), "val"), Set(bntpMAX(m), "val")>>

\* The loop over J, in which every round is fenced.
Stage4(m, J) ==
    <<Set(randomJ("a", J), "val"), Set(randomJ("b", J), "val"), Set(randomJ("c", J), "val"),
      Set(randomJ("e", J), "val"), Set(randomJ("i", J), "val")>>

Stage5(m) ==
    <<Kill(randomJ("a", 1)), Kill(randomJ("b", 1)), Kill(randomJ("c", 1)),
      Kill(randomJ("e", 1)), Kill(randomJ("i", 1))>>

Stage6(m) == <<ZKill(jrandom(1)), ZKill(jrandom(2))>>

Stage7(m) == <<Set(span("a"), "stage7"), Set(span("e"), "stage7"), Set(span("b"), "stage7")>>

Stage8(m) ==
    <<Kill(randomJ("a", 1)), Kill(ntp("a")), Kill(ntp("b")), ZKill(randomJ("b", 1)),
      ZKill(ntp("c")), Kill(bntpMAX(m))>>

\* ^cntseq, incremented in the same (random) fence, is checked by nobody.
Stage9(m) == <<Set(cntloopNode(m), "val")>>

\* SET $PIECE of targetpiece.  See Leaves for the targetpiece 0.
SetPiece(n) == Set(n, "stage10")

Stage10(m) == <<ZKill(span("e")), SetPiece(span("a")), SetPiece(span("e")), SetPiece(span("b"))>>

\* Mutant: CREG has no ndxarr global.
Stage11NotC(m) ==
    <<Set(ndxarr("a"), "val"), Set(ndxarr("b"), "val"), Nothing,
      Set(ndxarr("e"), "val"), Set(ndxarr("i"), "val"),
      IF m.istp = 0 THEN Set(lasti, "val") ELSE Nothing>>

Stage11(m) ==
    <<Set(ndxarr("a"), "val"), Set(ndxarr("b"), "val"), Set(ndxarr("c"), "val"),
      Set(ndxarr("e"), "val"), Set(ndxarr("i"), "val"),
      IF m.istp = 0 THEN Set(lasti, "val") ELSE Nothing>>

\* The updates of a stage with its fence: tp says that the stage is one TP
\* transaction; those in a TP or ZTP fence carry its id.
Fence(f, id, s) ==
    [k \in 1 .. Len(s) |->
        [node |-> s[k].node, value |-> s[k].value, tp |-> f = 1, id |-> IF f = 0 THEN 0 ELSE id]]

\* All rounds of Stage 4.
Rounds(m) ==
    [k \in 1 .. 5 * jobcnt |->
        LET J == ((k - 1) \div 5) + 1 IN Fence(m.istp, 100 + J, Stage4(m, J))[((k - 1) % 5) + 1]]

\* Stages 4 to 11.
LaterStages(m) ==
    Rounds(m) \o Fence(m.istp, 5, Stage5(m)) \o Fence(m.istp, 6, Stage6(m)) \o Fence(m.istp, 7, Stage7(m))
    \o Fence(0, 8, Stage8(m)) \o Fence(0, 9, Stage9(m)) \o Fence(m.istp, 10, Stage10(m))
    \o Fence(lfence(m), 11, Stage11(m))

\* The body of the loop over loop, as the sequence of its updates.
Body(m) ==
    Fence(m.istp, 1, Stage1(m)) \o Fence(0, 2, Stage2(m)) \o Fence(m.istp, 3, Stage3(m))
    \o LaterStages(m)

\* What the first k updates of s make of node n: the last one counts.
LastWrite(s, k, n) ==
    LET w == {p \in 1 .. k : s[p].node = n}
    IN IF w = {} THEN "keep" ELSE s[CHOOSE p \in w : \A q \in w : q <= p].value

\* What last writing value leaves in node x of iteration n.  SET $PIECE at 0 does
\* nothing: ^aspan and ^bspan stay as Stage 7 left them, and ^espan, which Stage 10
\* has just killed, stays undefined.
Leaves(m, n, x, value) ==
    IF value = "stage10" /\ n \in m.piece0
    THEN IF x = span("e") THEN "undef" ELSE "stage7"
    ELSE value

Over(value, old) == IF value = "keep" THEN old ELSE value
=============================================================================
