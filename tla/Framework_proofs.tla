--------------------------- MODULE Framework_proofs ---------------------------
(***************************************************************************)
(* Theorems about what every test uses.                                    *)
(*                                                                         *)
(* PortReservation, for any set of tests and any port range: it keeps its  *)
(* type invariant, never lets two tests have the same port and keeps the   *)
(* reservation file of every port that a test has.                         *)
(*                                                                         *)
(* JobBarrier, for any number of calls of ^job and any number of children: *)
(* a call that has its jobid for itself starts its children together.      *)
(***************************************************************************)
EXTENDS PortReservation, JobBarrier, SequenceTheorems, TLAPS

-----------------------------------------------------------------------------
(* PortReservation: ports of concurrent tests                                *)

\* What makes ReservationKept inductive.  A test about to remove a file is
\* the first of its lines; a test that works on a candidate does not have
\* that candidate already; and a port is either held or queued for removal,
\* so that the rm of a queued port cannot hit a held one of the same test.
RemoverIsFirst ==
    \A t \in Tests : place[t] = "remove" => HeadIsMine(t, portno[t])

CandidateIsNew ==
    \A t \in Tests : InBody(t) => portno[t] \notin Reserved(t)

HeldNotQueued ==
    \A t \in Tests : held[t] \cap rmports[t] = {}

PortIInv ==
    /\ PortTypeOK
    /\ ReservationKept
    /\ RemoverIsFirst
    /\ CandidateIsNew
    /\ HeldNotQueued

-----------------------------------------------------------------------------
\* A reservation file has one first line: it belongs to at most one test.
LEMMA OneFirstLine ==
    ASSUME NEW t, NEW u, NEW p, HeadIsMine(t, p), HeadIsMine(u, p)
    PROVE  t = u
BY DEF HeadIsMine

\* A line appended to a reservation file by portno_acquire.csh (line 64)
\* never displaces the first line.
LEMMA AppendKeepsFirst ==
    ASSUME NEW s \in Seq(Tests), NEW t \in Tests
    PROVE  /\ Append(s, t) \in Seq(Tests)
           /\ Append(s, t) # << >>
           /\ s # << >> => Head(Append(s, t)) = Head(s)
<1>1. Append(s, t) \in Seq(Tests) /\ Len(Append(s, t)) = Len(s) + 1
  BY AppendProperties
<1>2. Append(s, t) # << >>
  BY <1>1, EmptySeq, LenProperties
<1>3. ASSUME s # << >> PROVE Head(Append(s, t)) = Head(s)
  <2>1. Len(s) \in Nat /\ Len(s) # 0
    BY <1>3, EmptySeq, LenProperties
  <2>2. Append(s, t)[1] = s[1]
    BY <2>1, AppendProperties
  <2>3. QED BY <1>2, <1>1, <1>3, <2>2, HeadTailProperties
<1>4. QED BY <1>1, <1>2, <1>3

-----------------------------------------------------------------------------
\* The candidate after portno[t] is a port while the loop of
\* portno_acquire.csh goes on (line 46).
LEMMA NextCandidate ==
    ASSUME PortTypeOK, NEW t \in Tests, portno[t] < port_upperlimit
    PROVE  /\ portno[t] + 1 \in Ports
           /\ portno[t] + 1 \in port_start .. port_upperlimit
BY PortAssumption DEF PortTypeOK, Ports

\* Every command of the port scripts preserves the type invariant.
LEMMA PortTypeStep ==
    ASSUME PortTypeOK, PortNext PROVE PortTypeOK'
<1> USE PortAssumption
<1> SUFFICES ASSUME NEW t \in Tests, TestStep(t) PROVE PortTypeOK'
  BY DEF PortNext
<1>1. CASE Acquire(t)
  BY <1>1 DEF Acquire, PortTypeOK, PortGoto, Locations, InBody, Ports
<1>2. CASE SkipReserved(t)
  <2>1. place' = place /\ place[t] = "loop"
    BY <1>2 DEF SkipReserved
  <2>2. portno' \in [Tests -> port_start .. port_upperlimit]
    BY <1>2, NextCandidate DEF SkipReserved, PortTypeOK
  <2>3. second_round' \in [Tests -> BOOLEAN]
    BY <1>2 DEF SkipReserved, PortTypeOK
  <2>4. \A u \in Tests : u # t => portno'[u] = portno[u]
    BY <1>2 DEF SkipReserved, PortTypeOK
  <2>5. QED BY <1>2, <2>1, <2>2, <2>3, <2>4 DEF SkipReserved, PortTypeOK, InBody
<1>3. CASE SeeNoFile(t)
  BY <1>3, NextCandidate DEF SeeNoFile, PortTypeOK, PortGoto, Locations, InBody
<1>4. CASE AppendLine(t)
  <2>1. portno[t] \in Ports
    BY <1>4 DEF AppendLine, PortTypeOK, InBody
  <2>2. file' \in [Ports -> Seq(Tests)]
    BY <1>4, <2>1, AppendKeepsFirst DEF AppendLine, PortTypeOK
  <2>3. QED BY <1>4, <2>2 DEF AppendLine, PortTypeOK, PortGoto, Locations, InBody
<1>5. CASE IsPortInUse(t)
  BY <1>5 DEF IsPortInUse, PortTypeOK, PortGoto, Locations, InBody
<1>6. CASE CheckOwnerInUse(t)
  BY <1>6 DEF CheckOwnerInUse, PortTypeOK, PortGoto, Locations, InBody
<1>7. CASE RemoveFile(t)
  <2>1. file' \in [Ports -> Seq(Tests)]
    BY <1>7, EmptySeq DEF RemoveFile, PortTypeOK
  <2>2. QED BY <1>7, <2>1 DEF RemoveFile, PortTypeOK, PortGoto, Locations, InBody
<1>8. CASE LetGo(t)
  BY <1>8 DEF LetGo, PortTypeOK, PortGoto, Locations, InBody
<1>18. CASE PickPort(t)
  <2>1. portno[t] \in Ports
    BY <1>18 DEF PickPort, PortTypeOK, InBody
  <2>2. portno' \in [Tests -> port_start .. port_upperlimit] /\ second_round' \in [Tests -> BOOLEAN]
    BY <1>18 DEF PickPort, EndScript, PortTypeOK
  <2>3. \A u \in Tests : u # t => portno'[u] = portno[u]
    BY <1>18 DEF PickPort, EndScript, PortTypeOK
  <2>4. QED
    BY <1>18, <2>1, <2>2, <2>3 DEF PickPort, PortTypeOK, PortGoto, Locations, InBody
<1>19. CASE ReservedAtLimit(t)
  BY <1>19 DEF ReservedAtLimit, ExitShell, PortTypeOK, PortGoto, Locations, InBody
<1>9. CASE GiveUp(t)
  BY <1>9 DEF GiveUp, ExitShell, PortTypeOK, PortGoto, Locations, InBody
<1>10. CASE ReleaseOne(t)
  BY <1>10 DEF ReleaseOne, PortTypeOK, InBody
<1>11. CASE ReleaseAll(t)
  BY <1>11 DEF ReleaseAll, PortTypeOK, InBody
<1>12. CASE Pass(t)
  BY <1>12 DEF Pass, PortTypeOK, PortGoto, Locations, InBody
<1>13. CASE Fail(t)
  BY <1>13 DEF Fail, PortTypeOK, PortGoto, Locations, InBody
<1>14. CASE CleanupPort(t)
  <2>1. file' \in [Ports -> Seq(Tests)]
    BY <1>14, EmptySeq DEF CleanupPort, PortTypeOK
  <2>2. QED BY <1>14, <2>1 DEF CleanupPort, PortTypeOK, InBody
<1>15. CASE CleanupDone(t)
  BY <1>15 DEF CleanupDone, PortTypeOK, PortGoto, Locations, InBody
<1>16. CASE Kill(t)
  BY <1>16 DEF Kill, ExitShell, PortTypeOK, PortGoto, Locations, InBody
<1>17. QED
  BY <1>1, <1>2, <1>3, <1>4, <1>5, <1>6, <1>7, <1>8, <1>9, <1>10, <1>11,
     <1>12, <1>13, <1>14, <1>15, <1>16, <1>18, <1>19
  DEF TestStep, AcquireStep

-----------------------------------------------------------------------------
\* A step that leaves the files alone, gives no test a port and moves no test
\* into the body of the loop of portno_acquire.csh keeps what the invariant
\* says of reservations.
LEMMA QuietStep ==
    ASSUME PortTypeOK, PortTypeOK', NEW t \in Tests,
           file' = file, Reserved(t)' = Reserved(t),
           \A u \in Tests : u # t =>
               /\ place'[u] = place[u] /\ portno'[u] = portno[u]
               /\ held'[u] = held[u] /\ rmports'[u] = rmports[u],
           InBody(t)' => InBody(t) /\ portno'[t] = portno[t],
           place'[t] = "remove" => HeadIsMine(t, portno[t]),
           held'[t] \cap rmports'[t] = {},
           ReservationKept, RemoverIsFirst, CandidateIsNew, HeldNotQueued
    PROVE  (ReservationKept /\ RemoverIsFirst /\ CandidateIsNew /\ HeldNotQueued)'
<1>1. \A u \in Tests : Reserved(u)' = Reserved(u)
  BY DEF Reserved
<1>2. ReservationKept'
  BY <1>1 DEF ReservationKept, HeadIsMine
<1>3. RemoverIsFirst'
  BY DEF RemoverIsFirst, HeadIsMine, InBody
<1>4. CandidateIsNew'
  BY <1>1 DEF CandidateIsNew, InBody
<1>5. HeldNotQueued'
  BY DEF HeldNotQueued
<1>6. QED BY <1>2, <1>3, <1>4, <1>5

\* Every command of portno_acquire.csh, portno_release.csh and the cleanup
\* keeps the reservations of all tests in place.
LEMMA ReservationStep ==
    ASSUME PortIInv, PortNext, PortTypeOK' PROVE PortIInv'
<1> USE DEF PortIInv
<1> SUFFICES ASSUME NEW t \in Tests, TestStep(t)
             PROVE  (ReservationKept /\ RemoverIsFirst /\ CandidateIsNew
                       /\ HeldNotQueued)'
  BY DEF PortNext
<1>1. CASE Acquire(t)
  BY <1>1, QuietStep DEF Acquire, PortTypeOK, PortGoto, InBody, Reserved, HeldNotQueued
<1>2. CASE SkipReserved(t)
  BY <1>2, QuietStep DEF SkipReserved, PortTypeOK, PortGoto, InBody, Reserved, HeldNotQueued
<1>3. CASE SeeNoFile(t)
  <2>1. portno'[t] \in Ports /\ file[portno'[t]] = << >>
    BY <1>3, NextCandidate DEF SeeNoFile, PortTypeOK
  <2>2. portno'[t] \notin Reserved(t)
    BY <2>1 DEF ReservationKept, HeadIsMine
  <2>3. CandidateIsNew'
    BY <1>3, <2>2 DEF SeeNoFile, CandidateIsNew, PortTypeOK, PortGoto, InBody, Reserved
  <2>4. RemoverIsFirst'
    BY <1>3 DEF SeeNoFile, RemoverIsFirst, HeadIsMine, PortTypeOK, PortGoto
  <2>5. ReservationKept' /\ HeldNotQueued'
    BY <1>3 DEF SeeNoFile, ReservationKept, HeldNotQueued, HeadIsMine, Reserved
  <2>6. QED BY <2>3, <2>4, <2>5
<1>4. CASE AppendLine(t)
  <2>1. portno[t] \in Ports /\ file[portno[t]] \in Seq(Tests)
    BY <1>4 DEF AppendLine, PortTypeOK, InBody
  <2>2. \A u, p : HeadIsMine(u, p) /\ p \in Ports => HeadIsMine(u, p)'
    BY <1>4, <2>1, AppendKeepsFirst DEF AppendLine, HeadIsMine, PortTypeOK
  <2>3. ReservationKept'
    BY <1>4, <2>2 DEF AppendLine, ReservationKept, Reserved, PortTypeOK
  <2>4. RemoverIsFirst'
    BY <1>4, <2>2 DEF AppendLine, RemoverIsFirst, PortTypeOK, PortGoto, InBody
  <2>5. CandidateIsNew' /\ HeldNotQueued'
    BY <1>4 DEF AppendLine, CandidateIsNew, HeldNotQueued, PortTypeOK, PortGoto, InBody, Reserved
  <2>6. QED BY <2>3, <2>4, <2>5
<1>5. CASE IsPortInUse(t)
  BY <1>5, QuietStep DEF IsPortInUse, PortTypeOK, PortGoto, InBody, Reserved, HeldNotQueued
<1>6. CASE CheckOwnerInUse(t)
  BY <1>6, QuietStep DEF CheckOwnerInUse, PortTypeOK, PortGoto, InBody, Reserved, HeldNotQueued
<1>7. CASE RemoveFile(t)
  <2>1. portno[t] \in Ports /\ HeadIsMine(t, portno[t]) /\ portno[t] \notin Reserved(t)
    BY <1>7 DEF RemoveFile, PortTypeOK, InBody, RemoverIsFirst, CandidateIsNew
  <2>2. \A u, p : HeadIsMine(u, p) /\ p \in Ports /\ (u # t \/ p # portno[t])
                    => HeadIsMine(u, p)'
    BY <1>7, <2>1, OneFirstLine DEF RemoveFile, HeadIsMine, PortTypeOK
  <2>3. ReservationKept'
    BY <1>7, <2>1, <2>2 DEF RemoveFile, ReservationKept, Reserved, PortTypeOK
  <2>4. RemoverIsFirst'
    BY <1>7, <2>2 DEF RemoveFile, RemoverIsFirst, PortTypeOK, PortGoto, InBody
  <2>5. CandidateIsNew' /\ HeldNotQueued'
    BY <1>7 DEF RemoveFile, CandidateIsNew, HeldNotQueued, PortTypeOK, PortGoto, InBody, Reserved
  <2>6. QED BY <2>3, <2>4, <2>5
<1>9. CASE PickPort(t)
  <2>1. portno[t] \notin Reserved(t)
    BY <1>9 DEF PickPort, CandidateIsNew, InBody
  <2>2. ReservationKept'
    BY <1>9 DEF PickPort, ReservationKept, Reserved, HeadIsMine, PortTypeOK
  <2>3. RemoverIsFirst'
    BY <1>9 DEF PickPort, EndScript, RemoverIsFirst, HeadIsMine, PortTypeOK, PortGoto
  <2>4. CandidateIsNew'
    BY <1>9 DEF PickPort, EndScript, CandidateIsNew, PortTypeOK, PortGoto, InBody, Reserved
  <2>5. HeldNotQueued'
    BY <1>9, <2>1 DEF PickPort, HeldNotQueued, PortTypeOK, Reserved
  <2>6. QED BY <2>2, <2>3, <2>4, <2>5
<1>8. CASE LetGo(t)
  BY <1>8, QuietStep DEF LetGo, PortTypeOK, PortGoto, InBody, Reserved, HeldNotQueued
<1>10. CASE ReservedAtLimit(t)
  BY <1>10, QuietStep DEF ReservedAtLimit, PortTypeOK, PortGoto, InBody, Reserved, HeldNotQueued, ExitShell
<1>11. CASE GiveUp(t)
  BY <1>11, QuietStep DEF GiveUp, PortTypeOK, PortGoto, InBody, Reserved, HeldNotQueued, ExitShell
<1>12. CASE ReleaseOne(t)
  <2>1. PICK p \in held[t] : /\ held' = [held EXCEPT ![t] = @ \ {p}]
                             /\ rmports' = [rmports EXCEPT ![t] = @ \cup {p}]
    BY <1>12 DEF ReleaseOne
  <2>2. Reserved(t)' = Reserved(t) /\ held'[t] \cap rmports'[t] = {}
    BY <2>1 DEF Reserved, PortTypeOK, HeldNotQueued
  <2>3. QED BY <1>12, <2>1, <2>2, QuietStep DEF ReleaseOne, PortTypeOK, InBody, RemoverIsFirst
<1>13. CASE ReleaseAll(t)
  <2>1. Reserved(t)' = Reserved(t) /\ held'[t] \cap rmports'[t] = {}
    BY <1>13 DEF ReleaseAll, Reserved, PortTypeOK
  <2>2. QED BY <1>13, <2>1, QuietStep DEF ReleaseAll, PortTypeOK, InBody
<1>14. CASE Pass(t)
  BY <1>14, QuietStep DEF Pass, PortTypeOK, PortGoto, InBody, Reserved, HeldNotQueued
<1>15. CASE Fail(t)
  BY <1>15, QuietStep DEF Fail, PortTypeOK, PortGoto, InBody, Reserved, HeldNotQueued
<1>16. CASE CleanupPort(t)
  <2>1. PICK p \in rmports[t] : /\ file' = [file EXCEPT ![p] = << >>]
                                /\ rmports' = [rmports EXCEPT ![t] = @ \ {p}]
    BY <1>16 DEF CleanupPort
  <2>2. p \in Ports /\ HeadIsMine(t, p) /\ p \notin held[t]
    BY DEF PortTypeOK, ReservationKept, Reserved, HeldNotQueued
  <2>3. \A u, q : HeadIsMine(u, q) /\ q \in Ports /\ (u # t \/ q # p)
                    => HeadIsMine(u, q)'
    BY <2>1, <2>2, OneFirstLine DEF HeadIsMine, PortTypeOK
  <2>4. place' = place /\ portno' = portno /\ held' = held /\ place[t] = "cleanup"
    BY <1>16 DEF CleanupPort
  <2>5. ReservationKept'
    BY <2>1, <2>2, <2>3, <2>4 DEF ReservationKept, Reserved, PortTypeOK
  <2>6. RemoverIsFirst'
    BY <2>3, <2>4 DEF RemoverIsFirst, PortTypeOK, InBody
  <2>7. CandidateIsNew' /\ HeldNotQueued'
    BY <2>1, <2>4 DEF CandidateIsNew, HeldNotQueued, PortTypeOK, InBody, Reserved
  <2>8. QED BY <2>5, <2>6, <2>7
<1>17. CASE CleanupDone(t)
  BY <1>17, QuietStep DEF CleanupDone, PortTypeOK, PortGoto, InBody, Reserved, HeldNotQueued
<1>18. CASE Kill(t)
  BY <1>18, QuietStep DEF Kill, PortTypeOK, PortGoto, InBody, Reserved, HeldNotQueued, ExitShell
<1>19. QED
  BY <1>1, <1>2, <1>3, <1>4, <1>5, <1>6, <1>7, <1>8, <1>9, <1>10, <1>11,
     <1>12, <1>13, <1>14, <1>15, <1>16, <1>17, <1>18
  DEF TestStep, AcquireStep

-----------------------------------------------------------------------------
\* What NoOrphanReservation says of a port p whose first line is that of t,
\* but for its last conjunct ...
Accounted(t, p) ==
    /\ place[t] \in {"run", "loop", "append", "cleanup"} => p \in Reserved(t)
    /\ place[t] = "passed" => p \in held[t]
    /\ InBody(t) => p \in Reserved(t) \cup {portno[t]}
    /\ place[t] = "gaveup" => p \in Reserved(t) \cup {port_upperlimit}

\* ... and its last conjunct.
AtMostOneMore(t) == \E q \in Ports : FilesOf(t) \subseteq Reserved(t) \cup {q}

LEMMA OrphanParts ==
    NoOrphanReservation <=>
        \A t \in Tests : (\A p \in FilesOf(t) : Accounted(t, p)) /\ AtMostOneMore(t)
BY DEF NoOrphanReservation, Accounted, AtMostOneMore, FilesOf

\* While the file of p stays as it is, its first test stays accountable: it
\* turns away from its candidate only when the owner check at lines 79 and 88
\* of portno_acquire.csh said that it is not first.
LEMMA AccountedStep ==
    ASSUME PortTypeOK, NEW t \in Tests, TestStep(t), NEW u \in Tests, NEW p \in Ports,
           file'[p] = file[p], HeadIsMine(u, p), Accounted(u, p)
    PROVE  Accounted(u, p)'
<1> USE PortAssumption
<1>1. CASE Acquire(t)
  BY <1>1 DEF Acquire, Accounted, PortTypeOK, PortGoto, InBody, Reserved
<1>2. CASE SkipReserved(t)
  BY <1>2 DEF SkipReserved, Accounted, PortTypeOK, PortGoto, InBody, Reserved
<1>3. CASE SeeNoFile(t)
  BY <1>3 DEF SeeNoFile, Accounted, PortTypeOK, PortGoto, InBody, Reserved
<1>4. CASE AppendLine(t)
  BY <1>4 DEF AppendLine, Accounted, PortTypeOK, PortGoto, InBody, Reserved
<1>5. CASE IsPortInUse(t)
  BY <1>5 DEF IsPortInUse, Accounted, PortTypeOK, PortGoto, InBody, Reserved
<1>6. CASE CheckOwnerInUse(t)
  BY <1>6 DEF CheckOwnerInUse, Accounted, PortTypeOK, PortGoto, InBody, Reserved
<1>7. CASE RemoveFile(t)
  <2>1. p # portno[t]
    BY <1>7 DEF RemoveFile, PortTypeOK, HeadIsMine
  <2>2. QED BY <1>7, <2>1 DEF RemoveFile, Accounted, PortTypeOK, PortGoto, InBody, Reserved
<1>8. CASE LetGo(t)
  BY <1>8 DEF LetGo, Accounted, PortTypeOK, PortGoto, InBody, Reserved
<1>9. CASE PickPort(t)
  BY <1>9 DEF PickPort, Accounted, PortTypeOK, PortGoto, InBody, Reserved, EndScript
<1>10. CASE ReservedAtLimit(t)
  BY <1>10 DEF ReservedAtLimit, Accounted, PortTypeOK, PortGoto, InBody, Reserved, ExitShell, Ports
<1>11. CASE GiveUp(t)
  BY <1>11 DEF GiveUp, Accounted, PortTypeOK, PortGoto, InBody, Reserved, ExitShell
<1>12. CASE ReleaseOne(t)
  BY <1>12 DEF ReleaseOne, Accounted, PortTypeOK, PortGoto, InBody, Reserved
<1>13. CASE ReleaseAll(t)
  BY <1>13 DEF ReleaseAll, Accounted, PortTypeOK, PortGoto, InBody, Reserved
<1>14. CASE Pass(t)
  BY <1>14 DEF Pass, Accounted, PortTypeOK, PortGoto, InBody, Reserved
<1>15. CASE Fail(t)
  BY <1>15 DEF Fail, Accounted, PortTypeOK, PortGoto, InBody, Reserved
<1>16. CASE CleanupPort(t)
  <2>1. PICK x \in rmports[t] : /\ file' = [file EXCEPT ![x] = << >>]
                                /\ rmports' = [rmports EXCEPT ![t] = @ \ {x}]
    BY <1>16 DEF CleanupPort
  <2>2. p # x
    BY <2>1 DEF PortTypeOK, HeadIsMine
  <2>3. QED BY <1>16, <2>1, <2>2 DEF CleanupPort, Accounted, PortTypeOK, InBody, Reserved
<1>17. CASE CleanupDone(t)
  BY <1>17 DEF CleanupDone, Accounted, PortTypeOK, PortGoto, InBody, Reserved
<1>18. CASE Kill(t)
  BY <1>18 DEF Kill, Accounted, PortTypeOK, PortGoto, InBody, Reserved, ExitShell
<1>19. QED
  BY <1>1, <1>2, <1>3, <1>4, <1>5, <1>6, <1>7, <1>8, <1>9, <1>10, <1>11,
     <1>12, <1>13, <1>14, <1>15, <1>16, <1>17, <1>18
  DEF TestStep, AcquireStep

\* Only the append and the two removals change a reservation file.
LEMMA FileChanges ==
    ASSUME PortTypeOK, NEW t \in Tests, TestStep(t), NEW p \in Ports, file'[p] # file[p]
    PROVE  file'[p] = << >> \/ (AppendLine(t) /\ portno[t] = p)
<1>1. CASE AppendLine(t)
  BY <1>1 DEF AppendLine, PortTypeOK
<1>2. CASE RemoveFile(t)
  BY <1>2 DEF RemoveFile, PortTypeOK
<1>3. CASE CleanupPort(t)
  BY <1>3 DEF CleanupPort, PortTypeOK
<1>4. file' # file
  OBVIOUS
<1>5. QED
  BY <1>1, <1>2, <1>3, <1>4 DEF TestStep, AcquireStep, Acquire, SkipReserved, SeeNoFile,
     IsPortInUse, CheckOwnerInUse, LetGo, PickPort, ReservedAtLimit, GiveUp, ReleaseOne,
     ReleaseAll, Pass, Fail, CleanupDone, Kill

\* A test gets a reservation file only by an append to a file it did not
\* find; it loses a port, but at the end of the subtest, only with its file.
LEMMA FilesShrink ==
    ASSUME PortTypeOK, NEW t \in Tests, TestStep(t), NEW u \in Tests, NEW p \in FilesOf(u)'
    PROVE  \/ u = t /\ AppendLine(t) /\ p = portno[t]
           \/ p \in FilesOf(u) /\ (p \in Reserved(u) => p \in Reserved(u)')
<1>1. p \in Ports /\ file'[p] # << >> /\ Head(file'[p]) = u
  BY DEF FilesOf, HeadIsMine
<1>2. CASE file'[p] # file[p]
  <2>1. AppendLine(t) /\ portno[t] = p
    BY <1>1, <1>2, FileChanges
  <2>2. file'[p] = Append(file[p], t) /\ file[p] \in Seq(Tests)
    BY <1>1, <2>1 DEF AppendLine, PortTypeOK
  <2>3. CASE file[p] = << >>
    <3>1. Head(Append(<< >>, t)) = t
      OBVIOUS
    <3>2. QED BY <1>1, <2>1, <2>2, <2>3, <3>1
  <2>4. CASE file[p] # << >>
    <3>1. Head(file[p]) = u
      BY <1>1, <2>2, <2>4, AppendKeepsFirst
    <3>2. Reserved(u)' = Reserved(u)
      BY <2>1 DEF AppendLine, Reserved
    <3>3. QED BY <1>1, <2>4, <3>1, <3>2 DEF FilesOf, HeadIsMine
  <2>5. QED BY <2>3, <2>4
<1>3. CASE file'[p] = file[p]
  <2>1. p \in FilesOf(u)
    BY <1>1, <1>3 DEF FilesOf, HeadIsMine
  <2>2. ASSUME p \in Reserved(u) PROVE p \in Reserved(u)'
    <3>1. CASE PickPort(t)
      BY <2>2, <3>1 DEF PickPort, Reserved, PortTypeOK
    <3>2. CASE ReleaseOne(t)
      BY <2>2, <3>2 DEF ReleaseOne, Reserved, PortTypeOK
    <3>3. CASE ReleaseAll(t)
      BY <2>2, <3>3 DEF ReleaseAll, Reserved, PortTypeOK
    <3>4. CASE CleanupPort(t)
      <4>1. PICK x \in rmports[t] : /\ file' = [file EXCEPT ![x] = << >>]
                                    /\ rmports' = [rmports EXCEPT ![t] = @ \ {x}]
        BY <3>4 DEF CleanupPort
      <4>2. p # x
        BY <1>1, <4>1 DEF PortTypeOK
      <4>3. QED BY <2>2, <3>4, <4>1, <4>2 DEF CleanupPort, Reserved, PortTypeOK
    <3>5. CASE UNCHANGED <<held, rmports>>
      BY <2>2, <3>5 DEF Reserved
    <3>6. QED
      BY <3>1, <3>2, <3>3, <3>4, <3>5 DEF TestStep, AcquireStep, Acquire, SkipReserved, SeeNoFile,
         AppendLine, IsPortInUse, CheckOwnerInUse, RemoveFile, LetGo, ReservedAtLimit, GiveUp,
         Pass, Fail, CleanupDone, Kill
  <2>3. QED BY <2>1, <2>2
<1>4. QED BY <1>2, <1>3

\* No step leaves a reservation file behind that no port stands for.
LEMMA OrphanStep ==
    ASSUME PortTypeOK, NoOrphanReservation, PortNext PROVE NoOrphanReservation'
<1> USE PortAssumption
<1>1. PICK t \in Tests : TestStep(t)
  BY DEF PortNext
<1>2. ASSUME NEW u \in Tests, NEW p \in FilesOf(u)' PROVE Accounted(u, p)'
  <2>1. CASE AppendLine(t)
    <3>1. CASE u = t /\ p = portno[t]
      BY <2>1, <3>1 DEF Accounted, AppendLine, PortTypeOK, PortGoto, InBody
    <3>2. CASE p \in FilesOf(u)
      <4>1. Accounted(u, p)
        BY <3>2, OrphanParts
      <4>2. QED BY <2>1, <4>1 DEF Accounted, AppendLine, PortTypeOK, PortGoto, InBody, Reserved
    <3>3. QED BY <1>1, <1>2, <3>1, <3>2, FilesShrink
  <2>2. CASE ~AppendLine(t)
    <3>1. p \in FilesOf(u)
      BY <1>1, <1>2, <2>2, FilesShrink
    <3>2. p \in Ports /\ HeadIsMine(u, p) /\ Accounted(u, p)
      BY <3>1, OrphanParts DEF FilesOf
    <3>3. file'[p] = file[p]
      <4>1. file'[p] # << >>
        BY <1>2 DEF FilesOf, HeadIsMine
      <4>2. QED BY <1>1, <2>2, <3>2, <4>1, FileChanges
    <3>4. QED BY <1>1, <3>2, <3>3, AccountedStep
  <2>3. QED BY <2>1, <2>2
<1>3. ASSUME NEW u \in Tests PROVE AtMostOneMore(u)'
  <2>1. CASE u = t /\ AppendLine(t)
    <3>1. portno[t] \in Ports /\ FilesOf(t) \subseteq Reserved(t) /\ Reserved(t)' = Reserved(t)
      BY <2>1 DEF AppendLine, PortTypeOK, InBody, NoOrphanReservation, Reserved
    <3>2. FilesOf(t)' \subseteq Reserved(t)' \cup {portno[t]}
      BY <1>1, <3>1, FilesShrink
    <3>3. portno[t] \in Ports'
      BY <3>1 DEF Ports
    <3>4. QED BY <2>1, <3>2, <3>3 DEF AtMostOneMore
  <2>2. CASE ~(u = t /\ AppendLine(t))
    <3>1. PICK q \in Ports : FilesOf(u) \subseteq Reserved(u) \cup {q}
      BY OrphanParts DEF AtMostOneMore
    <3>2. FilesOf(u)' \subseteq Reserved(u)' \cup {q}
      BY <1>1, <2>2, <3>1, FilesShrink
    <3>3. QED BY <3>1, <3>2 DEF AtMostOneMore, Ports
  <2>3. QED BY <2>1, <2>2
<1>4. QED
  BY <1>2, <1>3 DEF NoOrphanReservation, Accounted, AtMostOneMore, FilesOf, InBody, Reserved

-----------------------------------------------------------------------------
\* The variables of PortReservation keep their types: in particular a
\* candidate of portno_acquire.csh is always a port of the search range.
THEOREM TypeCorrect == PortSpec => []PortTypeOK
<1>1. PortInit => PortTypeOK
  BY PortAssumption, EmptySeq DEF PortInit, PortTypeOK, InBody, Locations, Ports
<1>2. PortTypeOK /\ [PortNext]_portVars => PortTypeOK'
  <2>1. CASE UNCHANGED portVars
    BY <2>1 DEF portVars, PortTypeOK, InBody
  <2>2. QED BY <2>1, PortTypeStep
<1>3. QED BY <1>1, <1>2, PTL DEF PortSpec

\* The invariant that carries the reservations through every step.
THEOREM ReservationInvariant == PortSpec => []PortIInv
<1>1. PortInit => PortIInv
  <2>1. PortInit => PortTypeOK
    BY PortAssumption, EmptySeq DEF PortInit, PortTypeOK, InBody, Locations, Ports
  <2>2. QED
    BY <2>1 DEF PortInit, PortIInv, ReservationKept, RemoverIsFirst, CandidateIsNew, HeldNotQueued,
       InBody, Reserved
<1>2. PortIInv /\ [PortNext]_portVars => PortIInv'
  <2>1. CASE UNCHANGED portVars
    BY <2>1 DEF portVars, PortIInv, PortTypeOK, InBody, ReservationKept, RemoverIsFirst, CandidateIsNew,
       HeldNotQueued, Reserved, HeadIsMine
  <2>2. PortIInv /\ PortNext => PortIInv'
    BY PortTypeStep, ReservationStep DEF PortIInv
  <2>3. QED BY <2>1, <2>2
<1>3. QED BY <1>1, <1>2, PTL DEF PortSpec

\* The reservation file of a port a test has acquired stays in place with the
\* line of that test first, until the test removes it itself.
THEOREM ReservationsAreKept == PortSpec => []ReservationKept
<1>1. PortIInv => ReservationKept
  BY DEF PortIInv
<1>2. QED BY <1>1, ReservationInvariant, PTL

\* However the commands of portno_acquire.csh interleave, no two tests ever
\* have the same port.
THEOREM PortsAreExclusive == PortSpec => []NoSharedPort
<1>1. PortIInv => NoSharedPort
  BY OneFirstLine DEF PortIInv, ReservationKept, NoSharedPort
<1>2. QED BY <1>1, ReservationInvariant, PTL

\* Every reservation file on the host stands for a port of the test that
\* wrote it first, but for one file per test at most.
THEOREM NoOrphans == PortSpec => []NoOrphanReservation
<1>1. PortInit => NoOrphanReservation
  <2>1. ASSUME PortInit PROVE NoOrphanReservation
    <3>1. \A t \in Tests : FilesOf(t) = {}
      BY <2>1 DEF PortInit, FilesOf, HeadIsMine
    <3>2. port_upperlimit \in Ports
      BY PortAssumption DEF Ports
    <3>3. QED BY <3>1, <3>2 DEF NoOrphanReservation
  <2>2. QED BY <2>1
<1>2. PortTypeOK /\ NoOrphanReservation /\ [PortNext]_portVars => NoOrphanReservation'
  <2>1. CASE UNCHANGED portVars
    <3>1. \A t : FilesOf(t)' = FilesOf(t) /\ Reserved(t)' = Reserved(t) /\ (InBody(t)' <=> InBody(t))
      BY <2>1 DEF portVars, FilesOf, HeadIsMine, Reserved, InBody
    <3>2. QED BY <2>1, <3>1 DEF portVars, NoOrphanReservation
  <2>2. QED BY <2>1, OrphanStep
<1>3. QED BY <1>1, <1>2, TypeCorrect, PTL DEF PortSpec

-----------------------------------------------------------------------------
(* JobBarrier: label job of com/job.m                                        *)

\* From its first lock to the release a parent holds ^job<routine>; a call
\* that failed never gets to the release.
ParentHolds ==
    \A v \in Invocations \ NoLock :
        pc[v] \in {"spawn", "poll", "got", "unlock", "failed"} => v \in routine[rtn[v]]

\* A call with jnolock neither polls nor unlocks.
NoLockSkips ==
    \A v \in NoLock : pc[v] \in {"call", "spawn", "done", "failed", "ended"}

\* Before the call there are no children; until the parent is done, or ended
\* after an error, no child is past the barrier.
ChildrenWait ==
    \A v \in Invocations \ NoLock : \A i \in Jobs :
        /\ pc[v] = "call" => child[<<v, i>>] = "none"
        /\ PastBarrier(<<v, i>>) => pc[v] \in {"done", "ended"}

\* A ^%jobwait lock is held by a child that reached the barrier with this
\* jobid and index, or by a parent that probes it.
HeldByChild(d, i) ==
    \A v \in Invocations, k \in Jobs : jobwait[<<d, i>>] = <<v, k>> =>
        <<v, k>> \in reached /\ k = i /\ jobid[v] = d

HeldByParent(d, i) ==
    \A v \in Invocations : jobwait[<<d, i>>] = v =>
        pc[v] = "got" /\ <<d, i>> = <<jobid[v], index[v]>>

WaitLocks ==
    \A d \in Ids : \A i \in Jobs : HeldByChild(d, i) /\ HeldByParent(d, i)

\* In a pass of the polling loop all stays set only over children that have
\* reached the barrier, so a parent leaves the loop without the timeout
\* message only when all of them have.
PassIsRight ==
    \A v \in Invocations \ NoLock : OwnJobid(v) =>
        /\ pc[v] = "poll" /\ all[v] =>
              \A k \in Jobs : k < index[v] => <<v, k>> \in reached
        /\ pc[v] \in {"unlock", "done"} /\ ~timedout[v] =>
              \A k \in Jobs : <<v, k>> \in reached

IInv == TypeOK /\ ParentHolds /\ NoLockSkips /\ ChildrenWait /\ WaitLocks /\ PassIsRight

-----------------------------------------------------------------------------
\* Every step of ^job and of its children preserves the type invariant.
LEMMA TypeStep == ASSUME TypeOK, Next PROVE TypeOK'
<1> USE JobAssumption DEF Jobs, Children
<1>1. ASSUME NEW v \in Invocations, ParentStep(v) PROVE TypeOK'
  <2>1. CASE LockRoutine(v)
    BY <2>1 DEF LockRoutine, TypeOK, Goto
  <2>2. CASE SkipLock(v)
    BY <2>2 DEF SkipLock, TypeOK, Goto
  <2>3. CASE JobCommand(v)
    <3>1. index' \in [Invocations -> Jobs]
      <4> DEFINE next == IF index[v] = njobs THEN 1 ELSE index[v] + 1
      <4>1. index' = [index EXCEPT ![v] = next] /\ index \in [Invocations -> Jobs]
        BY <2>3 DEF JobCommand, TypeOK
      <4>2. index[v] \in 1 .. njobs
        BY <4>1
      <4>3. next \in Jobs
        BY <4>2
      <4> HIDE DEF next
      <4> QED BY <4>1, <4>3
    <3>2. pc' \in [Invocations -> {"call", "spawn", "poll", "got", "unlock", "done", "failed", "ended"}]
      BY <2>3 DEF JobCommand, TypeOK, Goto
    <3>3. child' \in [Children -> {"none", "started", "ready", "go", "running", "dead"}]
      BY <2>3 DEF JobCommand, TypeOK
    <3>4. all' \in [Invocations -> BOOLEAN]
      BY <2>3 DEF JobCommand, TypeOK
    <3>5. QED BY <2>3, <3>1, <3>2, <3>3, <3>4 DEF JobCommand, TypeOK
  <2>4. ASSUME NEW ok \in BOOLEAN, NextPoll(v, ok)
        PROVE  /\ pc' \in [Invocations -> {"call", "spawn", "poll", "got", "unlock", "done",
                                          "failed", "ended"}]
               /\ index' \in [Invocations -> Jobs]
               /\ all' \in [Invocations -> BOOLEAN]
               /\ try' \in [Invocations -> 1 .. MaxTries]
               /\ timedout' \in [Invocations -> BOOLEAN]
    <3>1. pc' \in [Invocations -> {"call", "spawn", "poll", "got", "unlock", "done", "failed", "ended"}]
      BY <2>4 DEF NextPoll, TypeOK, Goto
    <3>2. index' \in [Invocations -> Jobs]
      <4>1. index \in [Invocations -> Jobs]
        BY DEF TypeOK
      <4>2. CASE index' = [index EXCEPT ![v] = 1]
        BY ONLY <4>1, <4>2, JobAssumption DEF Jobs
      <4>3. CASE index[v] < njobs /\ index' = [index EXCEPT ![v] = @ + 1]
        BY ONLY <4>1, <4>3, JobAssumption DEF Jobs
      <4>4. CASE index' = index
        BY ONLY <4>1, <4>4
      <4>5. QED BY <2>4, <4>2, <4>3, <4>4 DEF NextPoll
    <3>3. all' \in [Invocations -> BOOLEAN]
      BY <2>4, Zenon DEF NextPoll, TypeOK
    <3>4. try' \in [Invocations -> 1 .. MaxTries]
      <4>1. CASE try' = try
        BY <4>1 DEF TypeOK
      <4>2. CASE try[v] < MaxTries /\ try' = [try EXCEPT ![v] = @ + 1]
        BY <4>2 DEF TypeOK
      <4>3. QED BY <2>4, <4>1, <4>2 DEF NextPoll
    <3>5. timedout' \in [Invocations -> BOOLEAN]
      BY <2>4, Zenon DEF NextPoll, TypeOK
    <3>6. QED BY <3>1, <3>2, <3>3, <3>4, <3>5
  <2>5. <<jobid[v], index[v]>> \in Ids \X Jobs /\ all[v] \in BOOLEAN
    BY DEF TypeOK
  <2>6. CASE TryLockGot(v)
    BY <2>5, <2>6 DEF TryLockGot, Poll, TypeOK, Goto
  <2>7. CASE TryLockFailed(v)
    BY <2>4, <2>5, <2>7 DEF TryLockFailed, TypeOK
  <2>8. CASE ReleaseProbe(v)
    BY <2>4, <2>5, <2>8 DEF ReleaseProbe, Poll, TypeOK
  <2>9. CASE UnlockRoutine(v)
    BY <2>9 DEF UnlockRoutine, TypeOK, Goto
  <2>10. QED
    BY <1>1, <2>1, <2>2, <2>3, <2>6, <2>7, <2>8, <2>9 DEF ParentStep
<1>4. ASSUME NEW v \in Invocations, JobFails(v) PROVE TypeOK'
  BY <1>4 DEF JobFails, TypeOK, Goto
<1>5. ASSUME NEW v \in Invocations, ProcessEnds(v) PROVE TypeOK'
  BY <1>5 DEF ProcessEnds, TypeOK
<1>2. ASSUME NEW c \in Children, ChildStep(c) \/ ChildDie(c) PROVE TypeOK'
  <2>1. <<jobid[c[1]], c[2]>> \in Ids \X Jobs
    OBVIOUS
  <2>2. CASE ChildReady(c)
    BY <2>1, <2>2 DEF ChildReady, Wait, TypeOK, parentVars
  <2>3. CASE ChildGo(c)
    BY <2>3 DEF ChildGo, TypeOK, parentVars
  <2>4. CASE ChildRun(c)
    BY <2>4 DEF ChildRun, DropLocks, TypeOK, parentVars
  <2>5. CASE ChildRunNoLock(c)
    BY <2>5 DEF ChildRunNoLock, TypeOK, parentVars
  <2>6. CASE ChildDie(c)
    BY <2>6 DEF ChildDie, DropLocks, TypeOK, parentVars
  <2>7. QED BY <1>2, <2>2, <2>3, <2>4, <2>5, <2>6 DEF ChildStep
<1>3. QED BY <1>1, <1>2, <1>4, <1>5 DEF Next

-----------------------------------------------------------------------------
(* The parent keeps its lock until it is done, or ends after an error.     *)
LEMMA ParentHoldsStep == ASSUME IInv, Next PROVE ParentHolds' /\ NoLockSkips'
<1> USE JobAssumption DEF IInv, TypeOK, ParentHolds, NoLockSkips
<1>1. ASSUME NEW u \in Invocations, ParentStep(u) PROVE ParentHolds' /\ NoLockSkips'
  <2>1. CASE LockRoutine(u)
    BY <2>1 DEF LockRoutine, Goto
  <2>2. CASE SkipLock(u)
    BY <2>2 DEF SkipLock, Goto
  <2>3. CASE JobCommand(u)
    BY <2>3 DEF JobCommand, Goto
  <2>4. CASE TryLockGot(u)
    BY <2>4 DEF TryLockGot, Goto
  <2>5. CASE TryLockFailed(u)
    <3>1. routine' = routine /\ pc[u] = "poll" /\ \E l \in {"poll", "unlock"} : Goto(u, l)
      BY <2>5 DEF TryLockFailed, NextPoll
    <3>2. QED BY <3>1 DEF Goto
  <2>6. CASE ReleaseProbe(u)
    <3>1. routine' = routine /\ pc[u] = "got" /\ \E l \in {"poll", "unlock"} : Goto(u, l)
      BY <2>6 DEF ReleaseProbe, NextPoll
    <3>2. QED BY <3>1 DEF Goto
  <2>7. CASE UnlockRoutine(u)
    BY <2>7 DEF UnlockRoutine, Goto
  <2>8. QED
    BY <1>1, <2>1, <2>2, <2>3, <2>4, <2>5, <2>6, <2>7 DEF ParentStep
<1>2. ASSUME NEW c \in Children, ChildStep(c) \/ ChildDie(c)
      PROVE  ParentHolds' /\ NoLockSkips'
  BY <1>2 DEF ChildStep, ChildReady, ChildGo, ChildRun, ChildRunNoLock, ChildDie, parentVars
<1>3. ASSUME NEW u \in Invocations, JobFails(u) PROVE ParentHolds' /\ NoLockSkips'
  BY <1>3 DEF JobFails, Goto
<1>4. ASSUME NEW u \in Invocations, ProcessEnds(u) PROVE ParentHolds' /\ NoLockSkips'
  BY <1>4 DEF ProcessEnds
<1>5. QED BY <1>1, <1>2, <1>3, <1>4 DEF Next

(* The lock of the parent is what holds the children back.                 *)
LEMMA ChildrenWaitStep == ASSUME IInv, Next PROVE ChildrenWait'
<1> USE JobAssumption DEF IInv, TypeOK, ChildrenWait, PastBarrier
<1> SUFFICES ASSUME NEW v \in Invocations \ NoLock, NEW i \in Jobs
             PROVE  /\ pc'[v] = "call" => child'[<<v, i>>] = "none"
                    /\ child'[<<v, i>>] \in {"go", "running"} => pc'[v] \in {"done", "ended"}
  OBVIOUS
<1>0. <<v, i>> \in Children
  BY DEF Children
<1>1. ASSUME NEW u \in Invocations, ParentStep(u)
      PROVE  /\ pc'[v] = "call" => child'[<<v, i>>] = "none"
             /\ child'[<<v, i>>] \in {"go", "running"} => pc'[v] \in {"done", "ended"}
  <2>1. CASE JobCommand(u)
    <3>1. <<u, index[u]>> \in Children
      BY DEF Children
    <3>2. CASE u = v
      BY <2>1, <3>1, <3>2, <1>0 DEF JobCommand, Goto
    <3>3. CASE u # v
      BY <2>1, <3>1, <3>3, <1>0 DEF JobCommand, Goto
    <3>4. QED BY <3>2, <3>3
  <2>2. CASE ~JobCommand(u)
    <3>1. child' = child
      BY <1>1, <2>2 DEF ParentStep, LockRoutine, SkipLock, TryLockGot, TryLockFailed,
                        ReleaseProbe, UnlockRoutine
    <3>2. pc'[v] = "call" => pc[v] = "call"
      BY <1>1, <2>2 DEF ParentStep, LockRoutine, SkipLock, TryLockGot, TryLockFailed,
                        ReleaseProbe, UnlockRoutine, NextPoll, Goto
    <3>3. pc[v] \in {"done", "ended"} => pc'[v] = pc[v]
      BY <1>1, <2>2 DEF ParentStep, LockRoutine, SkipLock, TryLockGot, TryLockFailed,
                        ReleaseProbe, UnlockRoutine, NextPoll, Goto
    <3>4. QED BY <3>1, <3>2, <3>3, <1>0
  <2>3. QED BY <2>1, <2>2
<1>2. ASSUME NEW c \in Children, ChildStep(c) \/ ChildDie(c)
      PROVE  /\ pc'[v] = "call" => child'[<<v, i>>] = "none"
             /\ child'[<<v, i>>] \in {"go", "running"} => pc'[v] \in {"done", "ended"}
  <2>1. pc' = pc
    BY <1>2 DEF ChildStep, ChildReady, ChildGo, ChildRun, ChildRunNoLock, ChildDie, parentVars
  <2>2. CASE c # <<v, i>>
    <3>1. child'[<<v, i>>] = child[<<v, i>>]
      BY <1>0, <1>2, <2>2 DEF ChildStep, ChildReady, ChildGo, ChildRun, ChildRunNoLock, ChildDie
    <3>2. QED BY <2>1, <3>1, <1>0
  <2>3. CASE c = <<v, i>> /\ ChildGo(c)
    <3>1. routine[rtn[v]] = {} /\ child[c] = "ready"
      BY <2>3 DEF ChildGo
    <3>2. pc[v] \in {"done", "ended"}
      BY <3>1, <2>3 DEF ParentHolds
    <3>3. QED BY <2>1, <3>2
  <2>4. CASE c = <<v, i>> /\ ~ChildGo(c)
    <3>1. pc[v] # "call"
      BY <1>0, <1>2, <2>4 DEF ChildStep, ChildReady, ChildGo, ChildRun, ChildRunNoLock, ChildDie
    <3>2. child'[c] = "running" => child[c] = "go"
      BY <1>0, <1>2, <2>4 DEF ChildStep, ChildReady, ChildRun, ChildRunNoLock, ChildDie
    <3>3. child'[c] # "go"
      BY <1>0, <1>2, <2>4 DEF ChildStep, ChildReady, ChildRun, ChildRunNoLock, ChildDie
    <3>4. QED BY <1>0, <2>1, <2>4, <3>1, <3>2, <3>3
  <2>5. QED BY <2>2, <2>3, <2>4
<1>3. ASSUME NEW u \in Invocations, JobFails(u) \/ ProcessEnds(u)
      PROVE  /\ pc'[v] = "call" => child'[<<v, i>>] = "none"
             /\ child'[<<v, i>>] \in {"go", "running"} => pc'[v] \in {"done", "ended"}
  <2>1. child' = child
    BY <1>3 DEF JobFails, ProcessEnds
  <2>2. (pc'[v] = "call" => pc[v] = "call") /\ (pc[v] \in {"done", "ended"} => pc'[v] = pc[v])
    BY <1>3 DEF JobFails, ProcessEnds, Goto
  <2>3. QED BY <2>1, <2>2, <1>0
<1>4. QED BY <1>1, <1>2, <1>3 DEF Next

(* A failed probe of a ^%jobwait lock is about a child of the same call,   *)
(* when no other call has the jobid.                                       *)
LEMMA FailedProbe ==
  ASSUME IInv, NEW v \in Invocations, OwnJobid(v), TryLockFailed(v)
  PROVE  <<v, index[v]>> \in reached
<1> USE JobAssumption DEF IInv, TypeOK
<1>1. jobid[v] \in Ids /\ index[v] \in Jobs /\ <<jobid[v], index[v]>> \in Ids \X Jobs
  OBVIOUS
<1>2. PICK h \in Invocations \cup Children : jobwait[<<jobid[v], index[v]>>] = h
  BY <1>1 DEF TryLockFailed, Poll
<1>3. CASE h \in Invocations
  <2>1. pc[h] = "got" /\ <<jobid[v], index[v]>> = Poll(h)
    BY <1>1, <1>2, <1>3 DEF WaitLocks, HeldByParent, Poll
  <2>2. h = v
    BY <1>3, <2>1 DEF Poll, OwnJobid
  <2>3. QED BY <2>1, <2>2 DEF TryLockFailed
<1>4. CASE h \in Children
  <2>1. PICK u \in Invocations, k \in Jobs : h = <<u, k>>
    BY <1>4 DEF Children
  <2>2. <<u, k>> \in reached /\ k = index[v] /\ jobid[u] = jobid[v]
    <3>1. jobwait[<<jobid[v], index[v]>>] = <<u, k>>
      BY <1>2, <2>1
    <3>2. HeldByChild(jobid[v], index[v])
      BY <1>1 DEF WaitLocks
    <3>3. QED BY <3>1, <3>2 DEF HeldByChild
  <2>3. QED BY <2>2 DEF OwnJobid
<1>5. QED BY <1>2, <1>3, <1>4

\* ^%jobwait locks change hands only between probing parents and children
\* that reach the barrier.
LEMMA WaitLocksStep == ASSUME IInv, Next PROVE WaitLocks'
<1> USE JobAssumption DEF IInv, TypeOK
<1> SUFFICES ASSUME NEW d \in Ids, NEW i \in Jobs
             PROVE  /\ \A v \in Invocations, k \in Jobs : jobwait'[<<d, i>>] = <<v, k>> =>
                          <<v, k>> \in reached' /\ k = i /\ jobid[v] = d
                    /\ \A v \in Invocations : jobwait'[<<d, i>>] = v =>
                          pc'[v] = "got" /\ <<d, i>> = <<jobid[v], index'[v]>>
  BY DEF WaitLocks, HeldByChild, HeldByParent
<1>0. /\ <<d, i>> \in Ids \X Jobs
      /\ \A v \in Invocations, k \in Jobs : <<v, k>> \in Children /\ <<v, k>> \notin Invocations
      /\ \A v \in Invocations : v # Nobody
      /\ \A v \in Invocations, k \in Jobs : <<v, k>> # Nobody
  BY DEF Children
<1>1. /\ \A v \in Invocations, k \in Jobs : jobwait[<<d, i>>] = <<v, k>> =>
            <<v, k>> \in reached /\ k = i /\ jobid[v] = d
      /\ \A v \in Invocations : jobwait[<<d, i>>] = v =>
            pc[v] = "got" /\ <<d, i>> = <<jobid[v], index[v]>>
  <2>1. HeldByChild(d, i) /\ HeldByParent(d, i)
    BY DEF WaitLocks
  <2>2. QED BY ONLY <2>1 DEF HeldByChild, HeldByParent
<1>2. ASSUME NEW u \in Invocations, ParentStep(u)
      PROVE  /\ \A v \in Invocations, k \in Jobs : jobwait'[<<d, i>>] = <<v, k>> =>
                   <<v, k>> \in reached' /\ k = i /\ jobid[v] = d
             /\ \A v \in Invocations : jobwait'[<<d, i>>] = v =>
                   pc'[v] = "got" /\ <<d, i>> = <<jobid[v], index'[v]>>
  <2>0. <<jobid[u], index[u]>> \in Ids \X Jobs
    OBVIOUS
  <2>1. CASE TryLockGot(u)
    <3>1. reached' = reached /\ index' = index /\ pc'[u] = "got"
      BY <2>1 DEF TryLockGot, Goto
    <3>2. \A v \in Invocations : pc[v] = "got" => pc'[v] = "got"
      BY <2>1 DEF TryLockGot, Goto
    <3>3. CASE <<d, i>> = <<jobid[u], index[u]>>
      <4>1. jobwait'[<<d, i>>] = u
        BY <1>0, <2>1, <3>3 DEF TryLockGot, Poll
      <4>2. QED BY <1>0, <3>1, <3>3, <4>1
    <3>4. CASE <<d, i>> # <<jobid[u], index[u]>>
      <4>1. jobwait'[<<d, i>>] = jobwait[<<d, i>>]
        BY <1>0, <2>0, <2>1, <3>4 DEF TryLockGot, Poll
      <4>2. QED BY <1>1, <3>1, <3>2, <4>1, Zenon
    <3>5. QED BY <3>3, <3>4
  <2>2. CASE ReleaseProbe(u)
    <3>1. CASE <<d, i>> = <<jobid[u], index[u]>>
      BY <1>0, <2>0, <2>2, <3>1 DEF ReleaseProbe, Poll
    <3>2. CASE <<d, i>> # <<jobid[u], index[u]>>
      <4>1. jobwait'[<<d, i>>] = jobwait[<<d, i>>] /\ reached' = reached
        BY <1>0, <2>0, <2>2, <3>2 DEF ReleaseProbe, Poll
      <4>2. jobwait[<<d, i>>] # u
        BY <1>1, <3>2
      <4>3. \A v \in Invocations : v # u => pc'[v] = pc[v] /\ index'[v] = index[v]
        BY <2>2 DEF ReleaseProbe, NextPoll, Goto
      <4>4. QED BY ONLY <1>1, <4>1, <4>2, <4>3, u \in Invocations
    <3>3. QED BY <3>1, <3>2
  <2>3. CASE ~TryLockGot(u) /\ ~ReleaseProbe(u)
    <3>1. jobwait' = jobwait /\ reached' = reached
      BY <1>2, <2>3 DEF ParentStep, LockRoutine, SkipLock, JobCommand, TryLockFailed, UnlockRoutine
    <3>2. pc[u] # "got"
      BY <1>2, <2>3 DEF ParentStep, LockRoutine, SkipLock, JobCommand, TryLockFailed, UnlockRoutine
    <3>3. \A v \in Invocations : v # u => pc'[v] = pc[v] /\ index'[v] = index[v]
      BY <1>2, <2>3 DEF ParentStep, LockRoutine, SkipLock, JobCommand, TryLockFailed,
                        UnlockRoutine, NextPoll, Goto
    <3>4. QED BY <1>1, <3>1, <3>2, <3>3
  <2>4. QED BY <2>1, <2>2, <2>3
<1>3. ASSUME NEW c \in Children, ChildStep(c) \/ ChildDie(c)
      PROVE  /\ \A v \in Invocations, k \in Jobs : jobwait'[<<d, i>>] = <<v, k>> =>
                   <<v, k>> \in reached' /\ k = i /\ jobid[v] = d
             /\ \A v \in Invocations : jobwait'[<<d, i>>] = v =>
                   pc'[v] = "got" /\ <<d, i>> = <<jobid[v], index'[v]>>
  <2>1. pc' = pc /\ index' = index
    BY <1>3 DEF ChildStep, ChildReady, ChildGo, ChildRun, ChildRunNoLock, ChildDie, parentVars
  <2>2. CASE ChildReady(c)
    <3>1. PICK w \in Invocations, m \in Jobs : c = <<w, m>>
      BY DEF Children
    <3>2. Wait(c) = <<jobid[w], m>> /\ Wait(c) \in Ids \X Jobs
      BY <3>1 DEF Wait
    <3>3. reached' = reached \cup {<<w, m>>}
      BY <2>2, <3>1 DEF ChildReady
    <3>4. CASE <<d, i>> = Wait(c)
      <4>1. jobwait'[<<d, i>>] = <<w, m>>
        BY <2>2, <3>1, <3>2, <3>4 DEF ChildReady
      <4>2. QED BY <1>0, <3>2, <3>3, <3>4, <4>1
    <3>5. CASE <<d, i>> # Wait(c)
      <4>1. jobwait'[<<d, i>>] = jobwait[<<d, i>>]
        BY <1>0, <2>2, <3>2, <3>5 DEF ChildReady
      <4>2. QED BY <1>1, <2>1, <3>3, <4>1
    <3>6. QED BY <3>4, <3>5
  <2>3. CASE ~ChildReady(c)
    <3>1. reached' = reached
      BY <1>3, <2>3 DEF ChildStep, ChildGo, ChildRun, ChildRunNoLock, ChildDie
    <3>2. jobwait'[<<d, i>>] = jobwait[<<d, i>>] \/ jobwait'[<<d, i>>] = Nobody
      BY <1>0, <1>3, <2>3 DEF ChildStep, ChildGo, ChildRun, ChildRunNoLock, ChildDie, DropLocks
    <3>3. CASE jobwait'[<<d, i>>] = jobwait[<<d, i>>]
      BY <1>1, <2>1, <3>1, <3>3, Zenon
    <3>4. CASE jobwait'[<<d, i>>] = Nobody
      BY <1>0, <3>4, Zenon
    <3>5. QED BY <3>2, <3>3, <3>4
  <2>4. QED BY <2>2, <2>3
<1>4. ASSUME NEW u \in Invocations, JobFails(u) \/ ProcessEnds(u)
      PROVE  /\ \A v \in Invocations, k \in Jobs : jobwait'[<<d, i>>] = <<v, k>> =>
                   <<v, k>> \in reached' /\ k = i /\ jobid[v] = d
             /\ \A v \in Invocations : jobwait'[<<d, i>>] = v =>
                   pc'[v] = "got" /\ <<d, i>> = <<jobid[v], index'[v]>>
  <2>1. jobwait' = jobwait /\ reached' = reached /\ index' = index
    BY <1>4 DEF JobFails, ProcessEnds
  <2>2. \A v \in Invocations : pc[v] = "got" => pc'[v] = "got"
    BY <1>4 DEF JobFails, ProcessEnds, CallerIsFree, Goto
  <2>3. QED BY <1>1, <2>1, <2>2, Zenon
<1>5. QED BY <1>2, <1>3, <1>4 DEF Next

(* What the polling loop of an own jobid establishes.                      *)
LEMMA PassIsRightStep == ASSUME IInv, Next PROVE PassIsRight'
<1> USE JobAssumption DEF IInv, TypeOK
<1> SUFFICES ASSUME NEW v \in Invocations \ NoLock, OwnJobid(v)
             PROVE  /\ pc'[v] = "poll" /\ all'[v] =>
                          \A k \in Jobs : k < index'[v] => <<v, k>> \in reached'
                    /\ pc'[v] \in {"unlock", "done"} /\ ~timedout'[v] =>
                          \A k \in Jobs : <<v, k>> \in reached'
  BY DEF PassIsRight, OwnJobid
<1>0. /\ pc[v] = "poll" /\ all[v] =>
            \A k \in Jobs : k < index[v] => <<v, k>> \in reached
      /\ pc[v] \in {"unlock", "done"} /\ ~timedout[v] =>
            \A k \in Jobs : <<v, k>> \in reached
  BY DEF PassIsRight
<1>1. reached \subseteq reached'
  BY DEF Next, ParentStep, LockRoutine, SkipLock, JobCommand, TryLockGot, TryLockFailed,
         ReleaseProbe, UnlockRoutine, JobFails, ProcessEnds, ChildStep, ChildReady, ChildGo,
         ChildRun, ChildRunNoLock, ChildDie
<1>2. CASE pc'[v] = pc[v] /\ all'[v] = all[v] /\ index'[v] = index[v] /\ timedout'[v] = timedout[v]
  BY <1>0, <1>1, <1>2
<1>3. CASE ParentStep(v)
  <2>1. CASE LockRoutine(v) \/ SkipLock(v) \/ TryLockGot(v)
    <3>1. pc'[v] \in {"spawn", "got"}
      BY <2>1 DEF LockRoutine, SkipLock, TryLockGot, Goto
    <3>2. QED BY <3>1
  <2>2. CASE JobCommand(v)
    <3>1. pc'[v] = "spawn" \/ (pc'[v] = "poll" /\ index'[v] = 1)
      BY <2>2 DEF JobCommand, Goto
    <3>2. \A k \in Jobs : ~(k < 1)
      BY DEF Jobs
    <3>3. QED BY <3>1, <3>2
  <2>3. CASE UnlockRoutine(v)
    BY <1>0, <2>3 DEF UnlockRoutine, Goto
  <2>4. ASSUME NEW ok \in BOOLEAN, NextPoll(v, ok),
               ok => \A k \in Jobs : k <= index[v] => <<v, k>> \in reached
        PROVE  /\ pc'[v] = "poll" /\ all'[v] =>
                     \A k \in Jobs : k < index'[v] => <<v, k>> \in reached'
               /\ pc'[v] \in {"unlock", "done"} /\ ~timedout'[v] =>
                     \A k \in Jobs : <<v, k>> \in reached'
    <3>1. CASE /\ index[v] < njobs /\ pc' = [pc EXCEPT ![v] = "poll"]
               /\ index' = [index EXCEPT ![v] = @ + 1] /\ all' = [all EXCEPT ![v] = ok]
      BY <1>1, <2>4, <3>1 DEF Jobs
    <3>2. CASE pc' = [pc EXCEPT ![v] = "poll"] /\ index' = [index EXCEPT ![v] = 1]
      BY <3>2 DEF Jobs
    <3>3. CASE /\ index[v] = njobs /\ pc' = [pc EXCEPT ![v] = "unlock"]
               /\ timedout' = [timedout EXCEPT ![v] = ~ok]
      <4>1. pc'[v] = "unlock" /\ (~timedout'[v] => ok)
        BY <3>3
      <4>2. \A k \in Jobs : k <= index[v]
        BY <3>3 DEF Jobs
      <4>3. QED BY <1>1, <2>4, <4>1, <4>2, Zenon
    <3>4. QED BY <2>4, <3>1, <3>2, <3>3 DEF NextPoll, Goto
  <2>5. CASE TryLockFailed(v)
    <3>1. <<v, index[v]>> \in reached
      BY <2>5, FailedProbe
    <3>2. all[v] => \A k \in Jobs : k <= index[v] => <<v, k>> \in reached
      BY <1>0, <2>5, <3>1 DEF TryLockFailed, Jobs
    <3>3. all[v] \in BOOLEAN /\ NextPoll(v, all[v])
      BY <2>5 DEF TryLockFailed
    <3>4. QED BY <2>4, <3>2, <3>3
  <2>6. CASE ReleaseProbe(v)
    BY <2>4, <2>6 DEF ReleaseProbe
  <2>7. QED BY <1>3, <2>1, <2>2, <2>3, <2>5, <2>6 DEF ParentStep
<1>4. ASSUME NEW u \in Invocations, u # v, ParentStep(u)
      PROVE  pc'[v] = pc[v] /\ all'[v] = all[v] /\ index'[v] = index[v] /\ timedout'[v] = timedout[v]
  BY <1>4 DEF ParentStep, LockRoutine, SkipLock, JobCommand, TryLockGot, TryLockFailed,
              ReleaseProbe, UnlockRoutine, NextPoll, Goto
<1>5. ASSUME NEW c \in Children, ChildStep(c) \/ ChildDie(c)
      PROVE  pc'[v] = pc[v] /\ all'[v] = all[v] /\ index'[v] = index[v] /\ timedout'[v] = timedout[v]
  BY <1>5 DEF ChildStep, ChildReady, ChildGo, ChildRun, ChildRunNoLock, ChildDie, parentVars
<1>6. ASSUME NEW u \in Invocations, JobFails(u) \/ ProcessEnds(u)
      PROVE  /\ pc'[v] = pc[v] \/ pc'[v] \in {"failed", "ended"}
             /\ all'[v] = all[v] /\ index'[v] = index[v] /\ timedout'[v] = timedout[v]
  BY <1>6 DEF JobFails, ProcessEnds, Goto
<1>7. CASE pc'[v] \in {"failed", "ended"}
  BY <1>7
<1>8. QED BY <1>2, <1>3, <1>4, <1>5, <1>6, <1>7 DEF Next

-----------------------------------------------------------------------------
\* Before the first call of ^job the invariant holds.
LEMMA InitHolds == Init => IInv
<1> USE JobAssumption DEF Init, Jobs, Children
<1>1. Init => TypeOK
  BY DEF TypeOK
<1>2. Init => ParentHolds /\ NoLockSkips
  BY DEF ParentHolds, NoLockSkips
<1>3. Init => ChildrenWait
  BY DEF ChildrenWait, PastBarrier
<1>4. Init => WaitLocks
  BY DEF WaitLocks, HeldByChild, HeldByParent
<1>5. Init => PassIsRight
  BY DEF PassIsRight
<1>6. QED BY <1>1, <1>2, <1>3, <1>4, <1>5 DEF IInv

\* Every step of ^job and of its children preserves the invariant.
LEMMA StepHolds == IInv /\ [Next]_vars => IInv'
<1>1. ASSUME IInv, Next PROVE IInv'
  BY <1>1, TypeStep, ParentHoldsStep, ChildrenWaitStep, WaitLocksStep, PassIsRightStep DEF IInv
<1>2. ASSUME IInv, UNCHANGED vars PROVE IInv'
  BY <1>2 DEF IInv, vars, TypeOK, ParentHolds, NoLockSkips, ChildrenWait, PastBarrier, WaitLocks,
              HeldByChild, HeldByParent, PassIsRight, OwnJobid
<1>3. QED BY <1>1, <1>2

(* The inductive invariant of the start barrier of ^job.                   *)
THEOREM BarrierInvariant == Spec => []IInv
BY InitHolds, StepHolds, PTL DEF Spec

(* Type correctness of the model of label job and label threadparm.        *)
THEOREM JobTypeCorrect == Spec => []TypeOK
<1>1. IInv => TypeOK
  BY DEF IInv
<1>2. QED BY <1>1, BarrierInvariant, PTL

(* A call of ^job that has its jobid for itself starts its children        *)
(* together, for any number of calls and children, whichever die and       *)
(* whichever JOB command fails.                                            *)
THEOREM StartTogether == Spec => []BarrierWithJobid
<1>1. IInv => BarrierWithJobid
  BY DEF IInv, ChildrenWait, PassIsRight, BarrierWithJobid, StartedTogether
<1>2. QED BY <1>1, BarrierInvariant, PTL
=============================================================================
