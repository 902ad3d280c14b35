--------------------------- MODULE PortReservation ---------------------------
(***************************************************************************)
(* The port reservation protocol of com/portno_acquire.csh,                *)
(* com/portno_release.csh and the cleanup of com/subtest_helperlogs.csh.   *)
(*                                                                         *)
(* Tests that run at the same time on one host agree on who uses which TCP *)
(* port through files /tmp/test_<port>.txt.  A test looks whether the file *)
(* exists, appends its own line, looks whether the port is in use, and     *)
(* only then reads the first line back: each of these is a separate        *)
(* command, so the steps of several tests interleave between them.  The    *)
(* ports of a subtest are removed when it ends, and only if it passed.     *)
(*                                                                         *)
(* A test stands for one line "$$ $tst_working_dir": the pid and the       *)
(* directory that the owner test of the script compares.                   *)
(***************************************************************************)
EXTENDS Naturals, Sequences, FiniteSets

CONSTANTS
    Tests,             \* the tests that run on this host
    port_start,        \* first port number of this user's range
    port_max,          \* last port number of this user's range
    port_upperlimit,   \* no port is handed out from this number on
    StartSpan,         \* number of the random first candidates (10)
    MaxPorts           \* bound: ports a test acquires in one subtest

\* The ranges the script computes are not empty and the search starts inside
\* them; the upper limit lies above the range.
ASSUME PortAssumption ==
    /\ port_start \in Nat /\ port_max \in Nat /\ port_upperlimit \in Nat
    /\ StartSpan \in Nat \ {0} /\ MaxPorts \in Nat
    /\ port_start < port_max
    /\ port_start + StartSpan <= port_upperlimit
    /\ port_max < port_upperlimit

VARIABLES
    file,          \* file[p]: the lines of /tmp/test_p.txt, << >> when there is no file
    place,            \* place[t]: where test t is
    portno,        \* portno[t]: shell variable portno
    second_round,  \* second_round[t]: shell variable second_round is set
    held,          \* held[t]: ports in the portno files of t (portno, portno_supp, ...)
    rmports        \* rmports[t]: ports in the delete_reserved_portfiles.csh of t

portVars == <<file, place, portno, second_round, held, rmports>>

\* The port numbers the search can reach.
Ports == (port_start + 1) .. port_upperlimit

\* Where a test can be: "run" is outside portno_acquire.csh, "loop" at the
\* head of the while loop, the next five inside its body; "gaveup" after
\* the script returned -1; "cleanup" sources delete_reserved_portfiles.csh;
\* "passed" and "failed" are the ends of the subtest.
Locations == {"run", "loop", "append", "probe", "inuse", "remove", "unused",
              "gaveup", "cleanup", "passed", "failed"}

PortInit ==
    /\ file = [p \in Ports |-> << >>]
    /\ place = [t \in Tests |-> "run"]
    /\ portno = [t \in Tests |-> port_start]
    /\ second_round = [t \in Tests |-> FALSE]
    /\ held = [t \in Tests |-> {}]
    /\ rmports = [t \in Tests |-> {}]

-----------------------------------------------------------------------------
\* Mutant: a file that exists is taken for one's own.
HeadIsMineIfThere(t, p) == file[p] # << >>

\* head -n 1 of the reservation file of p is the line of t.  A file that is
\* gone makes head fail, and grep then finds nothing.
HeadIsMine(t, p) == file[p] # << >> /\ Head(file[p]) = t

\* The ports a test has acquired and whose reservation it has not removed.
Reserved(t) == held[t] \cup rmports[t]

PortGoto(t, l) == place' = [place EXCEPT ![t] = l]

\* The shell that ran portno_acquire.csh ends, and its variables with it.
ExitShell(t) ==
    /\ portno' = [portno EXCEPT ![t] = port_start]
    /\ second_round' = [second_round EXCEPT ![t] = FALSE]

\* The script comes to its end.  A test that sourced it (socdevice.csh of
\* socket/u_inref does, twice) keeps second_round for its next search; one
\* that ran it in a shell of its own ($MSR RUN, $sec_shell) does not.  portno
\* is not read again before the next search sets it.
EndScript(t) ==
    /\ portno' = [portno EXCEPT ![t] = port_start]
    /\ \E sourced \in BOOLEAN :
          second_round' = [second_round EXCEPT ![t] = @ /\ sourced]

-----------------------------------------------------------------------------
(* portno_acquire.csh *)

\* The script is started: the first candidate is random, near port_start.
Acquire(t) ==
    /\ place[t] = "run"
    /\ Cardinality(Reserved(t)) < MaxPorts
    /\ \E first \in port_start .. (port_start + StartSpan - 1) :
          portno' = [portno EXCEPT ![t] = first]
    /\ PortGoto(t, "loop")
    /\ UNCHANGED <<file, second_round, held, rmports>>

\* Mutant: second_round is never set.
SkipReservedForever(t) ==
    LET p == portno[t] + 1
    IN /\ place[t] = "loop"
       /\ portno[t] < port_upperlimit
       /\ file[p] # << >>
       /\ portno' = [portno EXCEPT ![t] = IF p >= port_max THEN port_start ELSE p]
       /\ UNCHANGED <<file, place, second_round, held, rmports>>

\* Mutant: the restart is one below the range.
SkipReservedBelow(t) ==
    LET p == portno[t] + 1
        wrap == ~second_round[t] /\ p >= port_max
    IN /\ place[t] = "loop"
       /\ portno[t] < port_upperlimit
       /\ file[p] # << >>
       /\ portno' = [portno EXCEPT ![t] = IF wrap THEN port_start - 1 ELSE p]
       /\ second_round' = [second_round EXCEPT ![t] = @ \/ wrap]
       /\ UNCHANGED <<file, place, held, rmports>>

\* The next candidate has a reservation file: it is skipped.  The first time
\* this happens at or after port_max the search restarts at port_start.
SkipReserved(t) ==
    LET p == portno[t] + 1
        wrap == ~second_round[t] /\ p >= port_max
    IN /\ place[t] = "loop"
       /\ portno[t] < port_upperlimit
       /\ file[p] # << >>
       /\ portno' = [portno EXCEPT ![t] = IF wrap THEN port_start ELSE p]
       /\ second_round' = [second_round EXCEPT ![t] = @ \/ wrap]
       /\ UNCHANGED <<file, place, held, rmports>>

\* The next candidate has no reservation file (yet).
SeeNoFile(t) ==
    /\ place[t] = "loop"
    /\ portno[t] < port_upperlimit
    /\ file[portno[t] + 1] = << >>
    /\ portno' = [portno EXCEPT ![t] = @ + 1]
    /\ PortGoto(t, "append")
    /\ UNCHANGED <<file, second_round, held, rmports>>

\* echo "$$ $tst_working_dir $test_subtest_name" >>! the reservation file.
AppendLine(t) ==
    /\ place[t] = "append"
    /\ file' = [file EXCEPT ![portno[t]] = Append(@, t)]
    /\ PortGoto(t, "probe")
    /\ UNCHANGED <<portno, second_round, held, rmports>>

\* is_port_in_use.csh.  Its answer comes from netstat, lsof and ps: another
\* program may use the port, its test matches longer numbers too, and a
\* holder that has not started its servers yet is not seen.  Either answer
\* is possible at any time.
IsPortInUse(t) ==
    /\ place[t] = "probe"
    /\ \E answer \in {"inuse", "unused"} : PortGoto(t, answer)
    /\ UNCHANGED <<file, portno, second_round, held, rmports>>

\* Mutant: the file of a port in use is removed whoever wrote it first, as
\* the script did before the check of line 79.
CheckOwnerInUseNever(t) ==
    /\ place[t] = "inuse"
    /\ PortGoto(t, "remove")
    /\ UNCHANGED <<file, portno, second_round, held, rmports>>

\* The port is in use: only the test whose line is first goes on to remove
\* the file.
CheckOwnerInUse(t) ==
    /\ place[t] = "inuse"
    /\ PortGoto(t, IF HeadIsMine(t, portno[t]) THEN "remove" ELSE "loop")
    /\ UNCHANGED <<file, portno, second_round, held, rmports>>

\* Mutant: the file of a port in use is not removed.
RemoveFileNot(t) ==
    /\ place[t] = "remove"
    /\ PortGoto(t, "loop")
    /\ UNCHANGED <<file, portno, second_round, held, rmports>>

\* rm of the reservation file.
RemoveFile(t) ==
    /\ place[t] = "remove"
    /\ file' = [file EXCEPT ![portno[t]] = << >>]
    /\ PortGoto(t, "loop")
    /\ UNCHANGED <<portno, second_round, held, rmports>>

\* The port is not in use, but another test wrote the first line: let it go.
LetGo(t) ==
    /\ place[t] = "unused"
    /\ ~HeadIsMine(t, portno[t])
    /\ PortGoto(t, "loop")
    /\ UNCHANGED <<file, portno, second_round, held, rmports>>

\* The port is not in use and the line of t is first: the port is handed out.
PickPort(t) ==
    /\ place[t] = "unused"
    /\ HeadIsMine(t, portno[t])
    /\ portno[t] < port_upperlimit
    /\ held' = [held EXCEPT ![t] = @ \cup {portno[t]}]
    /\ PortGoto(t, "run")
    /\ EndScript(t)
    /\ UNCHANGED <<file, rmports>>

\* The limit is tested after the loop only: a port at the limit is reserved,
\* and then not handed out.  exit 1 ends the shell, sourced or not.
ReservedAtLimit(t) ==
    /\ place[t] = "unused"
    /\ HeadIsMine(t, portno[t])
    /\ portno[t] >= port_upperlimit
    /\ PortGoto(t, "gaveup")
    /\ ExitShell(t)
    /\ UNCHANGED <<file, held, rmports>>

\* The loop ends at the limit without a port: echo -1, exit 1.
GiveUp(t) ==
    /\ place[t] = "loop"
    /\ portno[t] >= port_upperlimit
    /\ PortGoto(t, "gaveup")
    /\ ExitShell(t)
    /\ UNCHANGED <<file, held, rmports>>

-----------------------------------------------------------------------------
(* portno_release.csh *)

\* Release of one port: its portno file is renamed, and an rm of the
\* reservation file is queued for the end of the subtest.
ReleaseOne(t) ==
    /\ place[t] = "run"
    /\ \E p \in held[t] :
          /\ held' = [held EXCEPT ![t] = @ \ {p}]
          /\ rmports' = [rmports EXCEPT ![t] = @ \cup {p}]
    /\ UNCHANGED <<file, place, portno, second_round>>

\* Release of every port the portno files name.
ReleaseAll(t) ==
    /\ place[t] = "run"
    /\ held[t] # {}
    /\ held' = [held EXCEPT ![t] = {}]
    /\ rmports' = [rmports EXCEPT ![t] = @ \cup held[t]]
    /\ UNCHANGED <<file, place, portno, second_round>>

-----------------------------------------------------------------------------
(* subtest_helperlogs.csh After *)

\* The subtest ended with no difference to its reference: the queued rm
\* commands are sourced.  A test without a port has reported an error, so it
\* cannot end this way after "gaveup".
Pass(t) ==
    /\ place[t] = "run"
    /\ PortGoto(t, "cleanup")
    /\ UNCHANGED <<file, portno, second_round, held, rmports>>

\* The subtest failed: the reservation files stay.
Fail(t) ==
    /\ place[t] \in {"run", "gaveup"}
    /\ PortGoto(t, "failed")
    /\ UNCHANGED <<file, portno, second_round, held, rmports>>

\* One rm -f of delete_reserved_portfiles.csh.
CleanupPort(t) ==
    /\ place[t] = "cleanup"
    /\ \E p \in rmports[t] :
          /\ file' = [file EXCEPT ![p] = << >>]
          /\ rmports' = [rmports EXCEPT ![t] = @ \ {p}]
    /\ UNCHANGED <<place, portno, second_round, held>>

\* The script ran to its end and is renamed.
CleanupDone(t) ==
    /\ place[t] = "cleanup"
    /\ rmports[t] = {}
    /\ PortGoto(t, "passed")
    /\ UNCHANGED <<file, portno, second_round, held, rmports>>

-----------------------------------------------------------------------------
(* External *)

\* The shell of a test is killed (com/gtm_test_watchdog.csh does this to the
\* submit_test.csh of a test that hangs, an operator to the rest of it): it
\* stops where it is, nothing is undone.
Kill(t) ==
    /\ place[t] \notin {"passed", "failed"}
    /\ PortGoto(t, "failed")
    /\ ExitShell(t)
    /\ UNCHANGED <<file, held, rmports>>

-----------------------------------------------------------------------------
\* The commands of portno_acquire.csh after its start.
AcquireStep(t) ==
    \/ SkipReserved(t) \/ SeeNoFile(t) \/ AppendLine(t) \/ IsPortInUse(t)
    \/ CheckOwnerInUse(t) \/ RemoveFile(t)
    \/ LetGo(t) \/ PickPort(t) \/ ReservedAtLimit(t) \/ GiveUp(t)

TestStep(t) ==
    \/ Acquire(t) \/ AcquireStep(t)
    \/ ReleaseOne(t) \/ ReleaseAll(t)
    \/ Pass(t) \/ Fail(t) \/ CleanupPort(t) \/ CleanupDone(t)
    \/ Kill(t)

PortNext == \E t \in Tests : TestStep(t)

PortSpec == PortInit /\ [][PortNext]_portVars

\* A shell that runs portno_acquire.csh runs its commands until it is done
\* (or killed).  Nothing is assumed of when a test acquires, releases or ends.
PortFairSpec == PortSpec /\ \A t \in Tests : WF_portVars(AcquireStep(t))

-----------------------------------------------------------------------------
(* Properties *)

\* t works on the candidate portno[t].
InBody(t) == place[t] \in {"append", "probe", "inuse", "remove", "unused"}

\* portno of portno_acquire.csh stays between port_start and the upper limit,
\* and a candidate is never port_start itself.
PortTypeOK ==
    /\ file \in [Ports -> Seq(Tests)]
    /\ place \in [Tests -> Locations]
    /\ portno \in [Tests -> port_start .. port_upperlimit]
    /\ \A t \in Tests : InBody(t) => portno[t] \in Ports
    /\ second_round \in [Tests -> BOOLEAN]
    /\ held \in [Tests -> SUBSET Ports]
    /\ rmports \in [Tests -> SUBSET Ports]

\* Two tests never have the same port, whatever the interleaving of their
\* look-append-probe-check sequences in portno_acquire.csh.
NoSharedPort ==
    \A t, u \in Tests : t # u => Reserved(t) \cap Reserved(u) = {}

\* The reservation file of a port that a test has acquired stays in place,
\* with the line of that test first, until the cleanup of the same test
\* removes it: the removal of another test at line 81, the case the comment
\* at lines 68-76 of portno_acquire.csh describes, never hits it.
ReservationKept ==
    \A t \in Tests : \A p \in Reserved(t) : HeadIsMine(t, p)

\* The reservation files whose first line is that of t.
FilesOf(t) == {p \in Ports : HeadIsMine(t, p)}

\* A reservation file never stays behind without a port to show for it.
\* Outside the body of the search, and at its head, a test has files for the
\* ports it acquired and has not cleaned up and for no other: every candidate
\* it turned away from is free again (line 81) or was another's first.  A
\* test that passed has cleaned up every port it released and leaves the
\* files of those it did not.  Inside the body the one file more is that of
\* its candidate; at the limit (line 103) it is that of port_upperlimit; and
\* a shell that was killed, wherever it was, leaves at most one file more.
NoOrphanReservation ==
    \A t \in Tests :
        /\ place[t] \in {"run", "loop", "append", "cleanup"} => FilesOf(t) \subseteq Reserved(t)
        /\ place[t] = "passed" => FilesOf(t) \subseteq held[t]
        /\ InBody(t) => FilesOf(t) \subseteq Reserved(t) \cup {portno[t]}
        /\ place[t] = "gaveup" => FilesOf(t) \subseteq Reserved(t) \cup {port_upperlimit}
        /\ \E p \in Ports : FilesOf(t) \subseteq Reserved(t) \cup {p}

\* portno_acquire.csh comes to an end, with a port or with -1, even if every
\* candidate is reserved or in use: the search restarts at most once.
AcquireTerminates ==
    \A t \in Tests : (place[t] = "loop") ~> (place[t] \in {"run", "gaveup", "failed"})
=============================================================================
