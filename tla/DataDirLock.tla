---------------------------- MODULE DataDirLock ----------------------------
(***************************************************************************)
(* `core.lock`: the pid file that keeps a data directory to one core.      *)
(*                                                                         *)
(* Several operating-system processes boot and close at once, so here one  *)
(* step is one system call, and a process may be killed between any two.   *)
(* A file is known by the process that created it: what is written after   *)
(* an unlink goes to a file nobody can see.  A pid is not used twice.      *)
(*                                                                         *)
(* Translated from packages/core/src/boot/data-dir-lock.ts and from boot() *)
(* and close() in packages/core/src/server.ts.                             *)
(***************************************************************************)
EXTENDS Naturals

CONSTANTS
    Process,    \* the pids
    Attempts    \* how often an acquisition goes around: 5 in the code

ASSUME AttemptsAssumption == Attempts \in Nat /\ Attempts >= 2
ASSUME ProcessAssumption == "nobody" \notin Process

VARIABLES
    file,      \* core.lock as the directory shows it
    pc,        \* where each process is
    attempt,   \* the turn of the loop each process is in
    overlapped \* history: two processes have been acquiring at the same time

vars == <<file, pc, attempt, overlapped>>

NoFile == [by |-> "nobody", written |-> FALSE]
LockFile(p, written) == [by |-> p, written |-> written]

Acquiring == {"create", "write", "read", "unlink", "lastread"}
Closing == {"close-read", "close-unlink"}

\* The file names the process that made it, and every process is somewhere in
\* acquire, release or the core between them.
TypeOK ==
    /\ file \in [by : Process, written : BOOLEAN] \union {NoFile}
    /\ pc \in [Process -> {"unborn", "idle", "core", "dead"} \union Acquiring \union Closing]
    /\ attempt \in [Process -> 0..(Attempts - 1)]
    /\ overlapped \in BOOLEAN

Init ==
    /\ file = NoFile
    /\ pc = [p \in Process |-> "unborn"]
    /\ attempt = [p \in Process |-> 0]
    /\ overlapped = FALSE

Alive(p) == pc[p] \notin {"unborn", "dead"}
GoTo(p, place) == pc' = [pc EXCEPT ![p] = place]

\* The holder the file names is a live process.  A file without a pid in it
\* names nobody.
HeldByLive(f) == f.written /\ Alive(f.by)

\* The loop goes around, or has gone around often enough.
GoAround(p) ==
    IF attempt[p] + 1 < Attempts
    THEN /\ GoTo(p, "create")
         /\ attempt' = [attempt EXCEPT ![p] = @ + 1]
    ELSE GoTo(p, "lastread") /\ UNCHANGED attempt

-----------------------------------------------------------------------------
(***************************************************************************)
(* acquireDataDirLock.                                                     *)
(***************************************************************************)

\* A new process, or one whose last boot failed, boots.
Boot(p) ==
    /\ pc[p] \in {"unborn", "idle"}
    /\ GoTo(p, "create")
    /\ attempt' = [attempt EXCEPT ![p] = 0]
    /\ overlapped' = (overlapped \/ \E q \in Process \ {p} : pc[q] \in Acquiring)
    /\ UNCHANGED file

\* Mutant: the file is opened without O_EXCL.
CreateAnyway(p) ==
    /\ pc[p] = "create"
    /\ file' = LockFile(p, FALSE)
    /\ GoTo(p, "write")
    /\ UNCHANGED <<attempt, overlapped>>

\* open(O_CREAT | O_EXCL): the file exists, empty, before anything is written.
Create(p) ==
    /\ pc[p] = "create"
    /\ IF file = NoFile
       THEN file' = LockFile(p, FALSE) /\ GoTo(p, "write")
       ELSE GoTo(p, "read") /\ UNCHANGED file
    /\ UNCHANGED <<attempt, overlapped>>

\* The record reaches the file that was opened, if the directory still shows it.
Write(p) ==
    /\ pc[p] = "write"
    /\ file' = IF file = LockFile(p, FALSE) THEN LockFile(p, TRUE) ELSE file
    /\ GoTo(p, "core")
    /\ UNCHANGED <<attempt, overlapped>>

\* Read the file that was there: gone, held by a live process, or stale.
Read(p) ==
    /\ pc[p] = "read"
    /\ CASE file = NoFile    -> GoAround(p)
         [] HeldByLive(file) -> GoTo(p, "idle") /\ UNCHANGED attempt
         [] OTHER            -> GoTo(p, "unlink") /\ UNCHANGED attempt
    /\ UNCHANGED <<file, overlapped>>

\* Mutant: a stale lock is left where it is.
LeaveStale(p) ==
    /\ pc[p] = "unlink"
    /\ GoAround(p)
    /\ UNCHANGED <<file, overlapped>>

\* Reclaim: whatever the directory shows by now is removed.
Unlink(p) ==
    /\ pc[p] = "unlink"
    /\ file' = NoFile
    /\ GoAround(p)
    /\ UNCHANGED overlapped

\* The last look at the file only words the refusal.
Refuse(p) ==
    /\ pc[p] = "lastread"
    /\ GoTo(p, "idle")
    /\ UNCHANGED <<file, attempt, overlapped>>

-----------------------------------------------------------------------------
(***************************************************************************)
(* Closing, and the end of a process.                                      *)
(***************************************************************************)

\* The boot fails half-way, or the core closes: it writes no more, and then
\* gives the lock back.
Close(p) ==
    /\ pc[p] = "core"
    /\ GoTo(p, "close-read")
    /\ UNCHANGED <<file, attempt, overlapped>>

\* Only a lock that names this process is given back.
ReleaseReads(p) ==
    /\ pc[p] = "close-read"
    /\ GoTo(p, IF file = LockFile(p, TRUE) THEN "close-unlink" ELSE "idle")
    /\ UNCHANGED <<file, attempt, overlapped>>

ReleaseUnlinks(p) ==
    /\ pc[p] = "close-unlink"
    /\ file' = NoFile
    /\ GoTo(p, "idle")
    /\ UNCHANGED <<attempt, overlapped>>

\* Killed at any point, or exits.
Dies(p) ==
    /\ Alive(p)
    /\ GoTo(p, "dead")
    /\ UNCHANGED <<file, attempt, overlapped>>

-----------------------------------------------------------------------------

\* What a process does without being told to.
Runs(p) ==
    \/ Create(p) \/ Write(p) \/ Read(p) \/ Unlink(p) \/ Refuse(p)
    \/ ReleaseReads(p) \/ ReleaseUnlinks(p)

Next == \E p \in Process : Boot(p) \/ Runs(p) \/ Close(p) \/ Dies(p)

Spec == Init /\ [][Next]_vars

\* The operating system schedules every process.
FairSpec == Spec /\ \A p \in Process : WF_vars(Runs(p))

(***************************************************************************)
(* Properties.                                                             *)
(***************************************************************************)

\* As data-dir-lock.ts promises: two cores never write one data directory.
OneCore == \A p, q \in Process : pc[p] = "core" /\ pc[q] = "core" => p = q

\* What the pid file does guarantee, through any kills, failed boots, closes
\* and restarts: as long as no two processes have been acquiring the lock at
\* the same time, one core at most runs on the data directory.
OneCoreUnlessOverlapped == ~overlapped => OneCore

\* A lock left behind by a killed core never bricks the next start: a process
\* that starts to acquire while no other one is alive ends up as the core,
\* unless it is killed or another process is started meanwhile.
NeverBricked ==
    \A p \in Process :
        pc[p] = "create" /\ attempt[p] = 0 /\ (\A q \in Process \ {p} : ~Alive(q))
            ~> \/ pc[p] \in {"core", "dead"}
               \/ \E q \in Process \ {p} : Alive(q)

\* A running core keeps its lock: it is there, with its pid in it, for the
\* whole life of the core, so that whoever boots later finds and obeys it.
CoreKeepsLock ==
    ~overlapped => \A p \in Process : pc[p] = "core" => file = LockFile(p, TRUE)

=============================================================================
