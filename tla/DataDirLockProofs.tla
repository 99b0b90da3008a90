-------------------------- MODULE DataDirLockProofs --------------------------
(***************************************************************************)
(* That core.lock keeps a data directory to one core, for any number of    *)
(* processes and turns of the loop, as long as no two of them acquire it   *)
(* at the same time.                                                       *)
(***************************************************************************)
EXTENDS DataDirLock, TLAPS

Holding == {"core"} \union Closing

\* What the file and the processes say of each other while acquisitions have
\* not overlapped: whoever holds the lock, or is writing it, has its file in
\* place, and whoever is about to remove a file has a stale one before it.
Ownership ==
    /\ \A p, q \in Process : pc[p] \in Acquiring /\ pc[q] \in Acquiring => p = q
    /\ \A p \in Process : pc[p] \in Holding => file = LockFile(p, TRUE)
    /\ \A p \in Process : pc[p] = "write" => file = LockFile(p, FALSE)
    /\ \A p \in Process : pc[p] = "unlink" => ~HeldByLive(file)

IInv == TypeOK /\ (~overlapped => Ownership)

USE DEF GoTo, LockFile, NoFile, Acquiring, Closing, Holding

\* Nothing has been created and nobody runs yet.
LEMMA InitiallyOwned == Init => IInv
<1> SUFFICES ASSUME Init PROVE TypeOK /\ Ownership
  BY DEF IInv
<1>1. 0 \in 0..(Attempts - 1)
  BY AttemptsAssumption
<1>2. TypeOK
  BY <1>1 DEF Init, TypeOK
<1>3. Ownership
  BY DEF Init, Ownership
<1> QED BY <1>2, <1>3

\* A turn of the loop keeps the types and leads to `create` or `lastread`.
LEMMA GoAroundTyped ==
  ASSUME TypeOK, NEW p \in Process, GoAround(p)
  PROVE  /\ attempt' \in [Process -> 0..(Attempts - 1)]
         /\ \E to \in {"create", "lastread"} : pc' = [pc EXCEPT ![p] = to]
  BY AttemptsAssumption DEF GoAround, TypeOK

\* Every step keeps the types.
LEMMA TypesKept == TypeOK /\ [Next]_vars => TypeOK'
<1> SUFFICES ASSUME TypeOK, [Next]_vars PROVE TypeOK'
  OBVIOUS
<1>1. CASE UNCHANGED vars
  BY <1>1 DEF TypeOK, vars
<1>2. ASSUME NEW p \in Process, Boot(p) PROVE TypeOK'
  BY <1>2, AttemptsAssumption DEF Boot, TypeOK
<1>3. ASSUME NEW p \in Process, Create(p) \/ Write(p) PROVE TypeOK'
  <2>1. LockFile(p, TRUE) \in [by : Process, written : BOOLEAN]
    OBVIOUS
  <2>2. LockFile(p, FALSE) \in [by : Process, written : BOOLEAN]
    OBVIOUS
  <2>3. CASE Create(p)
    BY <2>2, <2>3 DEF Create, TypeOK
  <2>4. CASE Write(p)
    BY <2>1, <2>4 DEF Write, TypeOK
  <2> QED BY <1>3, <2>3, <2>4
<1>4. ASSUME NEW p \in Process, Read(p) PROVE TypeOK'
  <2>1. CASE GoAround(p)
    BY <2>1, <1>4, GoAroundTyped DEF Read, TypeOK
  <2>2. CASE ~GoAround(p)
    BY <2>2, <1>4 DEF Read, TypeOK
  <2> QED BY <2>1, <2>2
<1>5. ASSUME NEW p \in Process, Unlink(p) PROVE TypeOK'
  BY <1>5, GoAroundTyped DEF Unlink, TypeOK
<1>6. ASSUME NEW p \in Process,
             Refuse(p) \/ Close(p) \/ ReleaseReads(p) \/ ReleaseUnlinks(p) \/ Dies(p)
      PROVE  TypeOK'
  BY <1>6 DEF Refuse, Close, ReleaseReads, ReleaseUnlinks, Dies, TypeOK
<1> QED
  BY <1>1, <1>2, <1>3, <1>4, <1>5, <1>6 DEF Next, Runs

\* Every step keeps the ownership: a boot beside another one ends the premise,
\* and all others meet a file that is theirs, stale, or somebody's they obey.
LEMMA OwnershipKept ==
  ASSUME TypeOK, TypeOK', ~overlapped => Ownership, [Next]_vars, ~overlapped'
  PROVE  Ownership'
<1>1. CASE UNCHANGED vars
  BY <1>1 DEF Ownership, HeldByLive, Alive, vars
<1>2. ASSUME NEW p \in Process, Boot(p) PROVE Ownership'
  BY <1>2 DEF Boot, Ownership, HeldByLive, Alive, TypeOK
<1>3. ASSUME NEW p \in Process, Create(p) PROVE Ownership'
  BY <1>3 DEF Create, Ownership, HeldByLive, Alive, TypeOK
<1>4. ASSUME NEW p \in Process, Write(p) PROVE Ownership'
  <2>1. /\ pc[p] = "write" /\ file = LockFile(p, FALSE) /\ file' = LockFile(p, TRUE)
        /\ pc' = [pc EXCEPT ![p] = "core"] /\ overlapped' = overlapped /\ Ownership
    BY <1>4 DEF Write, Ownership
  <2>2. \A q \in Process \ {p} : pc[q] \notin Acquiring /\ pc[q] \notin Holding
    BY <2>1 DEF Ownership
  <2> QED BY <2>1, <2>2 DEF Ownership, TypeOK
<1>5. ASSUME NEW p \in Process, Read(p) PROVE Ownership'
  <2>1. CASE GoAround(p)
    BY <2>1, <1>5, GoAroundTyped DEF Read, Ownership, HeldByLive, Alive, TypeOK
  <2>2. CASE ~GoAround(p)
    BY <2>2, <1>5 DEF Read, Ownership, HeldByLive, Alive, TypeOK
  <2> QED BY <2>1, <2>2
<1>6. ASSUME NEW p \in Process, Unlink(p) PROVE Ownership'
  BY <1>6, GoAroundTyped DEF Unlink, Ownership, HeldByLive, Alive, TypeOK
<1>7. ASSUME NEW p \in Process, Refuse(p) \/ Close(p) PROVE Ownership'
  BY <1>7 DEF Refuse, Close, Ownership, HeldByLive, Alive, TypeOK
<1>8. ASSUME NEW p \in Process, ReleaseReads(p) \/ ReleaseUnlinks(p) PROVE Ownership'
  BY <1>8 DEF ReleaseReads, ReleaseUnlinks, Ownership, HeldByLive, Alive, TypeOK
<1>9. ASSUME NEW p \in Process, Dies(p) PROVE Ownership'
  BY <1>9 DEF Dies, Ownership, HeldByLive, Alive, TypeOK
<1> QED
  BY <1>1, <1>2, <1>3, <1>4, <1>5, <1>6, <1>7, <1>8, <1>9 DEF Next, Runs

\* The inductive invariant holds of every behaviour.
THEOREM OwnershipInvariant == Spec => []IInv
<1>1. IInv /\ [Next]_vars => IInv'
  BY TypesKept, OwnershipKept DEF IInv
<1> QED
  BY InitiallyOwned, <1>1, PTL DEF Spec

\* The state is what the code can hold, through every step of acquire and
\* release and a kill between any two.
THEOREM TypeCorrect == Spec => []TypeOK
<1>1. IInv => TypeOK
  BY DEF IInv
<1> QED
  BY OwnershipInvariant, <1>1, PTL

\* Through any kills, failed boots, closes and restarts, at most one core runs
\* on the data directory unless two processes acquired the lock at once.
THEOREM AtMostOneCore == Spec => []OneCoreUnlessOverlapped
<1>1. IInv => OneCoreUnlessOverlapped
  BY DEF IInv, Ownership, OneCoreUnlessOverlapped, OneCore
<1> QED
  BY OwnershipInvariant, <1>1, PTL

\* Under the same premise a running core's lock stays in place.
THEOREM LockStays == Spec => []CoreKeepsLock
<1>1. IInv => CoreKeepsLock
  BY DEF IInv, Ownership, CoreKeepsLock
<1> QED
  BY OwnershipInvariant, <1>1, PTL

=============================================================================
