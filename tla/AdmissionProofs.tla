--------------------------- MODULE AdmissionProofs ---------------------------
(***************************************************************************)
(* For any number of creates, keys and saves: a key means one server, the  *)
(* limits bend to races and to nothing else, and a cap that has been       *)
(* counted binds.                                                          *)
(***************************************************************************)
EXTENDS Admission, FiniteSetTheorems, TLAPS

\* Of a request that is not past its row: nothing is there in its name yet.
\* Of rows: one per key, and one machine asked for.  Of answers: the row that
\* is named exists, and has the key.
Once ==
    /\ \A r \in Requests : pc[r] \in {"new", "pricing"} =>
          row[r] = "none" /\ answer[r] = "none" /\ got[r] = NoRow
    /\ \A q, r \in Requests :
          row[q] # "none" /\ row[r] # "none" /\ key[q] = key[r] => q = r
    /\ \A k \in Keys : launches[k] <= 1 /\ (RowsOf(k) = {} => launches[k] = 0)
    /\ \A r \in Requests : got[r] # NoRow =>
          got[r] \in Requests /\ row[got[r]] # "none" /\ key[got[r]] = key[r]

\* Who waits for the catalogue was let in with room for one more; each row that
\* went in since has taken one place.
Room ==
    \A r \in Requests :
       /\ pc[r] = "new" => raced[r] = {}
       /\ \A q \in raced[r] : row[q] # "none"
       /\ pc[r] = "pricing" =>
             /\ Cardinality(Active \union {r}) <= allowed[r].servers + Cardinality(raced[r])
             /\ Cardinality(recent \union {r}) <= allowed[r].rate + Cardinality(raced[r])

Compared == counted => (over <=> spent >= limits.cap)

IInv == TypeOK /\ Once /\ Room /\ Compared

-----------------------------------------------------------------------------
(* Types.                                                                  *)

DoorOK == /\ key \in [Requests -> Keys]
          /\ pc \in [Requests -> {"new", "pricing", "launching", "done"}]
          /\ answer \in [Requests -> Answered]
          /\ got \in [Requests -> Requests \union {NoRow}]
          /\ \A r \in Requests : got[r] \in Requests <=> answer[r] = "row"

LEMMA AnswersTyped ==
  ASSUME TypeOK, NEW r \in Requests, NEW what \in Answered, NEW which \in Requests \union {NoRow},
         which \in Requests <=> what = "row", Answers(r, what, which)
  PROVE  DoorOK'
  BY DEF TypeOK, Answers, DoorOK

LEMMA CountsTyped ==
  ASSUME TypeOK, NEW total \in 0..MaxSpent, Counts(total)
  PROVE  spent' \in 0..MaxSpent /\ over' \in BOOLEAN /\ due' \in BOOLEAN /\ counted' \in BOOLEAN
<1>1. spent' \in 0..MaxSpent
  BY SpendAssumption DEF Counts
<1>2. over' \in BOOLEAN
  BY DEF Counts
<1>3. due' = FALSE /\ counted' = TRUE
  BY DEF Counts
<1> QED BY <1>1, <1>2, <1>3

LEMMA AccruedTyped == TypeOK => Accrued \subseteq 0..MaxSpent
  BY SpendAssumption DEF TypeOK, Accrued

LEMMA RefusalTyped == Refusal \in {"none", "max_servers", "create_rate", "spend_cap"}
  BY DEF Refusal

LEMMA TypesInitially == Init => TypeOK
<1> SUFFICES ASSUME Init PROVE TypeOK
  OBVIOUS
<1> USE RequestsAssumption, SpendAssumption
<1>1. /\ key \in [Requests -> Keys]
      /\ pc \in [Requests -> {"new", "pricing", "launching", "done"}]
      /\ answer \in [Requests -> Answered] /\ got \in [Requests -> Requests \union {NoRow}]
      /\ \A r \in Requests : got[r] \in Requests <=> answer[r] = "row"
  BY DEF Init, Answered
<1>2. /\ row \in [Requests -> {"none", "requested", "up", "failed", "terminated"}]
      /\ recent \subseteq {r \in Requests : row[r] # "none"}
  BY DEF Init
<1>3. /\ limits \in Limits /\ spent \in 0..MaxSpent /\ saves \in 0..MaxSaves
      /\ due = FALSE /\ over = FALSE /\ counted = TRUE
  BY DEF Init
<1>4. launches \in [Keys -> Nat] /\ raced \in [Requests -> SUBSET Requests]
  BY DEF Init
<1>5. allowed \in [Requests -> [servers : Nat, rate : Nat]]
  BY DEF Init
<1> QED BY <1>1, <1>2, <1>3, <1>4, <1>5 DEF TypeOK

LEMMA TypesKept == TypeOK /\ [Next]_vars => TypeOK'
<1> SUFFICES ASSUME TypeOK, [Next]_vars PROVE TypeOK'
  OBVIOUS
<1> USE RequestsAssumption, SpendAssumption
<1>1. CASE UNCHANGED vars
  BY <1>1 DEF vars, door, spend, TypeOK
<1>2. ASSUME NEW r \in Requests, Replay(r) PROVE TypeOK'
  <2>1. DoorOK'
    BY <1>2, AnswersTyped DEF Replay, RowsOf, Answered
  <2> QED BY <1>2, <2>1 DEF Replay, DoorOK, TypeOK, spend
<1>3. ASSUME NEW r \in Requests, Refuse(r) PROVE TypeOK'
  <2>1. DoorOK'
    BY <1>3, AnswersTyped, RefusalTyped DEF Refuse, Answered
  <2> QED BY <1>3, <2>1 DEF Refuse, DoorOK, TypeOK, spend
<1>4. ASSUME NEW r \in Requests, Admit(r) PROVE TypeOK'
  <2>1. [servers |-> limits.servers, rate |-> limits.rate] \in [servers : Nat, rate : Nat]
    BY LimitsAssumption DEF TypeOK, Limits
  <2> QED BY <1>4, <2>1 DEF Admit, TypeOK, spend
<1>5. ASSUME NEW r \in Requests, Insert(r) PROVE TypeOK'
  BY <1>5 DEF Insert, TypeOK, spend
<1>6. ASSUME NEW r \in Requests, Clash(r) PROVE TypeOK'
  <2>1. DoorOK'
    BY <1>6, AnswersTyped DEF Clash, Answered
  <2> QED BY <1>6, <2>1 DEF Clash, DoorOK, TypeOK, spend
<1>7. ASSUME NEW r \in Requests, Launched(r) \/ LaunchFails(r) PROVE TypeOK'
  <2>1. DoorOK'
    BY <1>7, AnswersTyped DEF Launched, LaunchFails, Answered
  <2>2. /\ row' \in [Requests -> {"none", "requested", "up", "failed", "terminated"}]
        /\ \A q \in Requests : row[q] # "none" => row'[q] # "none"
    BY <1>7 DEF Launched, LaunchFails, TypeOK
  <2> QED BY <1>7, <2>1, <2>2 DEF Launched, LaunchFails, DoorOK, TypeOK, spend
<1>8. ASSUME NEW r \in Requests, RowEnds(r) \/ HourPasses(r) PROVE TypeOK'
  <2>1. /\ row' \in [Requests -> {"none", "requested", "up", "failed", "terminated"}]
        /\ \A q \in Requests : row[q] # "none" => row'[q] # "none"
        /\ recent' \subseteq recent
    <3>1. CASE RowEnds(r)
      <4>1. PICK to \in {"failed", "terminated"} : row[r] # "none" /\ row' = [row EXCEPT ![r] = to]
        BY <3>1 DEF RowEnds
      <4> QED BY <3>1, <4>1 DEF RowEnds, TypeOK
    <3>2. CASE HourPasses(r)
      BY <3>2 DEF HourPasses, TypeOK
    <3> QED BY <1>8, <3>1, <3>2
  <2> QED BY <1>8, <2>1 DEF RowEnds, HourPasses, TypeOK, door, spend
<1>9. CASE Save \/ MonthTurns
  <2>1. counted' \in BOOLEAN
    BY <1>9 DEF Save, MonthTurns
  <2>2. /\ limits' \in Limits /\ saves' \in 0..MaxSaves /\ due' \in BOOLEAN
        /\ UNCHANGED <<spent, over>>
    <3>1. CASE Save
      <4>1. saves' \in 0..MaxSaves
        BY <3>1 DEF Save, TypeOK
      <4> QED BY <3>1, <4>1 DEF Save, TypeOK, spend
    <3>2. CASE MonthTurns
      BY <3>2 DEF MonthTurns, TypeOK
    <3> QED BY <1>9, <3>1, <3>2
  <2> QED BY <1>9, <2>1, <2>2 DEF Save, MonthTurns, TypeOK, door
<1>10. CASE Tick \/ CostsPage
  <2>1. spent' \in 0..MaxSpent /\ over' \in BOOLEAN /\ due' \in BOOLEAN /\ counted' \in BOOLEAN
    BY <1>10, AccruedTyped, CountsTyped DEF Tick, CostsPage, TypeOK
  <2> QED BY <1>10, <2>1 DEF Tick, CostsPage, TypeOK, door
<1>11. CASE Restart
  <2>1. spent' \in 0..MaxSpent /\ over' \in BOOLEAN /\ due' \in BOOLEAN /\ counted' \in BOOLEAN
    BY <1>11, CountsTyped DEF Restart, TypeOK
  <2> QED BY <1>11, <2>1 DEF Restart, TypeOK
<1> QED BY <1>1, <1>2, <1>3, <1>4, <1>5, <1>6, <1>7, <1>8, <1>9, <1>10, <1>11 DEF Next

-----------------------------------------------------------------------------
(* One server per key.                                                     *)

SameRows == \A r \in Requests : row'[r] # "none" <=> row[r] # "none"

\* Steps that insert no row, and answer with one only where it is the key's.
NoNewRow ==
    /\ key' = key /\ launches' = launches /\ SameRows
    /\ \A r \in Requests : pc'[r] \in {"new", "pricing"} =>
          pc[r] \in {"new", "pricing"} /\ answer'[r] = answer[r] /\ got'[r] = got[r]
    /\ \A r \in Requests :
          \/ got'[r] = got[r] \/ got'[r] = NoRow
          \/ got'[r] \in Requests /\ row[got'[r]] # "none" /\ key[got'[r]] = key[r]

LEMMA OnceWithoutRows == ASSUME Once, NoNewRow PROVE Once'
<1>1. \A r \in Requests : pc'[r] \in {"new", "pricing"} =>
         row'[r] = "none" /\ answer'[r] = "none" /\ got'[r] = NoRow
  BY DEF Once, NoNewRow, SameRows
<1>2. \A q, r \in Requests :
         row'[q] # "none" /\ row'[r] # "none" /\ key'[q] = key'[r] => q = r
  BY DEF Once, NoNewRow, SameRows
<1>3. \A k \in Keys : RowsOf(k)' = RowsOf(k)
  BY DEF RowsOf, NoNewRow, SameRows
<1>4. \A k \in Keys : launches'[k] <= 1 /\ (RowsOf(k)' = {} => launches'[k] = 0)
  BY <1>3 DEF Once, NoNewRow
<1>5. \A r \in Requests : got'[r] # NoRow =>
         got'[r] \in Requests /\ row'[got'[r]] # "none" /\ key'[got'[r]] = key'[r]
  BY DEF Once, NoNewRow, SameRows
<1> QED BY <1>1, <1>2, <1>4, <1>5 DEF Once

LEMMA AnsweredOnce ==
  ASSUME TypeOK, NEW r \in Requests, NEW what, NEW which, Answers(r, what, which),
         launches' = launches, SameRows,
         which = NoRow \/ (which \in Requests /\ row[which] # "none" /\ key[which] = key[r])
  PROVE  NoNewRow
  BY DEF TypeOK, Answers, NoNewRow

LEMMA InsertOnce == ASSUME TypeOK, Once, NEW r \in Requests, Insert(r) PROVE Once'
<1>1. /\ row' = [row EXCEPT ![r] = "requested"] /\ pc' = [pc EXCEPT ![r] = "launching"]
      /\ launches' = [launches EXCEPT ![key[r]] = @ + 1] /\ UNCHANGED <<key, answer, got>>
  BY DEF Insert
<1>2. RowsOf(key[r]) = {} /\ key[r] \in Keys
  BY DEF Insert, Taken, TypeOK
<1>3. \A q \in Requests : row[q] # "none" => key[q] # key[r]
  BY <1>2 DEF RowsOf
<1>4. launches[key[r]] = 0
  BY <1>2 DEF Once
<1>5. \A q \in Requests : row'[q] = (IF q = r THEN "requested" ELSE row[q])
  BY <1>1 DEF TypeOK
<1>6. \A q \in Requests : pc'[q] \in {"new", "pricing"} =>
         row'[q] = "none" /\ answer'[q] = "none" /\ got'[q] = NoRow
  BY <1>1, <1>5 DEF Once, TypeOK
<1>7. \A p, q \in Requests :
         row'[p] # "none" /\ row'[q] # "none" /\ key'[p] = key'[q] => p = q
  BY <1>1, <1>3, <1>5 DEF Once
<1>8. ASSUME NEW k \in Keys PROVE launches'[k] <= 1 /\ (RowsOf(k)' = {} => launches'[k] = 0)
  <2>1. CASE k = key[r]
    <3>1. launches'[k] = 1
      BY <1>1, <1>4, <2>1 DEF TypeOK
    <3>2. r \in RowsOf(k)'
      BY <1>1, <1>5, <2>1 DEF RowsOf
    <3> QED BY <3>1, <3>2
  <2>2. CASE k # key[r]
    <3>1. launches'[k] = launches[k]
      BY <1>1, <2>2 DEF TypeOK
    <3>2. RowsOf(k)' = RowsOf(k)
      BY <1>1, <1>5, <2>2 DEF RowsOf
    <3> QED BY <3>1, <3>2 DEF Once
  <2> QED BY <2>1, <2>2
<1>9. \A q \in Requests : got'[q] # NoRow =>
         got'[q] \in Requests /\ row'[got'[q]] # "none" /\ key'[got'[q]] = key'[q]
  BY <1>1, <1>5 DEF Once
<1> QED BY <1>6, <1>7, <1>8, <1>9 DEF Once

LEMMA OnceKept == TypeOK /\ Once /\ [Next]_vars => Once'
<1> SUFFICES ASSUME TypeOK, Once, [Next]_vars PROVE Once'
  OBVIOUS
<1>1. CASE UNCHANGED <<door, row, launches>>
  BY <1>1, OnceWithoutRows DEF door, NoNewRow, SameRows
<1>2. ASSUME NEW r \in Requests, Replay(r) PROVE Once'
  <2>1. PICK original \in RowsOf(key[r]) : Answers(r, "row", original)
    BY <1>2 DEF Replay
  <2>2. original \in Requests /\ row[original] # "none" /\ key[original] = key[r]
    BY DEF RowsOf
  <2>3. launches' = launches /\ SameRows
    BY <1>2 DEF Replay, SameRows
  <2> QED BY <2>1, <2>2, <2>3, AnsweredOnce, OnceWithoutRows
<1>3. ASSUME NEW r \in Requests, Refuse(r) \/ Clash(r) PROVE Once'
  <2>1. launches' = launches /\ SameRows /\ \E what \in Answered : Answers(r, what, NoRow)
    BY <1>3, RefusalTyped DEF Refuse, Clash, SameRows, Answered
  <2> QED BY <2>1, AnsweredOnce, OnceWithoutRows
<1>4. ASSUME NEW r \in Requests, Admit(r) PROVE Once'
  <2>1. NoNewRow
    BY <1>4 DEF Admit, NoNewRow, SameRows, TypeOK
  <2> QED BY <2>1, OnceWithoutRows
<1>5. ASSUME NEW r \in Requests, Launched(r) PROVE Once'
  <2>1. launches' = launches /\ SameRows
    BY <1>5 DEF Launched, SameRows, TypeOK
  <2>2. CASE row[r] = "requested"
    BY <1>5, <2>1, <2>2, AnsweredOnce, OnceWithoutRows DEF Launched
  <2>3. CASE row[r] # "requested"
    BY <1>5, <2>1, <2>3, AnsweredOnce, OnceWithoutRows DEF Launched
  <2> QED BY <2>2, <2>3
<1>6. ASSUME NEW r \in Requests, LaunchFails(r) PROVE Once'
  <2>1. launches' = launches /\ SameRows
    BY <1>6 DEF LaunchFails, SameRows, TypeOK
  <2> QED BY <1>6, <2>1, AnsweredOnce, OnceWithoutRows DEF LaunchFails
<1>7. ASSUME NEW r \in Requests, RowEnds(r) PROVE Once'
  <2>1. PICK to \in {"failed", "terminated"} : row[r] # "none" /\ row' = [row EXCEPT ![r] = to]
    BY <1>7 DEF RowEnds
  <2>2. SameRows
    BY <2>1 DEF SameRows, TypeOK
  <2> QED BY <1>7, <2>2, OnceWithoutRows DEF RowEnds, NoNewRow, door
<1>8. CASE Restart
  <2>1. NoNewRow
    BY <1>8 DEF Restart, NoNewRow, SameRows
  <2> QED BY <2>1, OnceWithoutRows
<1>9. CASE (\E r \in Requests : HourPasses(r)) \/ Save \/ MonthTurns \/ Tick \/ CostsPage
  BY <1>1, <1>9 DEF HourPasses, Save, MonthTurns, Tick, CostsPage
<1>10. CASE UNCHANGED vars
  BY <1>1, <1>10 DEF vars
<1> QED BY <1>2, <1>3, <1>4, <1>5, <1>6, <1>7, <1>8, <1>9, <1>10, InsertOnce DEF Next

-----------------------------------------------------------------------------
(* The cap.                                                                *)

LEMMA ComparedKept == Compared /\ [Next]_vars => Compared'
<1> SUFFICES ASSUME Compared, [Next]_vars PROVE Compared'
  OBVIOUS
<1>1. ASSUME NEW total, Counts(total), limits' = limits PROVE Compared'
  BY <1>1 DEF Counts, Compared
<1>2. CASE Tick \/ CostsPage \/ Restart
  BY <1>1, <1>2 DEF Tick, CostsPage, Restart
<1>3. CASE Save
  BY <1>3 DEF Save, Compared
<1>4. CASE MonthTurns
  BY <1>4 DEF MonthTurns, Compared
<1>5. CASE UNCHANGED <<spend, limits>>
  BY <1>5 DEF Compared, spend
<1> QED BY <1>2, <1>3, <1>4, <1>5
     DEF Next, vars, Replay, Refuse, Admit, Insert, Clash, Launched, LaunchFails, RowEnds, HourPasses

LEMMA Counted ==
  ASSUME TypeOK, NEW S \in SUBSET Requests
  PROVE  IsFiniteSet(S) /\ Cardinality(S) \in Nat
  BY RequestsAssumption, FS_Subset, FS_CardinalityType

\* A limit is met, or is not.
LEMMA LimitsAreNumbers ==
  ASSUME TypeOK
  PROVE  /\ Cardinality(Active) >= limits.servers \/ Cardinality(Active) < limits.servers
         /\ Cardinality(recent) >= limits.rate \/ Cardinality(recent) < limits.rate
         /\ limits.servers \in Nat /\ limits.rate \in Nat /\ limits.cap \in Nat
<1>1. Active \in SUBSET Requests /\ recent \in SUBSET Requests
  BY DEF Active, TypeOK
<1>2. limits.servers \in Nat /\ limits.rate \in Nat /\ limits.cap \in Caps
  BY LimitsAssumption DEF TypeOK, Limits
<1>3. limits.cap \in Nat
  <2>1. limits.cap \in 1..(MaxSpent + 1)
    BY <1>2, SpendAssumption
  <2>2. MaxSpent \in Nat
    BY SpendAssumption
  <2> QED BY <2>1, <2>2
<1> QED BY <1>1, <1>2, <1>3, Counted

LEMMA LetIn ==
  ASSUME TypeOK, Refusal = "none"
  PROVE  ~over /\ Cardinality(Active) < limits.servers /\ Cardinality(recent) < limits.rate
  BY LimitsAreNumbers DEF Refusal

LEMMA CapStep ==
  ASSUME TypeOK, Compared, [Next]_vars, NEW r \in Requests, counted
  PROVE  /\ pc[r] = "new" /\ pc'[r] = "pricing" => spent < limits.cap
         /\ answer[r] = "none" /\ answer'[r] = "spend_cap" => spent >= limits.cap
<1>1. over <=> spent >= limits.cap
  BY DEF Compared
<1>2. spent \in Nat /\ limits.cap \in Nat
  BY SpendAssumption, LimitsAreNumbers DEF TypeOK
<1>3. Refusal = "none" => ~over
  BY LetIn
<1>4. Refusal = "spend_cap" => over
  BY DEF Refusal
<1>5. ASSUME NEW q \in Requests, NEW what, NEW which, Answers(q, what, which)
      PROVE  /\ ~(pc[r] = "new" /\ pc'[r] = "pricing")
             /\ answer[r] = "none" /\ answer'[r] = "spend_cap" => what = "spend_cap"
  BY <1>5 DEF Answers, TypeOK
<1>6. ASSUME NEW q \in Requests, Replay(q) \/ Clash(q) \/ Launched(q) \/ LaunchFails(q)
      PROVE  /\ ~(pc[r] = "new" /\ pc'[r] = "pricing")
             /\ ~(answer[r] = "none" /\ answer'[r] = "spend_cap")
  BY <1>5, <1>6 DEF Replay, Clash, Launched, LaunchFails
<1>7. ASSUME NEW q \in Requests, Refuse(q)
      PROVE  /\ ~(pc[r] = "new" /\ pc'[r] = "pricing")
             /\ answer[r] = "none" /\ answer'[r] = "spend_cap" => over
  BY <1>4, <1>5, <1>7 DEF Refuse
<1>8. ASSUME NEW q \in Requests, Admit(q) PROVE ~over /\ answer' = answer
  BY <1>3, <1>8 DEF Admit
<1>9. ASSUME NEW q \in Requests, Insert(q) PROVE answer' = answer /\ ~(pc[r] = "new" /\ pc'[r] = "pricing")
  BY <1>9 DEF Insert, TypeOK
<1>10. CASE Restart
  BY <1>10 DEF Restart
<1>11. CASE \/ UNCHANGED vars \/ Save \/ MonthTurns \/ Tick \/ CostsPage
            \/ \E q \in Requests : RowEnds(q) \/ HourPasses(q)
  BY <1>11 DEF vars, door, Save, MonthTurns, Tick, CostsPage, RowEnds, HourPasses
<1> QED BY <1>1, <1>2, <1>6, <1>7, <1>8, <1>9, <1>10, <1>11 DEF Next

-----------------------------------------------------------------------------
(* The limits on servers and creates.                                      *)

LEMMA OneMore ==
  ASSUME NEW S \in SUBSET Requests, NEW q
  PROVE  /\ IsFiniteSet(S \union {q})
         /\ Cardinality(S) \in Nat /\ Cardinality(S \union {q}) \in Nat
         /\ Cardinality(S \union {q}) <= Cardinality(S) + 1
         /\ q \notin S => Cardinality(S \union {q}) = Cardinality(S) + 1
<1>1. IsFiniteSet(S) /\ Cardinality(S) \in Nat
  BY RequestsAssumption, FS_Subset, FS_CardinalityType
<1>2. /\ IsFiniteSet(S \union {q})
      /\ Cardinality(S \union {q}) = IF q \in S THEN Cardinality(S) ELSE Cardinality(S) + 1
  BY <1>1, FS_AddElement
<1> QED BY <1>1, <1>2

LEMMA Fewer ==
  ASSUME NEW S \in SUBSET Requests, NEW T \in SUBSET S
  PROVE  Cardinality(T) <= Cardinality(S) /\ Cardinality(T) \in Nat /\ Cardinality(S) \in Nat
<1>1. IsFiniteSet(S)
  BY RequestsAssumption, FS_Subset
<1>2. IsFiniteSet(T) /\ Cardinality(T) <= Cardinality(S)
  BY <1>1, FS_Subset
<1> QED BY <1>1, <1>2, FS_CardinalityType

\* Steps that add no row take no place from those who wait.
LEMMA RoomWithoutRows ==
  ASSUME TypeOK, TypeOK', Room, SameRows, UNCHANGED <<allowed, raced>>,
         Active' \subseteq Active, recent' \subseteq recent,
         \A r \in Requests : pc'[r] \in {"new", "pricing"} => pc'[r] = pc[r]
  PROVE  Room'
<1> SUFFICES ASSUME NEW r \in Requests
             PROVE  /\ pc'[r] = "new" => raced'[r] = {}
                    /\ \A q \in raced'[r] : row'[q] # "none"
                    /\ pc'[r] = "pricing" =>
                          /\ Cardinality(Active' \union {r}) <= allowed'[r].servers + Cardinality(raced'[r])
                          /\ Cardinality(recent' \union {r}) <= allowed'[r].rate + Cardinality(raced'[r])
  BY DEF Room
<1>1. raced[r] \in SUBSET Requests /\ allowed[r].servers \in Nat /\ allowed[r].rate \in Nat
  BY DEF TypeOK
<1>2. \A q \in raced'[r] : row'[q] # "none"
  BY <1>1 DEF Room, SameRows
<1>3. pc'[r] = "new" => raced'[r] = {}
  BY DEF Room
<1>4. ASSUME pc'[r] = "pricing"
      PROVE  /\ Cardinality(Active' \union {r}) <= allowed'[r].servers + Cardinality(raced'[r])
             /\ Cardinality(recent' \union {r}) <= allowed'[r].rate + Cardinality(raced'[r])
  <2>1. /\ Cardinality(Active \union {r}) <= allowed[r].servers + Cardinality(raced[r])
        /\ Cardinality(recent \union {r}) <= allowed[r].rate + Cardinality(raced[r])
    BY <1>4 DEF Room
  <2>2. Active \union {r} \in SUBSET Requests /\ recent \union {r} \in SUBSET Requests
    BY DEF Active, TypeOK
  <2>3. /\ Cardinality(Active' \union {r}) <= Cardinality(Active \union {r})
        /\ Cardinality(Active' \union {r}) \in Nat /\ Cardinality(Active \union {r}) \in Nat
    <3>1. Active' \union {r} \in SUBSET (Active \union {r})
      OBVIOUS
    <3> QED BY <2>2, <3>1, Fewer
  <2>4. /\ Cardinality(recent' \union {r}) <= Cardinality(recent \union {r})
        /\ Cardinality(recent' \union {r}) \in Nat /\ Cardinality(recent \union {r}) \in Nat
    <3>1. recent' \union {r} \in SUBSET (recent \union {r})
      OBVIOUS
    <3> QED BY <2>2, <3>1, Fewer
  <2>5. Cardinality(raced[r]) \in Nat
    BY <1>1, Fewer
  <2> QED BY <1>1, <2>1, <2>3, <2>4, <2>5
<1> QED BY <1>2, <1>3, <1>4

LEMMA AdmitRoom == ASSUME TypeOK, Room, NEW r \in Requests, Admit(r) PROVE Room'
<1>1. /\ pc' = [pc EXCEPT ![r] = "pricing"] /\ UNCHANGED <<row, recent, raced, limits>>
      /\ allowed' = [allowed EXCEPT ![r] = [servers |-> limits.servers, rate |-> limits.rate]]
      /\ pc[r] = "new" /\ Refusal = "none"
  BY DEF Admit
<1>2. Active' = Active /\ raced[r] = {} /\ Cardinality({}) = 0
  BY <1>1, FS_EmptySet DEF Active, Room
<1>3. allowed'[r].servers = limits.servers /\ allowed'[r].rate = limits.rate
  BY <1>1 DEF TypeOK
<1>4. Cardinality(Active) < limits.servers /\ Cardinality(recent) < limits.rate
      /\ limits.servers \in Nat /\ limits.rate \in Nat
  BY <1>1, LetIn, LimitsAreNumbers
<1>5. Active \in SUBSET Requests /\ recent \in SUBSET Requests
  BY DEF Active, TypeOK
<1>6. /\ Cardinality(Active \union {r}) <= limits.servers + 0
      /\ Cardinality(recent \union {r}) <= limits.rate + 0
  <2>1. /\ Cardinality(Active \union {r}) <= Cardinality(Active) + 1
        /\ Cardinality(Active) \in Nat /\ Cardinality(Active \union {r}) \in Nat
    BY <1>5, OneMore
  <2>2. /\ Cardinality(recent \union {r}) <= Cardinality(recent) + 1
        /\ Cardinality(recent) \in Nat /\ Cardinality(recent \union {r}) \in Nat
    BY <1>5, OneMore
  <2> QED BY <1>4, <2>1, <2>2
<1>7. \A q \in Requests : q # r => pc'[q] = pc[q] /\ allowed'[q] = allowed[q]
  BY <1>1 DEF TypeOK
<1>8. pc'[r] = "pricing"
  BY <1>1 DEF TypeOK
<1> QED BY <1>1, <1>2, <1>3, <1>6, <1>7, <1>8 DEF Room

LEMMA InsertRoom == ASSUME TypeOK, Once, Room, NEW r \in Requests, Insert(r) PROVE Room'
<1>1. /\ pc[r] = "pricing" /\ pc' = [pc EXCEPT ![r] = "launching"]
      /\ row' = [row EXCEPT ![r] = "requested"] /\ recent' = recent \union {r}
      /\ raced' = [q \in Requests |-> IF pc[q] = "pricing" /\ q # r THEN raced[q] \union {r} ELSE {}]
      /\ allowed' = allowed
  BY DEF Insert
<1>2. row[r] = "none"
  BY <1>1 DEF Once
<1>3. \A q \in Requests : row'[q] = (IF q = r THEN "requested" ELSE row[q])
  BY <1>1 DEF TypeOK
<1>4. Active' = Active \union {r}
  BY <1>3 DEF Active
<1>5. \A q \in Requests : q # r => pc'[q] = pc[q]
  BY <1>1 DEF TypeOK
<1>6. pc'[r] = "launching"
  BY <1>1 DEF TypeOK
<1>7. ASSUME NEW q \in Requests, pc'[q] = "pricing"
      PROVE  /\ Cardinality(Active' \union {q}) <= allowed'[q].servers + Cardinality(raced'[q])
             /\ Cardinality(recent' \union {q}) <= allowed'[q].rate + Cardinality(raced'[q])
  <2>1. q # r /\ pc[q] = "pricing"
    BY <1>5, <1>6, <1>7
  <2>2. raced'[q] = raced[q] \union {r} /\ raced[q] \in SUBSET Requests /\ r \notin raced[q]
    BY <1>1, <1>2, <2>1 DEF Room, TypeOK
  <2>3. Cardinality(raced'[q]) = Cardinality(raced[q]) + 1 /\ Cardinality(raced[q]) \in Nat
    BY <2>2, OneMore
  <2>4. /\ Cardinality(Active \union {q}) <= allowed[q].servers + Cardinality(raced[q])
        /\ Cardinality(recent \union {q}) <= allowed[q].rate + Cardinality(raced[q])
    BY <2>1 DEF Room
  <2>5. Active \union {q} \in SUBSET Requests /\ recent \union {q} \in SUBSET Requests
    BY DEF Active, TypeOK
  <2>6. /\ Cardinality((Active \union {q}) \union {r}) <= Cardinality(Active \union {q}) + 1
        /\ Cardinality(Active \union {q}) \in Nat
        /\ Cardinality((Active \union {q}) \union {r}) \in Nat
    BY <2>5, OneMore
  <2>7. /\ Cardinality((recent \union {q}) \union {r}) <= Cardinality(recent \union {q}) + 1
        /\ Cardinality(recent \union {q}) \in Nat
        /\ Cardinality((recent \union {q}) \union {r}) \in Nat
    BY <2>5, OneMore
  <2>8. /\ Active' \union {q} = (Active \union {q}) \union {r}
        /\ recent' \union {q} = (recent \union {q}) \union {r}
    BY <1>1, <1>4
  <2>9. allowed[q].servers \in Nat /\ allowed[q].rate \in Nat
    BY DEF TypeOK
  <2>10. Cardinality(Active' \union {q}) <= allowed[q].servers + Cardinality(raced'[q])
    <3>1. Cardinality(Active' \union {q}) = Cardinality((Active \union {q}) \union {r})
      BY <2>8
    <3> QED BY <2>3, <2>4, <2>6, <2>9, <3>1
  <2>11. Cardinality(recent' \union {q}) <= allowed[q].rate + Cardinality(raced'[q])
    <3>1. Cardinality(recent' \union {q}) = Cardinality((recent \union {q}) \union {r})
      BY <2>8
    <3> QED BY <2>3, <2>4, <2>7, <2>9, <3>1
  <2> QED BY <1>1, <2>10, <2>11
<1>8. ASSUME NEW q \in Requests
      PROVE  (pc'[q] = "new" => raced'[q] = {}) /\ \A p \in raced'[q] : row'[p] # "none"
  <2>1. pc'[q] = "new" => raced'[q] = {}
    BY <1>1, <1>5, <1>6
  <2>2. \A p \in raced'[q] : row'[p] # "none"
    <3>1. \A p \in raced[q] : row[p] # "none" /\ p \in Requests
      BY DEF Room, TypeOK
    <3> QED BY <1>1, <1>3, <3>1
  <2> QED BY <2>1, <2>2
<1> QED BY <1>7, <1>8 DEF Room

LEMMA RoomKept == TypeOK /\ Once /\ Room /\ [Next]_vars => Room'
<1> SUFFICES ASSUME TypeOK, Once, Room, [Next]_vars PROVE Room'
  OBVIOUS
<1> USE TypesKept
<1>1. ASSUME NEW r \in Requests, NEW what, NEW which, Answers(r, what, which),
             UNCHANGED <<row, recent, allowed, raced>>
      PROVE  Room'
  <2>1. Active' \subseteq Active /\ SameRows
    BY <1>1 DEF Active, SameRows
  <2>2. \A q \in Requests : pc'[q] \in {"new", "pricing"} => pc'[q] = pc[q]
    BY <1>1 DEF Answers, TypeOK
  <2> QED BY <1>1, <2>1, <2>2, RoomWithoutRows
<1>2. ASSUME NEW r \in Requests, Replay(r) \/ Refuse(r) \/ Clash(r) PROVE Room'
  BY <1>1, <1>2 DEF Replay, Refuse, Clash
<1>3. ASSUME NEW r \in Requests, Launched(r) \/ LaunchFails(r) PROVE Room'
  <2>1. UNCHANGED <<recent, allowed, raced>> /\ \E what, which : Answers(r, what, which)
    BY <1>3 DEF Launched, LaunchFails
  <2>2. Active' \subseteq Active /\ SameRows
    BY <1>3 DEF Launched, LaunchFails, Active, SameRows, TypeOK
  <2>3. \A q \in Requests : pc'[q] \in {"new", "pricing"} => pc'[q] = pc[q]
    BY <2>1 DEF Answers, TypeOK
  <2> QED BY <2>1, <2>2, <2>3, RoomWithoutRows
<1>4. ASSUME NEW r \in Requests, RowEnds(r) PROVE Room'
  <2>1. PICK to \in {"failed", "terminated"} : row[r] # "none" /\ row' = [row EXCEPT ![r] = to]
    BY <1>4 DEF RowEnds
  <2>2. Active' \subseteq Active /\ SameRows
    BY <2>1 DEF Active, SameRows, TypeOK
  <2> QED BY <1>4, <2>2, RoomWithoutRows DEF RowEnds, door
<1>5. ASSUME NEW r \in Requests, HourPasses(r) PROVE Room'
  <2>1. Active' \subseteq Active /\ SameRows
    BY <1>5 DEF HourPasses, Active, SameRows
  <2> QED BY <1>5, <2>1, RoomWithoutRows DEF HourPasses, door
<1>6. CASE Restart
  <2>1. Active' \subseteq Active /\ SameRows
    BY <1>6 DEF Restart, Active, SameRows
  <2>2. \A q \in Requests : pc'[q] \in {"new", "pricing"} => pc'[q] = pc[q]
    BY <1>6 DEF Restart, TypeOK
  <2> QED BY <1>6, <2>1, <2>2, RoomWithoutRows DEF Restart
<1>7. CASE UNCHANGED <<door, row, recent, allowed, raced>>
  <2>1. Active' \subseteq Active /\ SameRows
    BY <1>7 DEF Active, SameRows
  <2> QED BY <1>7, <2>1, RoomWithoutRows DEF door
<1>8. CASE UNCHANGED vars \/ Save \/ MonthTurns \/ Tick \/ CostsPage
  BY <1>7, <1>8 DEF vars, Save, MonthTurns, Tick, CostsPage
<1> QED BY <1>2, <1>3, <1>4, <1>5, <1>6, <1>8, AdmitRoom, InsertRoom DEF Next

LEMMA LimitsStep ==
  ASSUME TypeOK, Once, Room, [Next]_vars, NEW r \in Requests, row[r] = "none", row'[r] # "none"
  PROVE  /\ Cardinality(Active \union {r}) <= allowed[r].servers + Cardinality(raced[r])
         /\ Cardinality(recent \union {r}) <= allowed[r].rate + Cardinality(raced[r])
<1>1. ASSUME NEW q \in Requests, Insert(q) PROVE pc[r] = "pricing"
  BY <1>1 DEF Insert, TypeOK
<1>2. ASSUME NEW q \in Requests, Launched(q) \/ LaunchFails(q) \/ RowEnds(q) PROVE FALSE
  <2>1. CASE Launched(q)
    BY <2>1 DEF Launched, TypeOK
  <2>2. CASE LaunchFails(q)
    BY <2>2 DEF LaunchFails, TypeOK
  <2>3. CASE RowEnds(q)
    BY <2>3 DEF RowEnds, TypeOK
  <2> QED BY <1>2, <2>1, <2>2, <2>3
<1>3. \E q \in Requests : Insert(q)
  BY <1>2 DEF Next, vars, Replay, Refuse, Admit, Clash, HourPasses, Save, MonthTurns, Tick,
              CostsPage, Restart
<1> QED BY <1>1, <1>3 DEF Room

-----------------------------------------------------------------------------
LEMMA Initially == Init => IInv
<1> SUFFICES ASSUME Init PROVE IInv
  OBVIOUS
<1>1. TypeOK
  BY TypesInitially
<1>2. Once
  BY DEF Init, Once
<1>3. Room
  BY DEF Init, Room
<1>4. Compared
  <2>1. spent = 0 /\ over = FALSE /\ limits.cap \in Caps
    BY DEF Init, Limits
  <2>2. limits.cap \in 1..(MaxSpent + 1) /\ MaxSpent \in Nat
    BY <2>1, SpendAssumption
  <2> QED BY <2>1, <2>2 DEF Compared
<1> QED BY <1>1, <1>2, <1>3, <1>4 DEF IInv

LEMMA Always == Spec => []IInv
<1>1. IInv /\ [Next]_vars => IInv'
  BY TypesKept, OnceKept, RoomKept, ComparedKept DEF IInv
<1> QED BY <1>1, Initially, PTL DEF Spec

\* The state is what the code can hold; a recent row exists, and only an
\* answer with a row names one.
THEOREM TypeCorrect == Spec => []TypeOK
<1>1. IInv => TypeOK
  BY DEF IInv
<1> QED BY <1>1, Always, PTL

\* An idempotency key is good for one machine and one row, however the
\* requests that carry it overlap, fail, are posted again or lose core.
THEOREM OneServerPerKey == Spec => []KeyMeansOneServer
<1>1. IInv => KeyMeansOneServer
  BY DEF IInv, Once, KeyMeansOneServer
<1> QED BY <1>1, Always, PTL

\* A row finds at most the servers and creates it was let in under, beyond
\* those that went in while it awaited the catalogue.
THEOREM RacesAreTheOnlySlack == Spec => LimitsBendOnlyToRaces
<1>1. IInv /\ [Next]_vars =>
         [\A r \in Requests :
             row[r] = "none" /\ row'[r] # "none" =>
                LET room == Cardinality(raced[r]) IN
                /\ Cardinality(Active \union {r}) <= allowed[r].servers + room
                /\ Cardinality(recent \union {r}) <= allowed[r].rate + room]_vars
  BY LimitsStep DEF IInv
<1> QED BY <1>1, Always, PTL DEF Spec, LimitsBendOnlyToRaces

\* A cap that the spend has been counted against lets a create in exactly
\* below it.
THEOREM CountedCapBinds == Spec => CapBindsOnceCounted
<1>1. IInv /\ [Next]_vars =>
         [\A r \in Requests : counted =>
             /\ pc[r] = "new" /\ pc'[r] = "pricing" => spent < limits.cap
             /\ answer[r] = "none" /\ answer'[r] = "spend_cap" => spent >= limits.cap]_vars
  BY CapStep DEF IInv
<1> QED BY <1>1, Always, PTL DEF Spec, CapBindsOnceCounted
=============================================================================
