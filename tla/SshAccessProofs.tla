--------------------------- MODULE SshAccessProofs ---------------------------
(***************************************************************************)
(* Proofs about SshAccess: for every set of networks, however many pushes  *)
(* and launches overlap, and for as many saves, edits and mishaps as the   *)
(* bounds allow.  Sound says of each call in flight what it may still rely *)
(* on; while nobody else has touched the object, also what it read there.  *)
(***************************************************************************)
EXTENDS SshAccess, TLAPS

\* What a call in flight (a record r) carries, and how it stands to the object.
Sound(r) ==
    /\ r.op \in {"sync", "launch"}
    /\ r.answer = "none"
    /\ r.pc = "asked" => ~r.waited /\ (r.saw # "other" => inForce \in r.said)
    /\ r.pc # "asked" => steady \subseteq r.list
    /\ r.waited => r.op = "sync" /\ r.list \in r.said
    /\ r.pc = "create" => r.op = "launch"
    /\ r.pc \in {"write", "revoke"} => exists
    /\ r.pc = "write" =>
          /\ kind # "aws" => r.list \subseteq r.todo
          /\ kind = "gcp" => r.op = "sync" /\ ours
          /\ kind = "azure" \/ (kind = "digitalocean" /\ r.op = "sync") => r.todo = r.list
          /\ kind = "aws" /\ r.op = "sync" => r.out \cap r.list = {} /\ r.out \subseteq r.revoke
    /\ r.pc = "revoke" =>
          kind = "aws" /\ r.op = "sync" /\ r.todo \cap r.list = {} /\ r.todo \subseteq r.revoke

\* What a call knows of the object as long as it is alone with it.
Knows(r) ==
    /\ r.pc = "create" => ~exists
    /\ r.pc = "write" /\ kind = "gcp" => allowed \ (r.list \union r.revoke) \subseteq r.todo
    /\ r.pc = "write" /\ kind = "digitalocean" /\ r.op = "launch" => allowed \subseteq r.todo
    /\ r.pc = "write" /\ kind = "aws" /\ r.op = "sync" =>
          r.list \subseteq allowed \union r.todo /\ r.out \subseteq stamped
    /\ r.pc = "revoke" => r.list \subseteq allowed /\ r.todo \subseteq stamped

Covered ==
    /\ steady \subseteq inForce
    /\ ~exists => allowed = {}
    /\ kind # "aws" => stamped = {}
    /\ \A c \in Callers : call[c].pc # "idle" =>
          Sound(call[c]) /\ (call[c].alone => Knows(call[c]))

-----------------------------------------------------------------------------
(* Types.                                                                  *)

LEMMA IdleTyped == Idle \in Calls /\ \A a \in {"none", "applied"} : [Idle EXCEPT !.answer = a] \in Calls
  BY DEF Idle, Calls

\* Two records that differ at most in alone.
Same(r, s) ==
    /\ r.op = s.op /\ r.pc = s.pc /\ r.saw = s.saw /\ r.list = s.list /\ r.revoke = s.revoke
    /\ r.said = s.said /\ r.todo = s.todo /\ r.out = s.out /\ r.waited = s.waited
    /\ r.answer = s.answer

OthersKeep(c) ==
    \A d \in Callers \ {c} :
       /\ Same(call'[d], call[d])
       /\ call'[d].alone => call[d].alone /\ exists' = exists /\ allowed' = allowed

\* Whatever the caller becomes, the others lose nothing but their privacy.
LEMMA OthersAfter ==
  ASSUME TypeOK, NEW c \in Callers, NEW r \in Calls, Goes(c, r)
  PROVE  /\ call' \in [Callers -> Calls]
         /\ call'[c] = r
         /\ OthersKeep(c)
<1>1. \A d \in Callers : call[d] \in Calls
  BY DEF TypeOK
<1>2. ASSUME NEW d \in Callers \ {c}
      PROVE  /\ call'[d] \in Calls /\ Same(call'[d], call[d])
             /\ call'[d].alone => call[d].alone /\ exists' = exists /\ allowed' = allowed
  <2>1. call'[d] = [call[d] EXCEPT !.alone = @ /\ <<exists', allowed'>> = <<exists, allowed>>]
    BY DEF Goes
  <2> QED BY <1>1, <2>1 DEF Calls, Same
<1>3. call'[c] = r
  BY DEF Goes
<1>4. call' \in [Callers -> Calls]
  <2>1. call' = [d \in Callers |-> call'[d]]
    BY DEF Goes
  <2> QED BY <1>2, <1>3, <2>1
<1> QED BY <1>2, <1>3, <1>4 DEF OthersKeep

\* The state besides what the callers are doing.
PlaceOK ==
    /\ kind \in Kinds
    /\ file \in Lists /\ inForce \in Lists /\ steady \in SUBSET Nets
    /\ exists \in BOOLEAN /\ ours \in BOOLEAN
    /\ allowed \in SUBSET Nets /\ stamped \in SUBSET allowed
    /\ saves \in 0..MaxSaves /\ edits \in 0..MaxTrouble /\ mishaps \in 0..MaxTrouble

LEMMA Split == TypeOK <=> PlaceOK /\ call \in [Callers -> Calls]
  BY DEF TypeOK, PlaceOK

\* The record a caller becomes is one, whichever step it takes.
LEMMA NextRecord ==
  ASSUME TypeOK, NEW c \in Callers
  PROVE  /\ \A a \in {"updated", "unchanged", "skipped", "failed", "none"} :
               [Idle EXCEPT !.answer = IF call[c].waited /\ a \in {"updated", "unchanged"}
                                       THEN "applied" ELSE "none"] \in Calls
         /\ \A n : [call[c] EXCEPT !.todo = @ \ {n}] \in Calls
         /\ [call[c] EXCEPT !.pc = "create"] \in Calls
         /\ \A pc \in {"write", "revoke"} : \A t \in SUBSET Nets :
               [call[c] EXCEPT !.pc = pc, !.todo = t] \in Calls
         /\ \A t, o \in SUBSET Nets : \A refused \in BOOLEAN :
               [call[c] EXCEPT !.pc = "write", !.todo = t, !.out = o, !.refused = refused] \in Calls
<1>1. call[c] \in Calls
  BY DEF TypeOK
<1>2. \A n : [call[c] EXCEPT !.todo = @ \ {n}] \in Calls
  BY <1>1 DEF Calls
<1>3. [call[c] EXCEPT !.pc = "create"] \in Calls
  BY <1>1 DEF Calls
<1>4. \A pc \in {"write", "revoke"} : \A t \in SUBSET Nets :
         [call[c] EXCEPT !.pc = pc, !.todo = t] \in Calls
  BY <1>1 DEF Calls
<1>5. \A t, o \in SUBSET Nets : \A refused \in BOOLEAN :
         [call[c] EXCEPT !.pc = "write", !.todo = t, !.out = o, !.refused = refused] \in Calls
  BY <1>1 DEF Calls
<1> QED BY <1>2, <1>3, <1>4, <1>5, IdleTyped

\* Ending keeps the others, and leaves the caller idle.
LEMMA EndsAfter ==
  ASSUME TypeOK, NEW c \in Callers,
         NEW a \in {"updated", "unchanged", "skipped", "failed", "none"}, Ends(c, a)
  PROVE  /\ call' \in [Callers -> Calls]
         /\ call'[c] = [Idle EXCEPT !.answer = IF call[c].waited /\ a \in {"updated", "unchanged"}
                                                THEN "applied" ELSE "none"]
         /\ call'[c].pc = "idle"
         /\ call'[c].answer = "applied" => call[c].waited /\ a \in {"updated", "unchanged"}
         /\ OthersKeep(c)
<1> DEFINE r == [Idle EXCEPT !.answer = IF call[c].waited /\ a \in {"updated", "unchanged"}
                                        THEN "applied" ELSE "none"]
<1>1. r \in Calls /\ Goes(c, r)
  BY NextRecord DEF Ends
<1>2. r.pc = "idle" /\ (r.answer = "applied" => call[c].waited /\ a \in {"updated", "unchanged"})
  BY DEF Idle
<1> HIDE DEF r
<1>3. /\ call' \in [Callers -> Calls] /\ call'[c] = r
      /\ OthersKeep(c)
  BY <1>1, OthersAfter
<1> QED BY <1>2, <1>3 DEF r

-----------------------------------------------------------------------------
(* What every step keeps.                                                  *)

\* A step that only widens what is there keeps the others sound, and knowing
\* what they know.
Widens ==
    /\ kind' = kind /\ inForce' = inForce /\ steady' = steady
    /\ (exists => exists') /\ (ours => ours')
    /\ (allowed' = allowed \/ kind # "aws" => stamped' = stamped)

LEMMA OthersCovered ==
  ASSUME Covered, NEW c \in Callers, OthersKeep(c), Widens, NEW d \in Callers \ {c}
  PROVE  call'[d].pc # "idle" => Sound(call[d])' /\ (call'[d].alone => Knows(call[d])')
<1>1. Same(call'[d], call[d]) /\ (call'[d].alone => call[d].alone /\ exists' = exists /\ allowed' = allowed)
  BY DEF OthersKeep
<1>2. SUFFICES ASSUME call'[d].pc # "idle"
               PROVE  Sound(call[d])' /\ (call'[d].alone => Knows(call[d])')
  OBVIOUS
<1>3. Sound(call[d]) /\ (call[d].alone => Knows(call[d]))
  BY <1>1, <1>2 DEF Covered, Same
<1>4. Sound(call[d])'
  BY <1>1, <1>3 DEF Sound, Same, Widens
<1>5. call'[d].alone => Knows(call[d])'
  BY <1>1, <1>3 DEF Knows, Same, Widens
<1> QED BY <1>4, <1>5

\* What is left to show of a step of c: the types, and that c is covered.
LEMMA StepOf ==
  ASSUME TypeOK, Covered, NEW c \in Callers,
         call' \in [Callers -> Calls], OthersKeep(c), Widens, PlaceOK', ~exists' => allowed' = {},
         call'[c].pc # "idle" => Sound(call[c])' /\ (call'[c].alone => Knows(call[c])')
  PROVE  TypeOK' /\ Covered'
<1>1. TypeOK'
  BY DEF TypeOK, PlaceOK
<1>2. \A d \in Callers : call'[d].pc # "idle" => Sound(call[d])' /\ (call'[d].alone => Knows(call[d])')
  BY OthersCovered
<1>3. steady' \subseteq inForce' /\ (~exists' => allowed' = {}) /\ (kind' # "aws" => stamped' = {})
  BY DEF Covered, Widens
<1> QED BY <1>1, <1>2, <1>3 DEF Covered

Settled == UNCHANGED <<kind, file, inForce, steady, saves, edits>>

\* A step that ends c's work.
LEMMA EndsStep ==
  ASSUME TypeOK, Covered, NEW c \in Callers,
         NEW a \in {"updated", "unchanged", "skipped", "failed", "none"}, Ends(c, a),
         Widens, PlaceOK', ~exists' => allowed' = {}
  PROVE  TypeOK' /\ Covered'
<1>1. call' \in [Callers -> Calls] /\ call'[c].pc = "idle" /\ OthersKeep(c)
  BY EndsAfter
<1> QED BY <1>1, StepOf

\* A step that keeps c going, as r.
LEMMA GoesStep ==
  ASSUME TypeOK, Covered, NEW c \in Callers, NEW r \in Calls, Goes(c, r),
         Widens, PlaceOK', ~exists' => allowed' = {},
         call'[c] = r => Sound(call[c])' /\ (r.alone => Knows(call[c])')
  PROVE  TypeOK' /\ Covered'
<1>1. call' \in [Callers -> Calls] /\ call'[c] = r /\ OthersKeep(c)
  BY OthersAfter
<1> QED BY <1>1, StepOf

LEMMA AsItWas ==
  ASSUME TypeOK, Covered, AsItIs, Settled, mishaps' \in 0..MaxTrouble
  PROVE  Widens /\ PlaceOK' /\ (~exists' => allowed' = {})
  BY DEF AsItIs, Settled, object, Widens, PlaceOK, TypeOK, Covered

LEMMA PushStep ==
  ASSUME TypeOK, Covered, NEW c \in Callers, Push(c)
  PROVE  TypeOK' /\ Covered'
<1>1. AsItIs /\ Settled /\ mishaps' \in 0..MaxTrouble
  BY DEF Push, Settled, config, bounds, TypeOK
<1>2. Widens /\ PlaceOK' /\ (~exists' => allowed' = {})
  BY <1>1, AsItWas
<1> DEFINE said(saw) == IF saw = "nothing" THEN {file, inForce} ELSE {file}
           s(saw) == [Idle EXCEPT !.op = "sync", !.pc = "asked", !.saw = saw, !.said = said(saw)]
<1>3. PICK saw \in {Reading, "nothing"} : Goes(c, s(saw))
  BY DEF Push
<1>4. saw \in {"nothing", "same", "other"} /\ (saw = "same" => file = inForce)
  BY <1>3 DEF Reading
<1>5. said(saw) \in SUBSET Lists /\ (saw # "other" => inForce \in said(saw))
  BY <1>4 DEF TypeOK
<1> HIDE DEF said
<1>6. s(saw) \in Calls
  BY <1>4, <1>5 DEF Calls, Idle
<1>7. /\ s(saw).op = "sync" /\ s(saw).pc = "asked" /\ s(saw).saw = saw /\ s(saw).said = said(saw)
      /\ s(saw).answer = "none" /\ s(saw).waited = FALSE /\ s(saw).alone = FALSE
  BY DEF Idle
<1> HIDE DEF s
<1>8. call'[c] = s(saw) => Sound(call[c])' /\ (s(saw).alone => Knows(call[c])')
  BY <1>2, <1>5, <1>7 DEF Sound, Widens
<1> QED BY <1>2, <1>3, <1>6, <1>8, GoesStep

LEMMA PushGoesOnStep ==
  ASSUME TypeOK, Covered, NEW c \in Callers, NEW revoke \in SUBSET Nets, PushGoesOn(c, revoke)
  PROVE  TypeOK' /\ Covered'
<1>1. AsItIs /\ Settled /\ mishaps' \in 0..MaxTrouble
  BY DEF PushGoesOn, Settled, config, bounds, TypeOK
<1>2. Widens /\ PlaceOK' /\ (~exists' => allowed' = {})
  BY <1>1, AsItWas
<1>3. CASE Agree(c)
  <2> DEFINE r == [Idle EXCEPT !.op = "sync", !.pc = "read", !.list = inForce,
                               !.revoke = Heeds(revoke), !.said = call[c].said, !.alone = TRUE,
                               !.waited = TRUE]
  <2>1. Goes(c, r) /\ call[c].pc = "asked"
    BY <1>3 DEF PushGoesOn
  <2>2. call[c] \in Calls /\ inForce \in call[c].said
    BY <1>3, <2>1 DEF TypeOK, Covered, Sound, Agree
  <2>3. Heeds(revoke) \in SUBSET Nets /\ inForce \in SUBSET Nets /\ call[c].said \in SUBSET Lists
    BY <2>2 DEF Heeds, TypeOK, Lists, Calls
  <2>4. r \in Calls
    BY <2>3 DEF Calls, Idle
  <2>5. r.op = "sync" /\ r.pc = "read" /\ r.list = inForce /\ r.said = call[c].said
        /\ r.answer = "none"
    BY DEF Idle
  <2>6. call'[c] = r => Sound(call[c])' /\ (r.alone => Knows(call[c])')
    <3> HIDE DEF r
    <3> QED BY <1>2, <2>2, <2>5 DEF Sound, Knows, Widens, Covered
  <2> HIDE DEF r
  <2> QED BY <1>2, <2>1, <2>4, <2>6, GoesStep
<1>4. CASE ~Agree(c)
  <2>1. Goes(c, Idle)
    BY <1>4 DEF PushGoesOn
  <2>2. call' \in [Callers -> Calls] /\ call'[c] = Idle /\ OthersKeep(c)
    BY <2>1, IdleTyped, OthersAfter
  <2>3. call'[c].pc = "idle"
    BY <2>2 DEF Idle
  <2> QED BY <1>2, <2>2, <2>3, StepOf
<1> QED BY <1>3, <1>4

LEMMA LaunchStep ==
  ASSUME TypeOK, Covered, NEW c \in Callers, Launch(c)
  PROVE  TypeOK' /\ Covered'
<1>1. AsItIs /\ Settled /\ mishaps' \in 0..MaxTrouble
  BY DEF Launch, Settled, config, bounds, TypeOK
<1>2. Widens /\ PlaceOK' /\ (~exists' => allowed' = {})
  BY <1>1, AsItWas
<1> DEFINE r == [Idle EXCEPT !.op = "launch", !.pc = "read", !.list = inForce, !.alone = TRUE]
<1>3. Goes(c, r)
  BY DEF Launch
<1>4. r \in Calls
  BY DEF Calls, Idle, TypeOK, Lists
<1>5. r.op = "launch" /\ r.pc = "read" /\ r.list = inForce /\ r.waited = FALSE
      /\ r.answer = "none"
  BY DEF Idle
<1>6. call'[c] = r => Sound(call[c])' /\ (r.alone => Knows(call[c])')
  <2> HIDE DEF r
  <2> QED BY <1>2, <1>5 DEF Sound, Knows, Widens, Covered
<1> HIDE DEF r
<1> QED BY <1>2, <1>3, <1>4, <1>6, GoesStep

\* Making the object, also over one that is there.
LEMMA MadeKeeps ==
  ASSUME TypeOK, Covered, NEW c \in Callers, Made(c), Settled, mishaps' \in 0..MaxTrouble
  PROVE  Widens /\ PlaceOK' /\ (~exists' => allowed' = {}) /\ exists'
<1>1. call[c].list \in SUBSET Nets
  BY DEF TypeOK, Calls
<1>2. (~exists => allowed = {} /\ stamped = {}) /\ (kind # "aws" => stamped = {})
  BY DEF Covered, TypeOK
<1>3. allowed' \in SUBSET Nets /\ stamped' \in SUBSET allowed' /\ ours' \in BOOLEAN /\ exists' = TRUE
  BY <1>1, <1>2 DEF Made, TypeOK
<1>4. Widens
  BY <1>2 DEF Made, Settled, Widens, TypeOK
<1> QED BY <1>3, <1>4 DEF Settled, PlaceOK, TypeOK

LEMMA CreatesStep ==
  ASSUME TypeOK, Covered, NEW c \in Callers, Creates(c)
  PROVE  TypeOK' /\ Covered'
<1>1. Sound(call[c]) /\ call[c] \in Calls /\ call[c].pc = "create" /\ call[c].op = "launch"
  BY DEF Covered, TypeOK, Creates, Sound
<1>2. Settled /\ mishaps' \in 0..MaxTrouble /\ Made(c)
  BY DEF Creates, Settled, config, Fine, TypeOK
<1>3. Widens /\ PlaceOK' /\ (~exists' => allowed' = {}) /\ exists'
  BY <1>2, MadeKeeps
<1>4. CASE kind \in {"gcp", "digitalocean"}
  BY <1>3, <1>4, EndsStep DEF Creates
<1>5. CASE kind \notin {"gcp", "digitalocean"}
  <2> DEFINE r == [call[c] EXCEPT !.pc = "write", !.todo = call[c].list]
  <2>1. call[c].list \in SUBSET Nets
    BY <1>1 DEF Calls
  <2>2. Goes(c, r) /\ r \in Calls
    BY <1>5, <2>1, NextRecord DEF Creates
  <2>3. /\ r.op = "launch" /\ r.pc = "write" /\ r.list = call[c].list /\ r.todo = call[c].list
        /\ r.answer = call[c].answer /\ r.waited = call[c].waited /\ r.said = call[c].said
    BY <1>1 DEF Calls
  <2>4. call'[c] = r => Sound(call[c])' /\ (r.alone => Knows(call[c])')
    <3> HIDE DEF r
    <3> QED BY <1>1, <1>3, <1>5, <2>3 DEF Sound, Knows, Widens
  <2> HIDE DEF r
  <2> QED BY <1>3, <2>2, <2>4, GoesStep
<1> QED BY <1>4, <1>5

\* What is read decides what is written.
LEMMA PreparesStep ==
  ASSUME TypeOK, Covered, NEW c \in Callers, call[c].pc = "read",
         exists, kind = "gcp" /\ call[c].op = "sync" => ours, ~NothingToDo(c),
         AsItIs, Settled, Fine,
         Goes(c, [call[c] EXCEPT !.pc = "write", !.todo = Target(c), !.out = RevokeOurs(c),
                                 !.refused = RefusedTheirs(c) # {}])
  PROVE  TypeOK' /\ Covered'
<1> DEFINE refuses == RefusedTheirs(c) # {}
           r == [call[c] EXCEPT !.pc = "write", !.todo = Target(c), !.out = RevokeOurs(c),
                                !.refused = refuses]
<1>1. Sound(call[c]) /\ call[c] \in Calls
  BY DEF Covered, TypeOK
<1>2. Target(c) \in SUBSET Nets /\ RevokeOurs(c) \in SUBSET Nets /\ refuses \in BOOLEAN
  BY <1>1 DEF Target, RevokeOurs, Missing, PatchTarget, Extras, TypeOK, Calls
<1>3. mishaps' \in 0..MaxTrouble
  BY DEF Fine, TypeOK
<1>4. Widens /\ PlaceOK' /\ (~exists' => allowed' = {})
  BY <1>3, AsItWas
<1>5. r \in Calls
  <2> HIDE DEF refuses
  <2> QED BY <1>2, NextRecord
<1>6. /\ r.op = call[c].op /\ r.pc = "write" /\ r.list = call[c].list /\ r.todo = Target(c)
      /\ r.answer = call[c].answer /\ r.waited = call[c].waited /\ r.said = call[c].said /\ r.out = RevokeOurs(c)
      /\ r.revoke = call[c].revoke
  <2> HIDE DEF refuses
  <2> QED BY <1>1 DEF Calls
<1>7. exists' /\ allowed' = allowed /\ stamped' = stamped /\ ours' = ours /\ kind' = kind
      /\ steady' = steady
  BY DEF AsItIs, object, Settled
<1>8. kind = "gcp" => call[c].op = "sync" /\ ours
  BY <1>1 DEF NothingToDo, Sound
<1>9. call'[c] = r => Sound(call[c])'
  <2> HIDE DEF r
  <2> QED BY <1>1, <1>6, <1>7, <1>8 DEF Sound, Target, PatchTarget, RevokeOurs, Extras
<1>10. call'[c] = r => Knows(call[c])'
  <2> HIDE DEF r
  <2> QED BY <1>6, <1>7 DEF Knows, Target, PatchTarget, RevokeOurs, Extras, Missing
<1> QED BY <1>4, <1>5, <1>9, <1>10, GoesStep

LEMMA ReadsStep ==
  ASSUME TypeOK, Covered, NEW c \in Callers, Reads(c)
  PROVE  TypeOK' /\ Covered'
<1>1. Settled /\ Fine /\ mishaps' \in 0..MaxTrouble /\ call[c].pc = "read"
  BY DEF Reads, Settled, config, Fine, TypeOK
<1>2. ASSUME NEW a \in {"skipped", "failed", "unchanged"}, AsItIs, Ends(c, a)
      PROVE  TypeOK' /\ Covered'
  BY <1>1, <1>2, AsItWas, EndsStep
<1>3. CASE /\ ~exists /\ call[c].op = "launch" /\ AsItIs
           /\ Goes(c, [call[c] EXCEPT !.pc = "create"])
  <2> DEFINE r == [call[c] EXCEPT !.pc = "create"]
  <2>1. Goes(c, r) /\ r \in Calls
    BY <1>3, NextRecord
  <2>2. Sound(call[c]) /\ call[c] \in Calls
    BY <1>1 DEF Covered, TypeOK
  <2>3. /\ r.op = "launch" /\ r.pc = "create" /\ r.list = call[c].list
        /\ r.answer = call[c].answer /\ r.waited = call[c].waited /\ r.said = call[c].said
    BY <1>3, <2>2 DEF Calls
  <2>4. Widens /\ PlaceOK' /\ (~exists' => allowed' = {}) /\ ~exists'
    BY <1>1, <1>3, AsItWas DEF AsItIs, object
  <2>5. call'[c] = r => Sound(call[c])' /\ (r.alone => Knows(call[c])')
    <3> HIDE DEF r
    <3>1. ASSUME call'[c] = r PROVE Sound(call[c])'
      BY <1>1, <1>3, <2>2, <2>3, <2>4, <3>1 DEF Sound, Widens
    <3>2. ASSUME call'[c] = r PROVE Knows(call[c])'
      BY <2>3, <2>4, <3>2 DEF Knows
    <3> QED BY <3>1, <3>2
  <2> HIDE DEF r
  <2> QED BY <2>1, <2>4, <2>5, GoesStep
<1> QED BY <1>1, <1>2, <1>3, PreparesStep DEF Reads

-----------------------------------------------------------------------------
(* Writing.                                                                *)

LEMMA AuthorizesStep ==
  ASSUME TypeOK, Covered, NEW c \in Callers, NEW n \in Nets, Authorizes(c, n)
  PROVE  TypeOK' /\ Covered'
<1> DEFINE r == [call[c] EXCEPT !.todo = @ \ {n}]
<1>1. Sound(call[c]) /\ (call[c].alone => Knows(call[c])) /\ call[c] \in Calls
  BY DEF Covered, TypeOK, Authorizes
<1>2. Widens /\ PlaceOK' /\ (~exists' => allowed' = {})
  BY <1>1 DEF Authorizes, Widens, config, Fine, PlaceOK, TypeOK, Sound
<1>3. Goes(c, r) /\ r \in Calls
  BY NextRecord DEF Authorizes
<1>4. /\ r.op = call[c].op /\ r.pc = "write" /\ r.list = call[c].list /\ r.todo = call[c].todo \ {n}
      /\ r.answer = call[c].answer /\ r.waited = call[c].waited /\ r.said = call[c].said /\ r.out = call[c].out
      /\ r.revoke = call[c].revoke /\ r.alone = call[c].alone
  BY <1>1 DEF Calls, Authorizes
<1>5. call'[c] = r => Sound(call[c])' /\ (r.alone => Knows(call[c])')
  <2> HIDE DEF r
  <2> QED BY <1>1, <1>2, <1>4 DEF Sound, Knows, Widens, Authorizes
<1> HIDE DEF r
<1> QED BY <1>2, <1>3, <1>5, GoesStep

LEMMA AuthorizedStep ==
  ASSUME TypeOK, Covered, NEW c \in Callers, Authorized(c)
  PROVE  TypeOK' /\ Covered'
<1>1. Sound(call[c]) /\ (call[c].alone => Knows(call[c])) /\ call[c] \in Calls
  BY DEF Covered, TypeOK, Authorized
<1>2. AsItIs /\ Settled /\ mishaps' \in 0..MaxTrouble
  BY DEF Authorized, Settled, config, Fine, TypeOK
<1>3. Widens /\ PlaceOK' /\ (~exists' => allowed' = {})
  BY <1>2, AsItWas
<1>4. CASE call[c].op = "sync"
  <2> DEFINE r == [call[c] EXCEPT !.pc = "revoke", !.todo = call[c].out]
  <2>1. call[c].out \in SUBSET Nets
    BY <1>1 DEF Calls
  <2>2. Goes(c, r) /\ r \in Calls
    BY <1>4, <2>1, NextRecord DEF Authorized
  <2>3. /\ r.op = "sync" /\ r.pc = "revoke" /\ r.list = call[c].list /\ r.todo = call[c].out
        /\ r.answer = call[c].answer /\ r.waited = call[c].waited /\ r.said = call[c].said /\ r.revoke = call[c].revoke
        /\ r.alone = call[c].alone
    BY <1>1, <1>4 DEF Calls
  <2>4. call'[c] = r => Sound(call[c])' /\ (r.alone => Knows(call[c])')
    <3> HIDE DEF r
    <3> QED BY <1>1, <1>2, <1>3, <1>4, <2>3 DEF Sound, Knows, Widens, Authorized, AsItIs, object
  <2> HIDE DEF r
  <2> QED BY <1>3, <2>2, <2>4, GoesStep
<1>5. CASE call[c].op # "sync"
  BY <1>3, <1>5, EndsStep DEF Authorized
<1> QED BY <1>4, <1>5

LEMMA RevokesStep ==
  ASSUME TypeOK, Covered, NEW c \in Callers, NEW n \in Nets, Revokes(c, n)
  PROVE  TypeOK' /\ Covered'
<1> DEFINE r == [call[c] EXCEPT !.todo = @ \ {n}]
<1>1. Sound(call[c]) /\ (call[c].alone => Knows(call[c])) /\ call[c] \in Calls
  BY DEF Covered, TypeOK, Revokes
<1>2. Widens /\ PlaceOK' /\ (~exists' => allowed' = {})
  BY <1>1 DEF Revokes, Widens, config, Fine, PlaceOK, TypeOK, Sound, Covered
<1>3. Goes(c, r) /\ r \in Calls
  BY NextRecord DEF Revokes
<1>4. /\ r.op = call[c].op /\ r.pc = "revoke" /\ r.list = call[c].list /\ r.todo = call[c].todo \ {n}
      /\ r.answer = call[c].answer /\ r.waited = call[c].waited /\ r.said = call[c].said
      /\ r.revoke = call[c].revoke /\ r.alone = call[c].alone
  BY <1>1 DEF Calls, Revokes
<1>5. call'[c] = r => Sound(call[c])' /\ (r.alone => Knows(call[c])')
  <2> HIDE DEF r
  <2> QED BY <1>1, <1>2, <1>4 DEF Sound, Knows, Widens, Revokes
<1> HIDE DEF r
<1> QED BY <1>2, <1>3, <1>5, GoesStep

LEMMA SetsKeeps ==
  ASSUME TypeOK, Covered, NEW c \in Callers, call[c].pc = "write", kind # "aws",
         Sets(call[c].todo), Settled, mishaps' \in 0..MaxTrouble
  PROVE  Widens /\ PlaceOK' /\ (~exists' => allowed' = {})
<1>1. call[c].todo \in SUBSET Nets
  BY DEF TypeOK, Calls
<1> QED BY <1>1 DEF Sets, Settled, Widens, PlaceOK, TypeOK, Covered

LEMMA EndingSteps ==
  ASSUME TypeOK, Covered, NEW c \in Callers, Revoked(c) \/ Writes(c) \/ Fails(c)
  PROVE  TypeOK' /\ Covered'
<1>1. Settled /\ mishaps' \in 0..MaxTrouble
  BY BoundsAssumption DEF Revoked, Writes, Fails, Settled, config, Fine, GoesWrong, TypeOK
<1>2. Widens /\ PlaceOK' /\ (~exists' => allowed' = {})
  BY <1>1, AsItWas, SetsKeeps, MadeKeeps DEF Revoked, Writes, Fails
<1>3. PICK a \in {"updated", "failed"} : Ends(c, a)
  BY DEF Revoked, Writes, Fails
<1> QED BY <1>2, <1>3, EndsStep

LEMMA ExpiresStep ==
  ASSUME TypeOK, Covered, NEW c \in Callers, Expires(c)
  PROVE  TypeOK' /\ Covered'
<1>1. call[c] \in Calls /\ call' = [call EXCEPT ![c].waited = FALSE]
  BY DEF TypeOK, Expires
<1>2. call' \in [Callers -> Calls]
  <2>1. [call[c] EXCEPT !.waited = FALSE] \in Calls
    BY <1>1 DEF Calls
  <2> QED BY <1>1, <2>1 DEF TypeOK
<1>3. \A d \in Callers : d # c => call'[d] = call[d]
  BY <1>1 DEF TypeOK
<1>4. /\ call'[c].op = call[c].op /\ call'[c].pc = call[c].pc /\ call'[c].list = call[c].list
      /\ call'[c].revoke = call[c].revoke /\ call'[c].said = call[c].said
      /\ call'[c].saw = call[c].saw
      /\ call'[c].todo = call[c].todo /\ call'[c].out = call[c].out
      /\ call'[c].alone = call[c].alone /\ call'[c].waited = FALSE
      /\ call'[c].answer = call[c].answer
  BY <1>1 DEF TypeOK, Calls
<1>5. UNCHANGED <<kind, config, object, saves, edits>> /\ mishaps' \in 0..MaxTrouble
  BY BoundsAssumption DEF Expires, GoesWrong, TypeOK
<1>6. TypeOK'
  BY <1>2, <1>5 DEF TypeOK, config, object
<1>7. Sound(call[c]) => Sound(call[c])'
  BY <1>4, <1>5 DEF Sound, config, object
<1>8. Knows(call[c]) => Knows(call[c])'
  BY <1>4, <1>5 DEF Knows, config, object
<1>9. \A d \in Callers : d # c => /\ Sound(call[d]) => Sound(call[d])'
                                  /\ Knows(call[d]) => Knows(call[d])'
  BY <1>3, <1>5 DEF Sound, Knows, config, object
<1> QED BY <1>3, <1>4, <1>5, <1>6, <1>7, <1>8, <1>9 DEF Covered, config, object

-----------------------------------------------------------------------------
(* The configuration and the operator.                                     *)

LEMMA SaveStep ==
  ASSUME TypeOK, Covered, NEW list \in Lists, Save(list)
  PROVE  TypeOK' /\ Covered'
<1>1. UNCHANGED <<kind, object, edits, mishaps>> /\ steady' \subseteq steady
      /\ steady' \subseteq inForce' /\ inForce' \in Lists /\ file' \in Lists /\ saves' \in 0..MaxSaves
      /\ inForce' \in {list, inForce}
  BY BoundsAssumption DEF Save, TypeOK, Covered
<1>2. ASSUME NEW c \in Callers
      PROVE  /\ call'[c] \in Calls
             /\ call'[c].pc # "idle" =>
                   Sound(call[c])' /\ (call'[c].alone => Knows(call[c])')
  <2> DEFINE said == IF call[c].pc = "asked" THEN call[c].said \union {list} ELSE call[c].said
  <2>1. call[c] \in Calls /\ call'[c] = [call[c] EXCEPT !.said = said]
    BY DEF Save, TypeOK
  <2>2. said \in SUBSET Lists /\ call[c].said \subseteq said /\ (call[c].pc = "asked" => list \in said)
    BY <2>1 DEF Calls
  <2> HIDE DEF said
  <2>3. call'[c] \in Calls /\ call'[c].said = said /\ call'[c].alone = call[c].alone
    BY <2>1, <2>2 DEF Calls
  <2>4. /\ call'[c].op = call[c].op /\ call'[c].pc = call[c].pc /\ call'[c].saw = call[c].saw
        /\ call'[c].list = call[c].list /\ call'[c].revoke = call[c].revoke
        /\ call'[c].todo = call[c].todo /\ call'[c].out = call[c].out
        /\ call'[c].waited = call[c].waited /\ call'[c].answer = call[c].answer
    BY <2>1 DEF Calls
  <2>5. call'[c].pc # "idle" => Sound(call[c]) /\ (call[c].alone => Knows(call[c]))
    BY <2>4 DEF Covered
  <2>6. Sound(call[c]) => Sound(call[c])'
    BY <1>1, <2>2, <2>3, <2>4 DEF Sound, object
  <2>7. Knows(call[c]) => Knows(call[c])'
    BY <1>1, <2>4 DEF Knows, object
  <2> QED BY <2>3, <2>5, <2>6, <2>7
<1>3. call' \in [Callers -> Calls]
  <2>1. call' = [c \in Callers |-> call'[c]]
    BY DEF Save
  <2> QED BY <1>2, <2>1
<1>4. TypeOK'
  BY <1>1, <1>3 DEF TypeOK, object
<1> QED BY <1>1, <1>2, <1>4 DEF Covered, object

LEMMA RestartStep == ASSUME TypeOK, Covered, Restart PROVE TypeOK' /\ Covered'
<1>1. \A c \in Callers : call'[c].pc = "idle"
  BY DEF Restart, Idle
<1>2. call' \in [Callers -> Calls]
  BY IdleTyped DEF Restart
<1>3. saves' \in 0..MaxSaves
  BY BoundsAssumption DEF Restart, TypeOK
<1> QED BY <1>1, <1>2, <1>3 DEF Restart, TypeOK, Covered, object

LEMMA EditsStep ==
  ASSUME TypeOK, Covered, NEW n \in Nets, Edits(n)
  PROVE  TypeOK' /\ Covered'
<1>1. \A c \in Callers : call[c] \in Calls /\ call'[c] = [call[c] EXCEPT !.alone = FALSE]
  BY DEF Edits, TypeOK
<1>2. ASSUME NEW c \in Callers
      PROVE  call'[c] \in Calls /\ Same(call'[c], call[c]) /\ ~call'[c].alone
  <2>1. call[c] \in Calls /\ call'[c] = [call[c] EXCEPT !.alone = FALSE]
    BY <1>1
  <2>2. call'[c] \in Calls /\ ~call'[c].alone
    BY <2>1 DEF Calls
  <2>3. Same(call'[c], call[c])
    BY <2>1 DEF Calls, Same
  <2> QED BY <2>2, <2>3
<1>3. call' \in [Callers -> Calls]
  <2>1. call' = [c \in Callers |-> call'[c]]
    BY DEF Edits
  <2> QED BY <1>2, <2>1
<1>4. UNCHANGED <<kind, file, inForce, steady, exists, ours, saves, mishaps>> /\ exists
      /\ allowed' \in SUBSET Nets /\ stamped' \in SUBSET allowed' /\ edits' \in 0..MaxTrouble
      /\ stamped' \subseteq stamped
  BY BoundsAssumption DEF Edits, config, TypeOK
<1>5. TypeOK'
  BY <1>3, <1>4 DEF TypeOK
<1>6. \A c \in Callers : Sound(call[c]) => Sound(call[c])'
  BY <1>2, <1>4 DEF Sound, Same
<1> QED BY <1>2, <1>4, <1>5, <1>6 DEF Covered, Same

LEMMA Inductive == TypeOK /\ Covered /\ [Next]_vars => TypeOK' /\ Covered'
<1> SUFFICES ASSUME TypeOK, Covered, [Next]_vars PROVE TypeOK' /\ Covered'
  OBVIOUS
<1>1. CASE UNCHANGED vars
  <2>1. \A c \in Callers : /\ Sound(call[c]) => Sound(call[c])'
                           /\ Knows(call[c]) => Knows(call[c])'
    BY <1>1 DEF Sound, Knows, vars, config, object, bounds
  <2> QED BY <1>1, <2>1 DEF TypeOK, Covered, vars, config, object, bounds
<1>2. CASE Next
  BY <1>2, SaveStep, RestartStep, EditsStep, PushStep, PushGoesOnStep, LaunchStep, ReadsStep,
     CreatesStep, AuthorizesStep,
     AuthorizedStep, RevokesStep, EndingSteps, ExpiresStep DEF Next
<1> QED BY <1>1, <1>2

LEMMA Initially == Init => TypeOK /\ Covered
<1> SUFFICES ASSUME Init PROVE TypeOK /\ Covered
  OBVIOUS
<1>1. call \in [Callers -> Calls] /\ \A c \in Callers : call[c].pc = "idle"
  BY IdleTyped DEF Init, Idle
<1>2. file \in Lists /\ inForce = file /\ steady = file /\ file \in SUBSET Nets
  BY DEF Init, Lists
<1>3. exists \in BOOLEAN /\ allowed \in SUBSET Nets /\ (~exists => allowed = {})
  BY DEF Init
<1>4. stamped \in SUBSET allowed /\ (kind # "aws" => stamped = {}) /\ ours \in BOOLEAN
  BY DEF Init
<1>5. saves \in 0..MaxSaves /\ edits \in 0..MaxTrouble /\ mishaps \in 0..MaxTrouble /\ kind \in Kinds
  BY BoundsAssumption DEF Init
<1>6. TypeOK
  BY <1>1, <1>2, <1>3, <1>4, <1>5 DEF TypeOK
<1> QED BY <1>1, <1>2, <1>3, <1>4, <1>6 DEF Covered

-----------------------------------------------------------------------------
(* What may be taken from the object.                                      *)

\* A step that takes a network out and is not the operator's is a revocation,
\* a write of the whole set that leaves the network out, or Azure's group made
\* over one that is there.
LEMMA TakesOut ==
  ASSUME TypeOK, Covered, [Next]_vars, edits' = edits, NEW n \in allowed \ allowed'
  PROVE  /\ steady' = steady
         /\ \E c \in Callers :
               \/ /\ call[c].pc = "revoke" /\ n \in call[c].todo
                  /\ Goes(c, [call[c] EXCEPT !.todo = @ \ {n}])
               \/ /\ call[c].pc = "write" /\ kind # "aws" /\ n \notin call[c].todo
                  /\ \E a \in {"updated", "failed"} : Ends(c, a)
               \/ kind = "azure" /\ exists /\ call[c].pc = "create" /\ call'[c].pc # "create"
<1>1. CASE UNCHANGED vars
  BY <1>1 DEF vars, object
<1>2. CASE (\E list \in Lists : Save(list)) \/ Restart
  BY <1>2 DEF Save, Restart, object
<1>3. ASSUME NEW m \in Nets, Edits(m) PROVE FALSE
  BY <1>3 DEF Edits, TypeOK
<1>4. ASSUME NEW c \in Callers,
             \/ \E revoke \in SUBSET Nets : PushGoesOn(c, revoke)
             \/ Push(c) \/ Launch(c) \/ Authorized(c) \/ Revoked(c) \/ Expires(c)
             \/ \E m \in Nets : Authorizes(c, m)
      PROVE  FALSE
  BY <1>4 DEF Push, PushGoesOn, Launch, Authorized, Revoked, Expires, Authorizes, AsItIs, object
<1>5. ASSUME NEW c \in Callers, Reads(c) PROVE FALSE
  BY <1>5 DEF Reads, AsItIs, object
<1>6. ASSUME NEW c \in Callers, NEW m \in Nets, Revokes(c, m)
      PROVE  /\ steady' = steady /\ m = n /\ call[c].pc = "revoke" /\ n \in call[c].todo
             /\ Goes(c, [call[c] EXCEPT !.todo = @ \ {n}])
  BY <1>6 DEF Revokes, config
<1>7. ASSUME NEW c \in Callers, Made(c)
      PROVE  kind = "azure" /\ exists
  BY <1>7 DEF Made, Covered
<1>8. ASSUME NEW c \in Callers, Creates(c)
      PROVE  /\ steady' = steady /\ kind = "azure" /\ exists
             /\ call[c].pc = "create" /\ call'[c].pc # "create"
  <2>1. kind = "azure" /\ exists /\ call[c].pc = "create" /\ steady' = steady
    BY <1>7, <1>8 DEF Creates, config
  <2>2. call'[c] = [call[c] EXCEPT !.pc = "write", !.todo = call[c].list]
    BY <1>8, <2>1 DEF Creates, Goes
  <2>3. call[c] \in Calls
    BY DEF TypeOK
  <2> QED BY <2>1, <2>2, <2>3 DEF Calls
<1>9. ASSUME NEW c \in Callers, Writes(c) \/ Fails(c)
      PROVE  /\ steady' = steady
             /\ \/ /\ call[c].pc = "write" /\ kind # "aws" /\ n \notin call[c].todo
                   /\ \E a \in {"updated", "failed"} : Ends(c, a)
                \/ kind = "azure" /\ exists /\ call[c].pc = "create" /\ call'[c].pc # "create"
  <2>1. PICK a \in {"updated", "failed"} : Ends(c, a)
    BY <1>9 DEF Writes, Fails
  <2>2. call'[c].pc = "idle"
    BY <2>1, EndsAfter
  <2> QED BY <1>7, <1>9, <2>1, <2>2 DEF Writes, Fails, config, Sets, AsItIs, object
<1> QED BY <1>1, <1>2, <1>3, <1>4, <1>5, <1>6, <1>8, <1>9 DEF Next

LEMMA SteadyStep ==
  ASSUME TypeOK, Covered, [Next]_vars, edits' = edits, \A c \in Callers : ~RemakesGroup(c),
         NEW n \in steady', n \in allowed
  PROVE  n \in allowed'
<1> SUFFICES ASSUME n \notin allowed' PROVE FALSE
  OBVIOUS
<1>1. n \in steady
  BY TakesOut
<1>2. PICK c \in Callers :
         \/ call[c].pc = "revoke" /\ n \in call[c].todo
         \/ call[c].pc = "write" /\ kind # "aws" /\ n \notin call[c].todo
  BY TakesOut DEF RemakesGroup
<1>3. Sound(call[c])
  BY <1>2 DEF Covered
<1> QED BY <1>1, <1>2, <1>3 DEF Sound

LEMMA NarrowStep ==
  ASSUME TypeOK, Covered, [Next]_vars, edits' = edits, NEW n \in allowed \ allowed'
  PROVE  \E c \in Callers : Acts(c) /\ (call[c].alone => MayTakeOut(c, n))
<1>1. ASSUME NEW c \in Callers, call[c].pc = "revoke", n \in call[c].todo,
             Goes(c, [call[c] EXCEPT !.todo = @ \ {n}])
      PROVE  Acts(c) /\ (call[c].alone => MayTakeOut(c, n))
  <2>1. call'[c] = [call[c] EXCEPT !.todo = @ \ {n}] /\ call[c] \in Calls
    BY <1>1 DEF Goes, TypeOK
  <2>2. n \notin call'[c].todo
    BY <2>1 DEF Calls
  <2>3. Sound(call[c]) /\ (call[c].alone => Knows(call[c]))
    BY <1>1 DEF Covered
  <2> QED BY <1>1, <2>2, <2>3 DEF Acts, MayTakeOut, Sound, Knows
<1>2. ASSUME NEW c \in Callers, call[c].pc = "write", kind # "aws", n \notin call[c].todo,
             NEW a \in {"updated", "failed"}, Ends(c, a)
      PROVE  Acts(c) /\ (call[c].alone => MayTakeOut(c, n))
  <2>1. call'[c].pc = "idle"
    BY <1>2, EndsAfter
  <2>2. Sound(call[c]) /\ (call[c].alone => Knows(call[c])) /\ call[c] \in Calls
    BY <1>2 DEF Covered, TypeOK
  <2>3. kind \in Clouds
    BY KindsAssumption DEF TypeOK
  <2>4. n \notin call[c].list
    BY <1>2, <2>2 DEF Sound
  <2>5. ASSUME call[c].alone, kind = "gcp" PROVE call[c].op = "sync" /\ n \in call[c].revoke /\ ours
    BY <1>2, <2>2, <2>4, <2>5 DEF Sound, Knows
  <2>6. ASSUME call[c].alone, kind = "digitalocean" PROVE call[c].op = "sync"
    BY <1>2, <2>2, <2>6 DEF Sound, Knows
  <2> QED BY <1>2, <2>1, <2>3, <2>4, <2>5, <2>6 DEF Acts, MayTakeOut, Clouds
<1>3. ASSUME NEW c \in Callers, exists, call[c].pc = "create", call'[c].pc # "create"
      PROVE  Acts(c) /\ (call[c].alone => MayTakeOut(c, n))
  BY <1>3 DEF Acts, Covered, Knows
<1> QED BY <1>1, <1>2, <1>3, TakesOut

-----------------------------------------------------------------------------
(* What is answered.                                                       *)

LEMMA KeepsOthers ==
  ASSUME TypeOK, NEW c \in Callers, NEW r, Goes(c, r)
  PROVE  call'[c] = r /\ \A d \in Callers \ {c} : call'[d].answer = call[d].answer
<1>1. ASSUME NEW d \in Callers \ {c} PROVE call'[d].answer = call[d].answer
  <2>1. /\ call[d] \in Calls
        /\ call'[d] = [call[d] EXCEPT !.alone = @ /\ <<exists', allowed'>> = <<exists, allowed>>]
    BY DEF Goes, TypeOK
  <2> QED BY <2>1 DEF Calls
<1> QED BY <1>1 DEF Goes

\* The last step of a push that is told its list is in force.
LEMMA TellsApplied ==
  ASSUME TypeOK, Covered, [Next]_vars, NEW c \in Callers, call[c].pc # "idle",
         call'[c].answer = "applied"
  PROVE  /\ call[c].waited
         /\ \/ call[c].pc = "read" /\ NothingToDo(c) /\ allowed' = allowed
            \/ call[c].pc = "revoke" /\ call[c].todo = {} /\ allowed' = allowed
            \/ call[c].pc = "write" /\ allowed' = call[c].todo /\ kind # "aws"
<1>1. call[c].answer = "none" /\ call[c] \in Calls
  BY DEF Covered, Sound, TypeOK
<1>2. call'[c].pc = "idle"
  BY Inductive DEF Covered, Sound
<1>3. ASSUME UNCHANGED call PROVE FALSE
  BY <1>1, <1>3
<1>4. ASSUME Restart PROVE FALSE
  BY <1>4 DEF Restart, Idle
<1>5. ASSUME NEW n \in Nets, Edits(n) PROVE FALSE
  <2>1. call'[c] = [call[c] EXCEPT !.alone = FALSE]
    BY <1>5 DEF Edits
  <2> QED BY <1>1, <2>1 DEF Calls
<1>6. ASSUME NEW d \in Callers, Expires(d) PROVE FALSE
  <2>1. call'[c] = call[c] \/ call'[c] = [call[c] EXCEPT !.waited = FALSE]
    BY <1>6 DEF Expires, TypeOK
  <2> QED BY <1>1, <2>1 DEF Calls
<1>7. ASSUME NEW d \in Callers, NEW r, Goes(d, r) PROVE c = d
  BY <1>1, <1>7, KeepsOthers
<1>8. ASSUME NEW d \in Callers,
             (\E revoke \in SUBSET Nets : PushGoesOn(d, revoke)) \/ Push(d) \/ Launch(d)
      PROVE  FALSE
  <2>1. ASSUME Push(d) \/ Launch(d) PROVE FALSE
    BY <1>7, <2>1 DEF Push, Launch, Free
  <2>2. ASSUME NEW revoke, PushGoesOn(d, revoke) PROVE FALSE
    <3> DEFINE r == IF Agree(d)
                    THEN [Idle EXCEPT !.op = "sync", !.pc = "read", !.list = inForce,
                                      !.revoke = Heeds(revoke), !.said = call[d].said,
                                      !.alone = TRUE, !.waited = TRUE]
                    ELSE Idle
    <3>1. Goes(d, r)
      BY <2>2 DEF PushGoesOn
    <3>2. r.answer = "none"
      BY DEF Idle
    <3> HIDE DEF r
    <3>3. call'[c] = r
      BY <1>7, <3>1, KeepsOthers
    <3> QED BY <3>2, <3>3
  <2> QED BY <1>8, <2>1, <2>2
<1>9. ASSUME NEW d \in Callers, NEW n \in Nets, Authorizes(d, n) \/ Revokes(d, n) PROVE FALSE
  <2>1. Goes(d, [call[d] EXCEPT !.todo = @ \ {n}])
    BY <1>9 DEF Authorizes, Revokes
  <2>2. call'[c] = [call[c] EXCEPT !.todo = @ \ {n}]
    BY <1>7, <2>1, KeepsOthers
  <2> QED BY <1>1, <1>2, <2>2 DEF Calls
<1>10. ASSUME NEW d \in Callers, NEW pc, NEW todo, pc # "idle",
              Goes(d, [call[d] EXCEPT !.pc = pc, !.todo = todo])
       PROVE  FALSE
  <2>1. call'[c] = [call[c] EXCEPT !.pc = pc, !.todo = todo]
    BY <1>7, <1>10, KeepsOthers
  <2> QED BY <1>1, <1>2, <1>10, <2>1 DEF Calls
<1>11. ASSUME NEW d \in Callers, NEW todo, NEW out, NEW refused,
              Goes(d, [call[d] EXCEPT !.pc = "write", !.todo = todo, !.out = out, !.refused = refused])
       PROVE  FALSE
  <2>1. call'[c] = [call[c] EXCEPT !.pc = "write", !.todo = todo, !.out = out, !.refused = refused]
    BY <1>7, <1>11, KeepsOthers
  <2> QED BY <1>1, <1>2, <2>1 DEF Calls
<1>12. ASSUME NEW d \in Callers,
              NEW a \in {"updated", "unchanged", "skipped", "failed", "none"}, Ends(d, a)
       PROVE  c = d /\ call[c].waited /\ a \in {"updated", "unchanged"}
  <2>1. c = d
    BY <1>7, <1>12 DEF Ends
  <2> QED BY <1>12, <2>1, EndsAfter
<1>13. ASSUME NEW d \in Callers, Creates(d) PROVE FALSE
  BY <1>10, <1>12, <1>13 DEF Creates
<1>14. ASSUME NEW d \in Callers, Reads(d)
       PROVE  call[c].waited /\ call[c].pc = "read" /\ NothingToDo(c) /\ allowed' = allowed
  <2>1. ASSUME Goes(d, [call[d] EXCEPT !.pc = "create"]) PROVE FALSE
    <3>1. call'[c] = [call[c] EXCEPT !.pc = "create"]
      BY <1>7, <2>1, KeepsOthers
    <3> QED BY <1>1, <1>2, <3>1 DEF Calls
  <2>2. AsItIs /\ Ends(d, "unchanged") /\ NothingToDo(d) /\ call[d].pc = "read"
    BY <1>11, <1>12, <1>14, <2>1 DEF Reads
  <2> QED BY <1>12, <2>2 DEF AsItIs, object
<1>15. ASSUME NEW d \in Callers, Authorized(d) PROVE FALSE
  BY <1>10, <1>12, <1>15 DEF Authorized
<1>16. ASSUME NEW d \in Callers, Revoked(d)
       PROVE  call[c].waited /\ call[c].pc = "revoke" /\ call[c].todo = {} /\ allowed' = allowed
  BY <1>12, <1>16 DEF Revoked, AsItIs, object
<1>17. ASSUME NEW d \in Callers, Writes(d)
       PROVE  call[c].waited /\ call[c].pc = "write" /\ allowed' = call[c].todo /\ kind # "aws"
  BY <1>12, <1>17 DEF Writes, Sets
<1>18. ASSUME NEW d \in Callers, Fails(d) PROVE FALSE
  BY <1>12, <1>18 DEF Fails
<1>19. ASSUME NEW list, Save(list) PROVE FALSE
  <2> DEFINE said == IF call[c].pc = "asked" THEN call[c].said \union {list} ELSE call[c].said
  <2>1. call'[c] = [call[c] EXCEPT !.said = said]
    BY <1>19 DEF Save
  <2> HIDE DEF said
  <2> QED BY <1>1, <2>1 DEF Calls
<1> QED BY <1>3, <1>4, <1>5, <1>6, <1>8, <1>9, <1>13, <1>14, <1>15, <1>16, <1>17, <1>18, <1>19
        DEF Next, vars

LEMMA AnswerStep ==
  ASSUME TypeOK, Covered, [Next]_vars, NEW c \in Callers, call[c].pc # "idle",
         call'[c].answer = "applied", call[c].alone
  PROVE  \E list \in call[c].said :
            /\ list \subseteq allowed'
            /\ kind \in {"azure", "digitalocean"} => allowed' = list
<1> DEFINE list == call[c].list
<1>1. Sound(call[c]) /\ Knows(call[c])
  BY DEF Covered
<1>2. call[c].op = "sync" /\ list \in call[c].said
  BY <1>1, TellsApplied DEF Sound
<1> SUFFICES list \subseteq allowed' /\ (kind \in {"azure", "digitalocean"} => allowed' = list)
  BY <1>2
<1>3. CASE call[c].pc = "read" /\ NothingToDo(c) /\ allowed' = allowed
  BY <1>2, <1>3 DEF NothingToDo, PatchTarget
<1>4. CASE call[c].pc = "revoke" /\ call[c].todo = {} /\ allowed' = allowed
  BY <1>1, <1>2, <1>4 DEF Sound, Knows
<1>5. CASE call[c].pc = "write" /\ allowed' = call[c].todo /\ kind # "aws"
  BY <1>1, <1>2, <1>5 DEF Sound
<1> QED BY <1>3, <1>4, <1>5, TellsApplied

-----------------------------------------------------------------------------
LEMMA Always == Spec => [](TypeOK /\ Covered)
<1> QED BY Initially, Inductive, PTL DEF Spec

\* The state is what the code can hold, and what carries the stamp is let in.
THEOREM TypeCorrect == Spec => []TypeOK
  BY Always, PTL

\* ADR-0021's anti-lockout rule: whatever pushes, launches, late writes and
\* clients built from older lists do to the shared object, in any order, a
\* network on every list in force so far is not taken from it, except by a launch
\* that makes Azure's group over the one another launch has made since it looked.
THEOREM NobodyListedIsLockedOut == Spec => SteadyStaysIn
<1>1. TypeOK /\ Covered /\ [Next]_vars
      => [edits' = edits /\ (\A c \in Callers : ~RemakesGroup(c)) =>
             \A n \in steady' : n \in allowed => n \in allowed']_vars
  BY SteadyStep
<1> QED BY <1>1, Always, PTL DEF Spec, SteadyStaysIn

\* Undisturbed calls take a network out only as the operator confirmed, of
\* what is Rocky Surf's own, and never one of their list.
THEOREM NarrowingIsConsented == Spec => NarrowsOnlyOnConsent
<1>1. TypeOK /\ Covered /\ [Next]_vars
      => [\A n \in allowed \ allowed' : edits' = edits =>
             \E c \in Callers : Acts(c) /\ (call[c].alone => MayTakeOut(c, n))]_vars
  BY NarrowStep
<1> QED BY <1>1, Always, PTL DEF Spec, NarrowsOnlyOnConsent

\* An undisturbed push that answers "updated" or "unchanged" leaves in force at
\* the cloud a list the file held after it was asked for, whatever was saved
\* while it waited for its body.
THEOREM PushTellsTheTruth == Spec => AnswerIsTrue
<1>1. TypeOK /\ Covered /\ [Next]_vars
      => [\A c \in Callers :
             (/\ call[c].pc # "idle" /\ call'[c].answer = "applied"
              /\ call[c].alone) =>
                 \E list \in call[c].said :
                     /\ list \subseteq allowed'
                     /\ kind \in {"azure", "digitalocean"} => allowed' = list]_vars
  BY AnswerStep
<1> QED BY <1>1, Always, PTL DEF Spec, AnswerIsTrue
=============================================================================
