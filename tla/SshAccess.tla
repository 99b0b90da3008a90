------------------------------ MODULE SshAccess ------------------------------
(***************************************************************************)
(* Who may reach SSH: the list in the configuration, the provider clients  *)
(* built from it, and the one firewall object of a cloud that every server *)
(* shares.  Saves, pushes of the list, launches and the operator's own     *)
(* edits overlap; a client in use keeps the list it was built with.        *)
(*                                                                         *)
(* Translated from the save of core/src/settings/routes.ts with            *)
(* config/live-config.ts, the push of core/src/network/routes.ts,          *)
(* providers/registry.ts, and ensure* and syncSshAccess of                 *)
(* provider-{aws,azure,digitalocean,gcp}/src/provider.ts.  Hetzner has no  *)
(* such object.  The clouds and the operator are external.                 *)
(***************************************************************************)
EXTENDS Naturals

CONSTANTS
    Nets,       \* the networks a list may name
    Callers,    \* pushes and launches that may be in flight at once
    Kinds,      \* the clouds explored
    MaxSaves,   \* bound on saves and restarts
    MaxTrouble  \* bound on the operator's own edits, failed calls and passed deadlines

Clouds == {"aws", "gcp", "azure", "digitalocean"}
ASSUME KindsAssumption == Kinds \subseteq Clouds
ASSUME BoundsAssumption == MaxSaves \in Nat /\ MaxTrouble \in Nat

\* An empty list does not validate.
Lists == SUBSET Nets \ {{}}

VARIABLES
    kind,
    file, inForce,  \* the list in the file, and the one the clients are built with
    exists, allowed, stamped, ours,
                    \* the object: what it lets in, which entries carry the stamp
                    \* (EC2), whether it carries our description (GCE)
    call,           \* what each caller is doing
    steady,         \* history: networks on every list in force so far
    saves, edits, mishaps

object == <<exists, allowed, stamped, ours>>
config == <<file, inForce, steady>>
bounds == <<saves, edits, mishaps>>
vars == <<kind, config, object, call, bounds>>

-----------------------------------------------------------------------------
\* `said`: history, the lists the file has held since the push was asked for.
Idle == [op |-> "none", pc |-> "idle", saw |-> "nothing", list |-> {}, revoke |-> {}, said |-> {},
         todo |-> {}, out |-> {}, refused |-> FALSE, alone |-> FALSE, waited |-> FALSE,
         answer |-> "none"]

Init ==
    /\ kind \in Kinds
    /\ file \in Lists /\ inForce = file /\ steady = file
    /\ exists \in BOOLEAN
    /\ allowed \in IF exists THEN SUBSET Nets ELSE {{}}
    /\ stamped \in IF kind = "aws" THEN SUBSET allowed ELSE {{}}
    /\ ours \in IF kind = "gcp" /\ exists THEN BOOLEAN ELSE {TRUE}
    /\ call = [c \in Callers |-> Idle]
    /\ saves = 0 /\ edits = 0 /\ mishaps = 0

\* The caller goes on as r; whoever else is in flight is no longer alone with
\* the object if this changes it.
Goes(c, r) ==
    call' = [d \in Callers |->
                IF d = c THEN r
                ELSE [call[d] EXCEPT !.alone = @ /\ <<exists', allowed'>> = <<exists, allowed>>]]

Sets(nets) == exists' = TRUE /\ allowed' = nets /\ UNCHANGED <<stamped, ours>>
AsItIs == UNCHANGED object
Fine == UNCHANGED mishaps
GoesWrong == edits + mishaps < MaxTrouble /\ mishaps' = mishaps + 1

\* The work ends; the caller hears the answer unless its deadline has passed:
\* the list is in force, or it is not, for a reason.
Ends(c, answer) ==
    Goes(c, [Idle EXCEPT !.answer = IF call[c].waited /\ answer \in {"updated", "unchanged"}
                                    THEN "applied" ELSE "none"])

-----------------------------------------------------------------------------
(***************************************************************************)
(* The configuration.                                                      *)
(***************************************************************************)

\* PUT /settings: the file is written, then adopted, unless it names a variable
\* this process was not started with; the clients are rebuilt in the same breath.
Save(list) ==
    /\ saves < MaxSaves /\ saves' = saves + 1
    /\ file' = list
    /\ \/ inForce' = list /\ steady' = steady \cap list
       \/ UNCHANGED <<inForce, steady>>
    /\ call' = [c \in Callers |->
                   [call[c] EXCEPT !.said = IF call[c].pc = "asked" THEN @ \union {list} ELSE @]]
    /\ UNCHANGED <<kind, object, edits, mishaps>>

\* A restart adopts the file; what was in flight is forgotten.
Restart ==
    /\ saves < MaxSaves /\ saves' = saves + 1
    /\ inForce' = file /\ steady' = steady \cap file
    /\ call' = [c \in Callers |-> Idle]
    /\ UNCHANGED <<kind, file, object, edits, mishaps>>

\* The operator lets a network in by hand, or takes one out.
Edits(n) ==
    /\ exists /\ edits + mishaps < MaxTrouble /\ edits' = edits + 1
    /\ \/ n \notin allowed /\ allowed' = allowed \union {n} /\ UNCHANGED stamped
       \/ n \in allowed /\ allowed' = allowed \ {n} /\ stamped' = stamped \ {n}
    /\ call' = [c \in Callers |-> [call[c] EXCEPT !.alone = FALSE]]
    /\ UNCHANGED <<kind, config, exists, ours, saves, mishaps>>

-----------------------------------------------------------------------------
(***************************************************************************)
(* The two operations.                                                     *)
(***************************************************************************)
Free(c) == call[c].pc = "idle"
Heeds(revoke) == IF kind \in {"aws", "gcp"} THEN revoke ELSE {}

\* What a reading of the file shows next to the list in force: a file that cannot
\* be read, or does not name the list, shows nothing.
Reading == IF file = inForce THEN "same" ELSE "other"

\* POST /network/ssh-access/sync reads both, then waits for its body.
Push(c) ==
    /\ Free(c) /\ AsItIs
    /\ \E saw \in {Reading, "nothing"} :
          Goes(c, [Idle EXCEPT !.op = "sync", !.pc = "asked", !.saw = saw,
                               !.said = IF saw = "nothing" THEN {file, inForce} ELSE {file}])
    /\ UNCHANGED <<kind, config, bounds>>

\* Mutant: the push does not compare the file with the process.
Whatever(c) == TRUE

\* NEVER PUSH A CIDR THE RUNNING PROCESS HAS NOT ADOPTED: of what was read before
\* the wait; nothing on disk is no objection.
Agree(c) == call[c].saw # "other"

\* The body has come, `revoke` is what it names; the client is whichever is
\* registered by now.
PushGoesOn(c, revoke) ==
    /\ call[c].pc = "asked" /\ AsItIs
    /\ Goes(c, IF Agree(c)
               THEN [Idle EXCEPT !.op = "sync", !.pc = "read", !.list = inForce, !.revoke = Heeds(revoke),
                                 !.said = call[c].said, !.alone = TRUE, !.waited = TRUE]
               ELSE Idle)
    /\ UNCHANGED <<kind, config, bounds>>

\* provision, up to the object: ensureSecurityGroup, ensureNetwork, ensureFirewall.
Launch(c) ==
    /\ Free(c) /\ AsItIs
    /\ Goes(c, [Idle EXCEPT !.op = "launch", !.pc = "read", !.list = inForce, !.alone = TRUE])
    /\ UNCHANGED <<kind, config, bounds>>

\* The object is made.  EC2 and Azure make it empty and fill it after, the others
\* with the list in it.  One that was made since the launch looked is kept, except
\* that Azure's PUT of the group is a PUT of its rules too: none.
Made(c) ==
    /\ exists' = TRUE /\ ours' = (exists => ours)
    /\ allowed' = IF exists /\ kind # "azure" THEN allowed
                  ELSE IF kind \in {"aws", "azure"} THEN {} ELSE call[c].list
    /\ UNCHANGED stamped

Creates(c) ==
    /\ call[c].pc = "create"
    /\ Made(c)
    /\ IF kind \in {"gcp", "digitalocean"} THEN Ends(c, "none")
       ELSE Goes(c, [call[c] EXCEPT !.pc = "write", !.todo = call[c].list])
    /\ Fine
    /\ UNCHANGED <<kind, config, saves, edits>>

\* Mutant: what to take out is looked for among all that is let in.
ExtrasOrListed(c) == allowed

\* What is let in and not listed, and the other way round.
Extras(c) == allowed \ call[c].list
Missing(c) == call[c].list \ allowed

\* target: the list, and the extras nobody confirmed.
PatchTarget(c) == call[c].list \union (Extras(c) \ call[c].revoke)

\* What is left to authorize at EC2, and what the write sets elsewhere, decided by
\* what was read.
Target(c) ==
    CASE kind = "aws" /\ call[c].op = "sync" -> Missing(c)
      [] kind = "gcp" -> PatchTarget(c)
      [] kind = "digitalocean" /\ call[c].op = "launch" -> allowed \union call[c].list
      [] OTHER -> call[c].list

\* Mutant: a range is taken out although the stamp is not ours.
StampOrNot(c) == Extras(c) \cap call[c].revoke

\* revokeOurs: an extra, confirmed, and stamped.
RevokeOurs(c) == IF kind = "aws" THEN Extras(c) \cap call[c].revoke \cap stamped ELSE {}

\* refusedTheirs: to be taken out, and somebody else's.
RefusedTheirs(c) == IF kind = "aws" THEN (Extras(c) \cap call[c].revoke) \ stamped ELSE {}

\* Nothing to write: an existing GCE rule is not a launch's business, nor is an
\* object that already is as it should be; Azure and a DigitalOcean push write
\* regardless.
NothingToDo(c) ==
    \/ kind = "gcp" /\ (call[c].op = "launch" \/ allowed = PatchTarget(c))
    \/ kind = "digitalocean" /\ call[c].op = "launch" /\ Missing(c) = {}

Reads(c) ==
    /\ call[c].pc = "read"
    /\ \/ ~exists /\ call[c].op = "sync" /\ AsItIs /\ Ends(c, "skipped")
       \/ ~exists /\ call[c].op = "launch" /\ AsItIs /\ Goes(c, [call[c] EXCEPT !.pc = "create"])
       \/ exists /\ kind = "gcp" /\ call[c].op = "sync" /\ ~ours /\ AsItIs /\ Ends(c, "failed")
       \/ /\ exists /\ (kind = "gcp" /\ call[c].op = "sync" => ours) /\ NothingToDo(c)
          /\ AsItIs /\ Ends(c, "unchanged")
       \/ /\ exists /\ (kind = "gcp" /\ call[c].op = "sync" => ours) /\ ~NothingToDo(c)
          /\ AsItIs
          /\ Goes(c, [call[c] EXCEPT
                !.pc = "write",
                !.todo = Target(c),
                !.out = RevokeOurs(c),
                !.refused = RefusedTheirs(c) # {}])
    /\ Fine
    /\ UNCHANGED <<kind, config, saves, edits>>

-----------------------------------------------------------------------------
(***************************************************************************)
(* Writing.                                                                *)
(***************************************************************************)

\* EC2: one range after the other, authorized before any is revoked; a range
\* that is there keeps the description it has.
Authorizes(c, n) ==
    /\ kind = "aws" /\ call[c].pc = "write" /\ n \in call[c].todo
    /\ allowed' = allowed \union {n}
    /\ stamped' = IF n \in allowed THEN stamped ELSE stamped \union {n}
    /\ UNCHANGED <<exists, ours>>
    /\ Goes(c, [call[c] EXCEPT !.todo = @ \ {n}])
    /\ Fine
    /\ UNCHANGED <<kind, config, saves, edits>>

Authorized(c) ==
    /\ kind = "aws" /\ call[c].pc = "write" /\ call[c].todo = {}
    /\ AsItIs
    /\ IF call[c].op = "sync" THEN Goes(c, [call[c] EXCEPT !.pc = "revoke", !.todo = call[c].out])
       ELSE Ends(c, "none")
    /\ Fine
    /\ UNCHANGED <<kind, config, saves, edits>>

Revokes(c, n) ==
    /\ call[c].pc = "revoke" /\ n \in call[c].todo
    /\ allowed' = allowed \ {n} /\ stamped' = stamped \ {n}
    /\ UNCHANGED <<exists, ours>>
    /\ Goes(c, [call[c] EXCEPT !.todo = @ \ {n}])
    /\ Fine
    /\ UNCHANGED <<kind, config, saves, edits>>

\* A range that was to go and is not ours to take: what was asked is not done.
Revoked(c) ==
    /\ call[c].pc = "revoke" /\ call[c].todo = {}
    /\ AsItIs
    /\ Ends(c, IF ~call[c].refused THEN "updated" ELSE "failed")
    /\ Fine
    /\ UNCHANGED <<kind, config, saves, edits>>

\* PUT and PATCH: the whole set at once.
Writes(c) ==
    /\ kind # "aws" /\ call[c].pc = "write"
    /\ Sets(call[c].todo)
    /\ Ends(c, "updated")
    /\ Fine
    /\ UNCHANGED <<kind, config, saves, edits>>

\* A call fails: it was refused, or was carried out and the answer lost.
Fails(c) ==
    /\ call[c].pc \in {"create", "read", "write", "revoke"} /\ GoesWrong
    /\ \/ AsItIs
       \/ call[c].pc = "create" /\ Made(c)
       \/ call[c].pc = "write" /\ kind # "aws" /\ Sets(call[c].todo)
    /\ Ends(c, "failed")
    /\ UNCHANGED <<kind, config, saves, edits>>

\* withDeadline: the caller is told "failed", the work goes on.
Expires(c) ==
    /\ kind # "aws" /\ call[c].op = "sync" /\ call[c].waited /\ call[c].pc \in {"read", "write"}
    /\ GoesWrong
    /\ call' = [call EXCEPT ![c].waited = FALSE]
    /\ UNCHANGED <<kind, config, object, saves, edits>>

Next ==
    \/ \E list \in Lists : Save(list)
    \/ Restart
    \/ \E n \in Nets : Edits(n)
    \/ \E c \in Callers :
          \/ Push(c) \/ Launch(c) \/ Reads(c) \/ Creates(c)
          \/ \E revoke \in SUBSET Nets : PushGoesOn(c, revoke)
          \/ Authorized(c) \/ Revoked(c) \/ Writes(c) \/ Fails(c) \/ Expires(c)
          \/ \E n \in Nets : Authorizes(c, n) \/ Revokes(c, n)

Spec == Init /\ [][Next]_vars

-----------------------------------------------------------------------------
Calls == [op : {"none", "sync", "launch"},
          pc : {"idle", "asked", "read", "create", "write", "revoke"},
          saw : {"nothing", "same", "other"}, list : SUBSET Nets, revoke : SUBSET Nets, said : SUBSET Lists,
          todo : SUBSET Nets, out : SUBSET Nets, refused : BOOLEAN, alone : BOOLEAN,
          waited : BOOLEAN, answer : {"none", "applied"}]

\* Only what is let in carries a stamp; a list in force is never empty.
TypeOK ==
    /\ kind \in Kinds
    /\ file \in Lists /\ inForce \in Lists /\ steady \in SUBSET Nets
    /\ exists \in BOOLEAN /\ ours \in BOOLEAN
    /\ allowed \in SUBSET Nets /\ stamped \in SUBSET allowed
    /\ call \in [Callers -> Calls]
    /\ saves \in 0..MaxSaves /\ edits \in 0..MaxTrouble /\ mishaps \in 0..MaxTrouble

\* A launch that had found no group makes it over the one another has made since.
RemakesGroup(c) ==
    kind = "azure" /\ exists /\ call[c].pc = "create" /\ call'[c].pc # "create"

(***************************************************************************)
(* A network that stays on the list is never shut out: no push, launch,    *)
(* late write of an abandoned push or client built from an older list      *)
(* takes it from the object, in whatever order they land.  (ADR-0021's     *)
(* anti-lockout rule; the operator's own edits aside, and Azure's group    *)
(* made twice by overlapping first launches, whose rules the second takes. *)
(***************************************************************************)
SteadyStaysIn ==
    [][ edits' = edits /\ (\A c \in Callers : ~RemakesGroup(c)) =>
            \A n \in steady' : n \in allowed => n \in allowed' ]_vars

\* The step is caller c's own.
Acts(c) == call'[c].pc # call[c].pc \/ call'[c].todo # call[c].todo

\* What takes n out when c has had the object to itself: at EC2 and GCE a push
\* that was told to, of what is ours; at Azure any write of a list without it,
\* at DigitalOcean a push of one.
MayTakeOut(c, n) ==
    /\ n \notin call[c].list
    /\ CASE kind = "aws" -> call[c].op = "sync" /\ n \in call[c].revoke \cap stamped
         [] kind = "gcp" -> call[c].op = "sync" /\ n \in call[c].revoke /\ ours
         [] kind = "digitalocean" -> call[c].op = "sync"
         [] OTHER -> TRUE

(***************************************************************************)
(* Access narrows only by an operator's word: provision is additive (where *)
(* the object is not written whole), a push takes out only confirmed       *)
(* ranges that are ours, never a range of the list.  Of calls that nobody  *)
(* interfered with; a stale read may cost a network, see the README.       *)
(***************************************************************************)
NarrowsOnlyOnConsent ==
    [][ \A n \in allowed \ allowed' : edits' = edits =>
            \E c \in Callers : Acts(c) /\ (call[c].alone => MayTakeOut(c, n)) ]_vars

(***************************************************************************)
(* "updated" and "unchanged" are true: a list the file held after the push *)
(* was asked for (or, when the file could not be read, the one in force)   *)
(* is let in, and at the clouds that are written whole nothing else is;    *)
(* whatever was saved, adopted or not, while the push waited.              *)
(***************************************************************************)
AnswerIsTrue ==
    [][ \A c \in Callers :
          (/\ call[c].pc # "idle" /\ call'[c].answer = "applied"
           /\ call[c].alone) =>
              \E list \in call[c].said :
                  /\ list \subseteq allowed'
                  /\ kind \in {"azure", "digitalocean"} => allowed' = list ]_vars
=============================================================================
