---------------------------- MODULE Provisioning ----------------------------
(***************************************************************************)
(* What the five provider packages do at their clouds: provision, describe *)
(* and terminate, call by call, with answers lost on the way back, calls   *)
(* the transport tries again, clouds that refuse, and creates of two       *)
(* servers that share a user's SSH key.                                    *)
(*                                                                         *)
(* A server is one machine and, depending on the cloud, objects beside it: *)
(* SSH keys at Hetzner and DigitalOcean, an address and an interface at    *)
(* Azure.  The question is whose they are, and who comes back for them:    *)
(* core forgets a server whose provision threw, and remembers of the       *)
(* others only the handle.                                                 *)
(*                                                                         *)
(* Translated from packages/provider-{aws,azure,digitalocean,gcp,hetzner}/ *)
(* src/provider.ts and api.ts.  The clouds are external.  The firewalls    *)
(* the servers share are SshAccess's subject.                              *)
(***************************************************************************)
EXTENDS Naturals, FiniteSets

CONSTANTS
    Servers,    \* servers created at one cloud
    Kinds,      \* the clouds explored
    Retries,    \* times the transport repeats a call without an answer
    Grace,      \* reads of an absent machine before describe believes it
    MaxLag,     \* reads for which a cloud may not show a new machine yet
    MaxMishaps  \* bound on lost answers, refusals and failed reads

Clouds == {"hetzner", "digitalocean", "azure", "gcp", "aws"}

ASSUME ServersAssumption == IsFiniteSet(Servers) /\ Servers \cap {"nobody", "stranger"} = {}
ASSUME KindsAssumption == Kinds \subseteq Clouds
\* DESCRIBE_ABSENCE_GRACE is longer than any gap that was measured.
ASSUME GraceAssumption == Grace \in Nat \ {0} /\ MaxLag \in 0..(Grace - 1)
ASSUME BoundsAssumption == Retries \in Nat /\ MaxMishaps \in Nat

\* The key core mints for a server, and the one the user gives every server.
Supplied == "supplied"
Keys == Servers \union {Supplied}

VARIABLES
    kind,     \* the cloud
    \* at the cloud
    machine,  \* per server, the machines that carry its id: 1, or a second one
    parts,    \* per server, its address and interface (Azure)
    label,    \* per key object: the server it was minted for, or "nobody" when absent
    going,    \* machines whose deletion has been accepted
    taken,    \* servers whose machine's name somebody else's machine holds
    bare,     \* those whose machine carries no tag of a request (Azure)
    \* in the provider's calls
    pc, tries, todo,   \* per server: where its call is, repeats, keys left to do
    ids, owned, \* per server, the key objects to create it with, and the ones it owns
    handle,   \* what core keeps: the machine, and the keys to delete with it
    seen,     \* machines describe has seen running
    look,     \* reads this describe has spent
    lag,      \* reads for which the cloud will not show the machine
    view,     \* what describe last answered
    \* history
    loose,    \* servers the code itself could not clean up after: it lost the last answer,
              \* a delete failed, it threw before the block that cleans up, or the cloud
              \* did not show it the machine it had made
    mishaps

cloud == <<machine, parts, label, going, taken, bare>>
calls == <<pc, tries, todo, ids, owned, handle>>
reads == <<seen, look, lag, view>>
vars == <<kind, cloud, calls, reads, loose, mishaps>>

-----------------------------------------------------------------------------
HasKeys == kind \in {"hetzner", "digitalocean"}
NoHandle == [id |-> 0, keys |-> {}]

\* Of the machines of a server's name: the one somebody else made.
Stranger == 3
There(s, id) == id \in machine[s] \/ (id = Stranger /\ s \in taken)

\* The ones a read shows: not, for a while, one that was just made.
Shown(s, id) == There(s, id) /\ (id # Stranger => lag[s] = 0)

\* A key object is known by its id: the key, and the server it was minted for.
KeyObject(k) == <<k, label[k]>>
Minted(s) == {KeyObject(k) : k \in {x \in Keys : label[x] = s}}

Init ==
    /\ kind \in Kinds
    /\ machine = [s \in Servers |-> {}] /\ parts = [s \in Servers |-> {}]
    /\ \E supplied \in {"nobody", "stranger"} :
          label = [k \in Keys |-> IF k = Supplied THEN supplied ELSE "nobody"]
    /\ going = {}
    /\ taken \in IF kind \in {"gcp", "azure", "hetzner"} THEN {{}} \union {{s} : s \in Servers} ELSE {{}}
    /\ bare \in IF kind = "azure" THEN SUBSET taken ELSE {{}}
    /\ pc = [s \in Servers |-> "idle"] /\ tries = [s \in Servers |-> 0]
    /\ todo = [s \in Servers |-> {}]
    /\ ids = [s \in Servers |-> {}] /\ owned = [s \in Servers |-> {}]
    /\ handle = [s \in Servers |-> NoHandle]
    /\ seen = {} /\ look = [s \in Servers |-> 0] /\ lag = [s \in Servers |-> 0]
    /\ view = [s \in Servers |-> "none"]
    /\ loose = {}
    /\ mishaps = 0

Nobody == UNCHANGED loose
Loose(s) == loose' = loose \union {s}

GoesWrong == mishaps < MaxMishaps /\ mishaps' = mishaps + 1
Fine == UNCHANGED mishaps

Goes(s, to) == pc' = [pc EXCEPT ![s] = to] /\ tries' = [tries EXCEPT ![s] = 0]

-----------------------------------------------------------------------------
(***************************************************************************)
(* The transport.  A call that got no answer is repeated; when the last    *)
(* one got none either it is an error, and the caller does not know.       *)
(***************************************************************************)

\* Hetzner's loop over the keys, and its look for a machine whose name is taken,
\* stand outside the block that cleans up.
OutsideTheBlock(s) == kind = "hetzner" /\ pc[s] \in {"keys", "mint", "relook", "adopt"}

\* Where an error takes a provision; Azure looks before it cleans up.
OnError(s) ==
    CASE kind = "azure" -> "checking"
      [] HasKeys /\ ~OutsideTheBlock(s) -> "reaping"
      [] OTHER -> "threw"

\* call(): no answer, and the call is made again.
Repeats(s) ==
    /\ GoesWrong
    /\ tries[s] < Retries
    /\ tries' = [tries EXCEPT ![s] = @ + 1]
    /\ UNCHANGED pc

\* call(): no answer to the last repeat.
GivesUp(s, to) == GoesWrong /\ tries[s] = Retries /\ Goes(s, to)

\* The cloud answers with an error that is final.
Refused(s, to) == GoesWrong /\ Goes(s, to)

-----------------------------------------------------------------------------
(***************************************************************************)
(* provision: before the machine.                                          *)
(***************************************************************************)

\* Azure and DigitalOcean look for the machine first; the others let the create
\* itself find it.
Starts ==
    CASE kind \in {"azure", "digitalocean"} -> "finding" [] kind = "hetzner" -> "keys" [] OTHER -> "create"

Provision(s) ==
    /\ pc[s] = "idle"
    /\ Goes(s, Starts)
    /\ todo' = [todo EXCEPT ![s] = IF HasKeys THEN {s, Supplied} ELSE {}]
    /\ UNCHANGED <<kind, cloud, ids, owned, handle, reads, loose, mishaps>>

\* A replay of a provision that threw, by a caller that tries the same again.
Replays(s) ==
    /\ pc[s] = "threw"
    /\ Goes(s, Starts)
    /\ todo' = [todo EXCEPT ![s] = IF HasKeys THEN {s, Supplied} ELSE {}]
    /\ ids' = [ids EXCEPT ![s] = {}] /\ owned' = [owned EXCEPT ![s] = {}]
    /\ UNCHANGED <<kind, cloud, handle, reads, loose, mishaps>>

\* The handle core will keep.
Returns(s, id, keys) ==
    /\ Goes(s, "made")
    /\ handle' = [handle EXCEPT ![s] = [id |-> id, keys |-> keys]]
    /\ loose' = loose \ {s}

\* findVm, findByServerId: a machine that is already there is the one to return,
\* with the keys minted for it; Azure refuses one another request has tagged.
Finds(s) ==
    /\ pc[s] = "finding"
    /\ \/ Refused(s, "threw") /\ UNCHANGED handle /\ Nobody
       \/ /\ Fine
          /\ IF s \in taken \ bare THEN Goes(s, "threw") /\ UNCHANGED handle /\ Nobody
             ELSE IF s \in taken THEN Returns(s, Stranger, {})
             ELSE IF machine[s] # {} /\ lag[s] = 0
             THEN \E id \in machine[s] : Returns(s, id, Minted(s))
             ELSE Goes(s, IF kind = "azure" THEN "address" ELSE "keys") /\ UNCHANGED handle /\ Nobody
    /\ UNCHANGED <<kind, cloud, todo, ids, owned, reads>>

\* Azure's address and interface: a PUT by name, the same however often it lands.
PartOf(s) == IF pc[s] = "address" THEN "ip" ELSE "nic"
Makes(s) == parts' = [parts EXCEPT ![s] = @ \union {PartOf(s)}]

MakesPart(s) ==
    /\ pc[s] \in {"address", "interface"}
    /\ \/ Fine /\ Makes(s) /\ Goes(s, IF pc[s] = "address" THEN "interface" ELSE "create")
       \/ (Repeats(s) \/ GivesUp(s, OnError(s))) /\ (Makes(s) \/ UNCHANGED parts)
       \/ Refused(s, OnError(s)) /\ UNCHANGED parts
    /\ UNCHANGED <<kind, machine, label, going, taken, bare, todo, ids, owned, handle, reads, loose>>

-----------------------------------------------------------------------------
(***************************************************************************)
(* ensureSshKey: find or create each key.                                  *)
(***************************************************************************)

\* Mutant: a key that matches is as good as one's own.
AnyMatch(s, k) == label[k] # "nobody"

\* Mutant: only a create that was answered makes a key one's own.
OnlyWhatWasAnswered(s, k) == FALSE

\* mintedHere: ownership is decided by the labels, not by whose call was answered.
MintedHere(s, k) == label[k] = s

Uses(s, k, own) ==
    /\ ids' = [ids EXCEPT ![s] = @ \union {<<k, label'[k]>>}]
    /\ owned' = [owned EXCEPT ![s] = IF own THEN @ \union {<<k, label'[k]>>} ELSE @]
    /\ todo' = [todo EXCEPT ![s] = @ \ {k}]
    /\ Goes(s, IF todo[s] = {k} THEN "create" ELSE "keys")
    /\ Nobody

\* What an error in the loop leaves behind nobody comes back for, when Hetzner's
\* loop throws or the lookup that would have found the key fails.
KeyError(s, to) ==
    /\ IF to = "threw" \/ (to = "reaping" /\ pc[s] = "relook") THEN Loose(s) ELSE Nobody
    /\ UNCHANGED <<ids, owned, todo>>

\* The server's own key goes first.
NextKey(s, k) == k \in todo[s] /\ (s \in todo[s] => k = s)
keyFrame == <<kind, machine, parts, going, taken, bare, handle, reads>>

LooksUpKey(s, k) ==
    /\ pc[s] \in {"keys", "relook"} /\ NextKey(s, k)
    /\ UNCHANGED label
    /\ \/ Fine /\ label[k] # "nobody" /\ Uses(s, k, MintedHere(s, k))
       \/ /\ Fine /\ label[k] = "nobody" /\ pc[s] = "keys"
          /\ Goes(s, "mint") /\ UNCHANGED <<ids, owned, todo, loose>>
       \/ /\ Fine /\ label[k] = "nobody" /\ pc[s] = "relook"
          /\ Goes(s, OnError(s)) /\ KeyError(s, OnError(s))
       \/ Refused(s, OnError(s)) /\ KeyError(s, OnError(s))
    /\ UNCHANGED keyFrame

\* DigitalOcean looks the key up again after any error, Hetzner after the one
\* that says the key is there already.
AfterMintError(s) == IF kind = "digitalocean" THEN "relook" ELSE OnError(s)

MintsKey(s, k) ==
    /\ pc[s] = "mint" /\ NextKey(s, k)
    /\ \/ /\ label[k] # "nobody" /\ Fine /\ Goes(s, "relook")
          /\ UNCHANGED <<label, ids, owned, todo, loose>>
       \/ /\ label[k] = "nobody" /\ Fine
          /\ label' = [label EXCEPT ![k] = s]
          /\ Uses(s, k, TRUE)
       \/ /\ \/ Repeats(s) /\ UNCHANGED <<ids, owned, todo, loose>>
             \/ GivesUp(s, AfterMintError(s)) /\ KeyError(s, AfterMintError(s))
          /\ \/ UNCHANGED label
             \/ label[k] = "nobody" /\ label' = [label EXCEPT ![k] = s]
       \/ /\ Refused(s, AfterMintError(s)) /\ KeyError(s, AfterMintError(s))
          /\ UNCHANGED label
    /\ UNCHANGED keyFrame

-----------------------------------------------------------------------------
(***************************************************************************)
(* The machine.                                                            *)
(***************************************************************************)

\* What the machine of a create that reaches the cloud is: EC2 and GCE know the
\* request again, ARM and Hetzner the name; DigitalOcean makes another.
Created(s) == IF kind = "digitalocean" /\ machine[s] # {} THEN 2 ELSE 1

Lands(s) ==
    /\ machine' = [machine EXCEPT ![s] = @ \union {Created(s)}]
    /\ \E n \in 0..MaxLag : lag' = [lag EXCEPT ![s] = IF machine[s] = {} THEN n ELSE @]
DoesNotLand == UNCHANGED <<machine, lag>>

\* A key it names is gone, or the name is held: the cloud says no.
NamesAGoneKey(s) == \E x \in ids[s] : x # KeyObject(x[1])
NameIsHeld(s) ==
    \/ kind = "hetzner" /\ machine[s] # {}
    \/ kind \in {"gcp", "hetzner"} /\ s \in taken

\* GCE forgets request ids: then the machine of an earlier try holds the name.
IsForgotten(s) == kind = "gcp" /\ machine[s] # {}
Accepted(s) == ~NamesAGoneKey(s) /\ ~NameIsHeld(s)

\* An error that answers a repeat says nothing of the call before it.
CreateError(s) ==
    /\ Goes(s, OnError(s))
    /\ IF tries[s] = 0 THEN Nobody ELSE Loose(s)

CreatesMachine(s) ==
    /\ pc[s] = "create"
    /\ \/ Fine /\ Accepted(s) /\ Lands(s) /\ Returns(s, Created(s), owned[s])
       \/ /\ Fine /\ NamesAGoneKey(s) /\ CreateError(s)
          /\ DoesNotLand /\ UNCHANGED handle
       \/ /\ Fine /\ ~NamesAGoneKey(s) /\ (NameIsHeld(s) \/ IsForgotten(s)) /\ Goes(s, "adopt")
          /\ DoesNotLand /\ UNCHANGED <<handle, loose>>
       \/ /\ \/ Repeats(s) /\ Nobody
             \/ GivesUp(s, OnError(s)) /\ Loose(s)
          /\ DoesNotLand \/ (Accepted(s) /\ Lands(s))
          /\ UNCHANGED handle
       \/ GoesWrong /\ CreateError(s) /\ DoesNotLand /\ UNCHANGED handle
    /\ UNCHANGED <<kind, parts, label, going, taken, bare, todo, ids, owned, seen, look, view>>

\* The name is held: by the machine of an earlier try, which is returned with the
\* keys that carry its label, or by somebody else's, which GCE's labels tell and
\* Hetzner does not ask.  A lookup that does not show the machine yet ends the
\* provision: Hetzner deletes the keys, and nobody comes back for the machine.
Adopts(s) ==
    /\ pc[s] = "adopt"
    /\ \/ Fine /\ \E id \in machine[s] : Shown(s, id) /\ Returns(s, id, Minted(s))
       \/ /\ Fine /\ \E id \in machine[s] : ~Shown(s, id)
          /\ Goes(s, IF kind = "hetzner" THEN "reaping" ELSE "threw") /\ Loose(s) /\ UNCHANGED handle
       \/ Fine /\ s \in taken /\ kind = "hetzner" /\ Returns(s, Stranger, Minted(s))
       \/ Fine /\ s \in taken /\ kind # "hetzner" /\ Goes(s, "threw") /\ UNCHANGED <<handle, loose>>
       \/ Refused(s, OnError(s)) /\ Loose(s) /\ UNCHANGED handle
    /\ UNCHANGED <<kind, cloud, todo, ids, owned, reads>>

-----------------------------------------------------------------------------
(***************************************************************************)
(* An error: what was made so far is deleted, quietly.                     *)
(***************************************************************************)

\* The tag on the machine is this request's.
IsOurs(s) == machine[s] # {} /\ lag[s] = 0

\* findVm after an error: the machine may exist, whoever's call threw.
ChecksFirst(s) ==
    /\ pc[s] = "checking"
    /\ \/ Fine /\ IsOurs(s) /\ Returns(s, 1, {})
       \/ /\ Fine /\ ~IsOurs(s) /\ Goes(s, "reaping") /\ UNCHANGED handle
          /\ IF lag[s] = 0 THEN loose' = loose \ {s} ELSE Nobody
       \/ Refused(s, "reaping") /\ Loose(s) /\ UNCHANGED handle
    /\ UNCHANGED <<kind, cloud, todo, ids, owned, reads>>

\* Mutant: the error leaves with everything still there.
ReapsNothing(s) == {}

\* What a provision that throws deletes.
ToReap(s) == IF kind = "azure" THEN parts[s] ELSE owned[s]

\* The cloud deletes them, except `kept`, which it or a lost call leaves: the
\* interface of a live machine, the address of a live interface.
Deletes(s, gone, kept) ==
    IF kind = "azure"
    THEN /\ machine[s] # {} => kept = gone
         /\ "nic" \in kept => "ip" \notin gone \ kept
         /\ parts' = [parts EXCEPT ![s] = @ \ (gone \ kept)]
         /\ UNCHANGED label
    ELSE /\ label' = [k \in Keys |-> IF KeyObject(k) \in gone \ kept THEN "nobody" ELSE label[k]]
         /\ UNCHANGED parts

\* reapQuietly: one after the other; a delete that fails is let go, and the error
\* that leaves is the first one.
Reaps(s) ==
    /\ pc[s] = "reaping"
    /\ \E kept \in SUBSET ToReap(s) :
          /\ Deletes(s, ToReap(s), kept)
          /\ \/ Fine /\ Nobody /\ (kept = {} \/ (kind = "azure" /\ machine[s] # {}))
             \/ GoesWrong /\ Loose(s) /\ kept # {}
    /\ Goes(s, "threw")
    /\ UNCHANGED <<kind, machine, going, taken, bare, todo, ids, owned, handle, reads>>

-----------------------------------------------------------------------------
(***************************************************************************)
(* terminate: the machine, then what it owns; not found is success.        *)
(***************************************************************************)

\* Hetzner and DigitalOcean delete the owned keys; Azure's cascade takes the
\* address and the interface, unless there was no machine to cascade from.
GoesWithIt(s) ==
    CASE HasKeys -> handle[s].keys
      [] kind = "azure" /\ ~There(s, handle[s].id) -> parts[s]
      [] OTHER -> {}

\* A machine the cloud does not show yet is not found, and not deleted.
IsHidden(s) == There(s, handle[s].id) /\ ~Shown(s, handle[s].id)

DeletesMachine(s) ==
    going' = IF Shown(s, handle[s].id) THEN going \union {<<s, handle[s].id>>} ELSE going

\* Azure goes on to the interface of the hidden machine, which the cloud will not
\* delete: terminate throws.
Terminate(s) ==
    /\ pc[s] = "made"
    /\ \/ /\ Fine /\ ~(kind = "azure" /\ IsHidden(s))
          /\ Goes(s, "released") /\ IF IsHidden(s) THEN Loose(s) ELSE Nobody
          /\ DeletesMachine(s)
          /\ Deletes(s, GoesWithIt(s), IF kind = "azure" /\ machine[s] # {} THEN GoesWithIt(s) ELSE {})
       \/ /\ Fine /\ kind = "azure" /\ IsHidden(s)
          /\ UNCHANGED <<pc, tries, loose, going, parts, label>>
       \/ \* the delete, or one of those after it, fails: terminate throws
          /\ GoesWrong /\ UNCHANGED <<pc, tries, loose>>
          /\ \/ UNCHANGED <<going, parts, label>>
             \/ /\ DeletesMachine(s)
                /\ \E kept \in SUBSET GoesWithIt(s) : Deletes(s, GoesWithIt(s), kept)
    /\ seen' = seen \ {s}
    /\ UNCHANGED <<kind, machine, taken, bare, todo, ids, owned, handle, look, lag, view>>

-----------------------------------------------------------------------------
(***************************************************************************)
(* describe: absence is believed after a grace, or at once of a machine    *)
(* seen running before.                                                    *)
(***************************************************************************)

\* Mutant: the first not-found is the answer.
NoGrace(s) == 1

\* attempts
Attempts(s) == IF s \in seen THEN 1 ELSE Grace

Describe(s) ==
    /\ pc[s] \in {"made", "released"} /\ view[s] # "terminated"
    /\ \/ /\ Shown(s, handle[s].id)
          /\ view' = [view EXCEPT ![s] = IF <<s, handle[s].id>> \in going THEN "terminating" ELSE "running"]
          /\ seen' = IF <<s, handle[s].id>> \in going THEN seen ELSE seen \union {s}
          /\ look' = [look EXCEPT ![s] = 0] /\ UNCHANGED lag
       \/ /\ ~Shown(s, handle[s].id)
          /\ lag' = [lag EXCEPT ![s] = IF @ = 0 THEN 0 ELSE @ - 1]
          /\ IF look[s] + 1 < Attempts(s)
             THEN look' = [look EXCEPT ![s] = @ + 1] /\ UNCHANGED view
             ELSE look' = [look EXCEPT ![s] = 0] /\ view' = [view EXCEPT ![s] = "terminated"]
          /\ UNCHANGED seen
    /\ UNCHANGED <<kind, cloud, calls, loose, mishaps>>

-----------------------------------------------------------------------------
(***************************************************************************)
(* The clouds.                                                             *)
(***************************************************************************)

\* A deletion that was accepted is carried out; Azure's takes the interface and
\* the address with the machine.
MachineGoes(s, id) ==
    /\ <<s, id>> \in going
    /\ machine' = [machine EXCEPT ![s] = @ \ {id}]
    /\ parts' = [parts EXCEPT ![s] = {}]
    /\ taken' = IF id = Stranger THEN taken \ {s} ELSE taken
    /\ going' = going \ {<<s, id>>}
    /\ UNCHANGED <<kind, label, bare, calls, reads, loose, mishaps>>

\* A new machine becomes visible to every read.
Appears(s) ==
    /\ lag[s] > 0 /\ lag' = [lag EXCEPT ![s] = 0]
    /\ UNCHANGED <<kind, cloud, calls, seen, look, view, loose, mishaps>>

Next ==
    \E s \in Servers :
        \/ Provision(s) \/ Replays(s) \/ Finds(s) \/ MakesPart(s)
        \/ \E k \in Keys : LooksUpKey(s, k) \/ MintsKey(s, k)
        \/ CreatesMachine(s) \/ Adopts(s) \/ ChecksFirst(s) \/ Reaps(s)
        \/ Terminate(s) \/ Describe(s) \/ Appears(s)
        \/ \E id \in {1, 2, Stranger} : MachineGoes(s, id)

Spec == Init /\ [][Next]_vars

-----------------------------------------------------------------------------
Stages == {"idle", "finding", "address", "interface", "keys", "mint", "relook", "create", "adopt",
           "checking", "reaping", "threw", "made", "released"}

KeyObjects == Keys \X (Servers \union {"stranger"})

\* Every variable holds what its declaration says; a handle names machines and
\* keys that can exist.
TypeOK ==
    /\ kind \in Kinds
    /\ machine \in [Servers -> SUBSET {1, 2}] /\ parts \in [Servers -> SUBSET {"ip", "nic"}]
    /\ label \in [Keys -> Servers \union {"nobody", "stranger"}]
    /\ going \subseteq Servers \X {1, 2, Stranger} /\ taken \subseteq Servers /\ bare \subseteq Servers
    /\ pc \in [Servers -> Stages] /\ tries \in [Servers -> 0..Retries]
    /\ todo \in [Servers -> SUBSET Keys]
    /\ ids \in [Servers -> SUBSET KeyObjects] /\ owned \in [Servers -> SUBSET KeyObjects]
    /\ handle \in [Servers -> [id : {0, 1, 2, Stranger}, keys : SUBSET KeyObjects]]
    /\ seen \subseteq Servers /\ look \in [Servers -> 0..(Grace - 1)]
    /\ lag \in [Servers -> 0..MaxLag]
    /\ view \in [Servers -> {"none", "running", "terminating", "terminated"}]
    /\ loose \subseteq Servers
    /\ mishaps \in 0..MaxMishaps

(***************************************************************************)
(* The handle core keeps reaches everything the provision made, also when  *)
(* answers were lost on the way, the machine was adopted from an earlier   *)
(* try, or a key was minted by a call that seemed to fail.                 *)
(***************************************************************************)
HandleCoversAll ==
    \A s \in Servers :
        pc[s] = "made" =>
            /\ Minted(s) \subseteq handle[s].keys
            /\ kind # "digitalocean" => machine[s] \subseteq {handle[s].id}

(***************************************************************************)
(* A provision that threw, and a server that was terminated, leave nothing *)
(* at the cloud that would be paid for and that no handle names; except    *)
(* where the code itself lost track (loose), and the second droplet.       *)
(***************************************************************************)
NothingLeftBehind ==
    \A s \in Servers \ loose :
        /\ pc[s] \in {"threw", "released"} => Minted(s) = {}
        /\ pc[s] = "threw" => machine[s] = {} /\ parts[s] = {}
        /\ pc[s] = "released" =>
              /\ kind # "digitalocean" => \A id \in machine[s] : <<s, id>> \in going
              /\ machine[s] = {} => parts[s] = {}

(***************************************************************************)
(* A key only goes when the server it was minted for is being cleaned up   *)
(* or terminated: never a key the user or another server brought.  And a   *)
(* machine that somebody else made and that holds a server's name goes     *)
(* only where its marks are not asked for: at Hetzner, and at Azure when   *)
(* it has none.                                                            *)
(***************************************************************************)
OnlyOwnResourcesGo ==
    [][ /\ \A k \in Keys :
              label[k] # "nobody" /\ label'[k] = "nobody" =>
                  label[k] \in Servers /\ pc[label[k]] \in {"reaping", "made"}
        /\ taken \ taken' # {} => kind = "hetzner" \/ taken \ taken' \subseteq bare ]_vars

(***************************************************************************)
(* describe answers "terminated" of no machine that exists: core forgets a *)
(* machine it is told is terminated, and the bill goes on.                 *)
(***************************************************************************)
AbsenceIsTrue ==
    \A s \in Servers : view[s] = "terminated" => ~There(s, handle[s].id)

=============================================================================
