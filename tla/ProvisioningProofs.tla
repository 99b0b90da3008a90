------------------------- MODULE ProvisioningProofs -------------------------
(***************************************************************************)
(* What the provider packages leave at a cloud, for any number of servers, *)
(* repeats and mishaps: the handle reaches everything, a failed provision  *)
(* and a termination leave nothing, absence is believed only when true and *)
(* only own keys are deleted.                                              *)
(*                                                                         *)
(* The invariant speaks of one server at a time.  Two servers meet in the  *)
(* user's key only, and there each keeps to the objects minted for it: so  *)
(* what one does leaves what is said of every other (Apart).               *)
(***************************************************************************)
EXTENDS Provisioning, TLAPS

USE DEF Stranger

\* The keys that were minted for a server, by name.
Mine(s) == {k \in Keys : label[k] = s}

\* Which cloud takes a provision to which place.
Journey(s) ==
    /\ pc[s] = "finding" => kind \in {"azure", "digitalocean"}
    /\ pc[s] \in {"address", "interface", "checking"} => kind = "azure"
    /\ pc[s] \in {"keys", "mint", "relook"} => HasKeys
    /\ pc[s] = "adopt" => kind \in {"hetzner", "gcp"}
    /\ pc[s] = "reaping" => HasKeys \/ kind = "azure"

\* A server mints its own key and the user's, at clouds that have keys, owns
\* only what it minted, and owns or is yet to come to all of it.
KeysKnown(s) ==
    /\ todo[s] \subseteq {s, Supplied}
    /\ Mine(s) \subseteq {s, Supplied}
    /\ ~HasKeys => Mine(s) = {} /\ todo[s] = {}
    /\ pc[s] \in {"create", "adopt"} => todo[s] = {}
    /\ pc[s] = "finding" /\ HasKeys => todo[s] = {s, Supplied}
    /\ owned[s] \subseteq Keys \X {s}
    /\ handle[s].keys \subseteq Keys \X {s}
    /\ pc[s] \in {"keys", "mint", "relook", "create"} =>
          \A k \in Mine(s) : k \in todo[s] \/ <<k, s>> \in owned[s]

\* One machine, but at DigitalOcean; none where the name is taken; addresses and
\* interfaces at Azure; a handle covers what there is.
MachinesKnown(s) ==
    /\ kind # "digitalocean" => machine[s] \subseteq {1}
    /\ s \in taken => /\ kind \in {"azure", "gcp", "hetzner"}
                      /\ kind = "azure" => pc[s] \in {"idle", "finding", "threw", "made", "released"}
    /\ handle[s].id = Stranger => pc[s] \in {"made", "released"} /\ (kind = "hetzner" \/ s \in bare)
    /\ s \in taken \/ handle[s].id = Stranger => machine[s] = {} /\ lag[s] = 0 /\ parts[s] = {}
    /\ <<s, Stranger>> \in going => handle[s].id = Stranger
    /\ kind # "azure" => parts[s] = {}
    /\ \A id \in {1, 2, Stranger} : <<s, id>> \in going => pc[s] \in {"made", "released"}
    /\ pc[s] = "made" => \A k \in Mine(s) : <<k, s>> \in handle[s].keys
    /\ pc[s] \in {"made", "released"} /\ kind # "digitalocean" => handle[s].id \in {1, Stranger}

\* The reads a describe has spent and those for which the cloud may still hide
\* the machine stay within the lag, so the grace outlasts it.
ViewsTrue(s) ==
    /\ pc[s] \notin {"made", "released"} => look[s] = 0 /\ s \notin seen /\ view[s] = "none"
    /\ s \in seen => lag[s] = 0
    /\ handle[s].id \in machine[s] /\ lag[s] > 0 => look[s] + lag[s] <= MaxLag
    /\ view[s] = "terminated" => ~There(s, handle[s].id)

\* What there may be at the cloud when the code has not lost track.
Tracked(s) ==
    s \notin loose =>
        /\ pc[s] \notin {"create", "adopt", "made", "released"} => machine[s] = {}
        /\ pc[s] = "create" /\ tries[s] = 0 => machine[s] = {}
        /\ pc[s] \in {"idle", "finding", "threw"} => parts[s] = {}
        /\ pc[s] \in {"idle", "finding", "threw", "released"} => Mine(s) = {}
        /\ pc[s] \in {"keys", "reaping"} => \A k \in Mine(s) : <<k, s>> \in owned[s]
        /\ pc[s] \in {"mint", "relook"} =>
              \A k \in Mine(s) : <<k, s>> \in owned[s] \/ NextKey(s, k)
        /\ pc[s] = "released" =>
              /\ kind # "digitalocean" => \A id \in machine[s] : <<s, id>> \in going
              /\ machine[s] = {} => parts[s] = {}

ServerInv(s) == Journey(s) /\ KeysKnown(s) /\ MachinesKnown(s) /\ ViewsTrue(s) /\ Tracked(s)

IInv == TypeOK /\ \A s \in Servers : ServerInv(s)

-----------------------------------------------------------------------------
(***************************************************************************)
(* Servers apart.                                                          *)
(***************************************************************************)

\* A step leaves alone what the invariant says of server t.
LeftAlone(t) ==
    /\ machine'[t] = machine[t] /\ parts'[t] = parts[t]
    /\ pc'[t] = pc[t] /\ tries'[t] = tries[t] /\ todo'[t] = todo[t]
    /\ owned'[t] = owned[t] /\ handle'[t] = handle[t]
    /\ look'[t] = look[t] /\ lag'[t] = lag[t] /\ view'[t] = view[t]
    /\ t \in seen' <=> t \in seen
    /\ t \in loose' <=> t \in loose
    /\ t \in taken' <=> t \in taken
    /\ \A id \in {1, 2, Stranger} : <<t, id>> \in going' <=> <<t, id>> \in going
    /\ Mine(t)' = Mine(t)

Shared == UNCHANGED <<kind, bare>>

\* Then what it says stays true.
LEMMA LeftAloneKeeps ==
    ASSUME TypeOK, NEW t \in Servers, ServerInv(t), Shared, LeftAlone(t)
    PROVE  ServerInv(t)'
<1> USE DEF Shared, LeftAlone, HasKeys, There
<1>1. Journey(t)'
    BY DEF ServerInv, Journey
<1>2. KeysKnown(t)'
    BY DEF ServerInv, KeysKnown
<1>3. MachinesKnown(t)'
    BY DEF ServerInv, MachinesKnown
<1>4. ViewsTrue(t)'
    BY DEF ServerInv, ViewsTrue
<1>5. Tracked(t)'
  <2>1. machine[t] \subseteq {1, 2}
    BY DEF TypeOK
  <2>2. \A id \in machine'[t] : <<t, id>> \in going' <=> <<t, id>> \in going
    BY <2>1
  <2> QED BY <2>2 DEF ServerInv, Tracked, NextKey
<1> QED BY <1>1, <1>2, <1>3, <1>4, <1>5 DEF ServerInv

\* What a lemma on an action of server s has to show.
StepKeeps(s) ==
    /\ TypeOK' /\ Shared
    /\ ServerInv(s)'
    /\ \A t \in Servers \ {s} : LeftAlone(t)

\* Where a provision starts.
LEMMA StartsKnown ==
    /\ kind \in {"azure", "digitalocean"} => Starts = "finding"
    /\ kind = "hetzner" => Starts = "keys"
    /\ kind \notin {"azure", "digitalocean", "hetzner"} => Starts = "create"
BY DEF Starts

LEMMA ProvisionKeeps ==
    ASSUME IInv, NEW s \in Servers, Provision(s)
    PROVE  StepKeeps(s)
<1> USE DEF IInv, TypeOK, ServerInv, Provision, Goes, cloud, reads, Keys, Shared
<1>1. TypeOK'
  <2>1. pc' \in [Servers -> Stages] /\ tries' \in [Servers -> 0..Retries]
    BY StartsKnown, BoundsAssumption DEF Stages
  <2>2. todo' \in [Servers -> SUBSET Keys]
    OBVIOUS
  <2> QED BY <2>1, <2>2
<1>2. \A t \in Servers \ {s} : LeftAlone(t)
    BY DEF LeftAlone, Mine
<1>3. Journey(s)'
    BY StartsKnown DEF Journey, HasKeys
<1>4. KeysKnown(s)'
    BY StartsKnown DEF KeysKnown, HasKeys, Mine
<1>5. MachinesKnown(s)'
    BY StartsKnown DEF MachinesKnown, HasKeys, Mine
<1>6. ViewsTrue(s)'
    BY StartsKnown DEF ViewsTrue, There
<1>7. Tracked(s)'
    BY StartsKnown DEF Tracked, Mine, NextKey
<1> QED BY <1>1, <1>2, <1>3, <1>4, <1>5, <1>6, <1>7 DEF StepKeeps


\* Where an error takes one.
LEMMA OnErrorKnown ==
    ASSUME NEW s
    PROVE  /\ OnError(s) \in {"checking", "reaping", "threw"}
           /\ kind = "azure" <=> OnError(s) = "checking"
           /\ OnError(s) = "reaping" => HasKeys
           /\ OnError(s) = "threw" => kind # "digitalocean"
           /\ OnError(s) = "threw" /\ kind = "hetzner" => pc[s] \in {"keys", "mint", "relook", "adopt"}
<1> USE DEF OnError, HasKeys, OutsideTheBlock
<1>1. CASE kind = "azure"
    BY <1>1
<1>2. CASE kind # "azure" /\ HasKeys /\ ~OutsideTheBlock(s)
    BY <1>2
<1>3. CASE kind # "azure" /\ ~(HasKeys /\ ~OutsideTheBlock(s))
    BY <1>3
<1> QED BY <1>1, <1>2, <1>3

\* A provision that threw is tried again.
LEMMA ReplaysKeep ==
    ASSUME IInv, NEW s \in Servers, Replays(s)
    PROVE  StepKeeps(s)
<1> USE DEF IInv, TypeOK, ServerInv, Shared, Replays, GoesWrong, Fine, Goes, Refused, Repeats, GivesUp, Nobody, Loose, cloud, calls, reads, Keys
<1>1. TypeOK'
  <2>1. pc' \in [Servers -> Stages] /\ tries' \in [Servers -> 0..Retries]
    BY StartsKnown, BoundsAssumption DEF Stages
  <2>2. todo' \in [Servers -> SUBSET Keys]
    OBVIOUS
  <2>3. ids' \in [Servers -> SUBSET KeyObjects] /\ owned' \in [Servers -> SUBSET KeyObjects]
    OBVIOUS
  <2> QED BY <2>1, <2>2, <2>3
<1>2. \A t \in Servers \ {s} : LeftAlone(t)
    BY StartsKnown DEF LeftAlone, Mine
<1>3. Journey(s)'
    BY StartsKnown DEF Journey, HasKeys
<1>4. KeysKnown(s)'
    BY StartsKnown DEF KeysKnown, HasKeys, Mine
<1>5. MachinesKnown(s)'
    BY StartsKnown DEF MachinesKnown, HasKeys, Mine
<1>6. ViewsTrue(s)'
    BY StartsKnown DEF ViewsTrue, There
<1>7. Tracked(s)'
  <2>1. pc'[s] \in {"finding", "keys", "create"} /\ Mine(s)' = Mine(s)
    BY StartsKnown DEF Mine
  <2>2. s \notin loose => machine'[s] = {} /\ parts'[s] = {} /\ Mine(s) = {}
    BY DEF Tracked
  <2> QED BY <2>1, <2>2 DEF Tracked
<1> QED BY <1>1, <1>2, <1>3, <1>4, <1>5, <1>6, <1>7 DEF StepKeeps

\* What is found is returned with the keys minted for it.
LEMMA FindsKeep ==
    ASSUME IInv, NEW s \in Servers, Finds(s)
    PROVE  StepKeeps(s)
<1> USE DEF IInv, TypeOK, ServerInv, Shared
<1>1. PICK to \in {"threw", "address", "keys", "made"} :
        /\ pc' = [pc EXCEPT ![s] = to] /\ tries' = [tries EXCEPT ![s] = 0]
        /\ pc[s] = "finding" /\ mishaps' \in 0..MaxMishaps
        /\ UNCHANGED <<kind, machine, parts, label, going, taken, bare, todo, ids, owned, seen, look, lag, view>>
        /\ \/ /\ to = "made" /\ loose' = loose \ {s}
              /\ \/ /\ s \in taken /\ s \in bare
                    /\ handle' = [handle EXCEPT ![s] = [id |-> Stranger, keys |-> {}]]
                 \/ \E id \in machine[s] : handle' = [handle EXCEPT ![s] = [id |-> id, keys |-> Minted(s)]]
           \/ /\ to # "made" /\ UNCHANGED <<handle, loose>>
              /\ to = "threw" \/ (s \notin taken /\ (to = "address" <=> kind = "azure"))
    BY BoundsAssumption DEF Finds, Returns, GoesWrong, Fine, Goes, Refused, Nobody, cloud, reads
<1>2. Minted(s) \subseteq KeyObjects /\ Minted(s) = {<<k, s>> : k \in Mine(s)}
    BY DEF KeyObjects, Minted, Mine, KeyObject
<1>3. TypeOK'
  <2>1. pc' \in [Servers -> Stages] /\ tries' \in [Servers -> 0..Retries]
    BY <1>1, BoundsAssumption DEF Stages
  <2>2. loose' \subseteq Servers
    BY <1>1
  <2>3. CASE to = "made"
    <3>1. PICK id \in {1, 2, Stranger}, ks \in SUBSET KeyObjects :
            handle' = [handle EXCEPT ![s] = [id |-> id, keys |-> ks]]
      BY <1>1, <1>2, <2>3
    <3>2. [id |-> id, keys |-> ks] \in [id : {0, 1, 2, Stranger}, keys : SUBSET KeyObjects]
      BY <1>2
    <3>3. handle' \in [Servers -> [id : {0, 1, 2, Stranger}, keys : SUBSET KeyObjects]]
      BY <3>1, <3>2
    <3> QED BY <1>1, <2>1, <2>2, <3>3
  <2>4. CASE to # "made"
    BY <1>1, <2>1, <2>2, <2>4
  <2> QED BY <2>3, <2>4
<1>4. \A t \in Servers \ {s} : LeftAlone(t)
    BY <1>1 DEF LeftAlone, Mine
<1>5. Mine(s)' = Mine(s) /\ pc'[s] = to /\ tries'[s] = 0
    BY <1>1 DEF Mine
<1>6. Journey(s)'
    BY <1>1, <1>5 DEF Journey, HasKeys
<1>7. KeysKnown(s)'
  <2>1. handle'[s].keys \subseteq Keys \X {s}
    BY <1>1, <1>2 DEF KeysKnown, Mine
  <2> QED BY <1>1, <1>5, <2>1 DEF KeysKnown, Journey, HasKeys
<1>8. MachinesKnown(s)'
  <2>1. CASE to = "made" /\ s \in taken
    <3>1. kind = "azure" /\ Mine(s) = {} /\ machine[s] = {} /\ lag[s] = 0 /\ parts[s] = {}
      BY <1>1, <2>1 DEF MachinesKnown, KeysKnown, Journey, HasKeys
    <3>2. handle'[s].id = Stranger /\ s \in bare
      BY <1>1, <2>1, <3>1
    <3>3. \A id \in {1, 2, Stranger} : <<s, id>> \notin going
      BY <1>1 DEF MachinesKnown
    <3> HIDE DEF IInv, TypeOK, ServerInv
    <3> QED BY <1>1, <1>5, <2>1, <3>1, <3>2, <3>3 DEF MachinesKnown
  <2>3. CASE to = "made" /\ s \notin taken
    <3>1. \A k \in Mine(s) : <<k, s>> \in handle'[s].keys
      BY <1>1, <1>2, <2>3
    <3>2. handle'[s].id \in machine[s] /\ handle'[s].id \in {1, 2}
      BY <1>1, <2>3
    <3>3. /\ \A id \in {1, 2, Stranger} : <<s, id>> \notin going
          /\ kind # "azure" => parts[s] = {}
          /\ kind # "digitalocean" => machine[s] \subseteq {1}
      BY <1>1 DEF MachinesKnown
    <3> HIDE DEF IInv, TypeOK, ServerInv
    <3> QED BY <1>1, <1>5, <2>3, <3>1, <3>2, <3>3 DEF MachinesKnown
  <2>2. CASE to # "made"
    BY <1>1, <1>5, <2>2 DEF MachinesKnown
  <2> QED BY <2>1, <2>2, <2>3
<1>9. ViewsTrue(s)'
    BY <1>1, <1>5 DEF ViewsTrue, There
<1>10. Tracked(s)'
    BY <1>1, <1>5 DEF Tracked
<1> QED BY <1>1, <1>3, <1>4, <1>6, <1>7, <1>8, <1>9, <1>10 DEF StepKeeps


\* An address or an interface is made, or an error leads to a look.
LEMMA MakesPartKeeps ==
    ASSUME IInv, NEW s \in Servers, MakesPart(s)
    PROVE  StepKeeps(s)
<1> USE DEF IInv, TypeOK, ServerInv, Shared
<1>1. kind = "azure" /\ OnError(s) = "checking"
    BY OnErrorKnown DEF MakesPart, Journey
<1>2. PICK to \in {"address", "interface", "create", "checking"}, n \in 0..Retries,
           ps \in SUBSET {"ip", "nic"} :
        /\ pc[s] \in {"address", "interface"}
        /\ pc' = [pc EXCEPT ![s] = to] /\ tries' = [tries EXCEPT ![s] = n]
        /\ parts' = [parts EXCEPT ![s] = ps]
    <2>1. PICK to \in {"address", "interface", "create", "checking"}, n \in 0..Retries :
            pc' = [pc EXCEPT ![s] = to] /\ tries' = [tries EXCEPT ![s] = n]
        BY <1>1, BoundsAssumption DEF MakesPart, GoesWrong, Fine, Goes, Refused, Repeats, GivesUp
    <2>2. PICK ps \in SUBSET {"ip", "nic"} : parts' = [parts EXCEPT ![s] = ps]
      <3>1. parts[s] \in SUBSET {"ip", "nic"} /\ parts[s] \union {PartOf(s)} \in SUBSET {"ip", "nic"}
        BY DEF PartOf
      <3>2. parts = [parts EXCEPT ![s] = parts[s]]
        OBVIOUS
      <3>3. parts' = parts \/ parts' = [parts EXCEPT ![s] = parts[s] \union {PartOf(s)}]
        BY DEF MakesPart, Makes
      <3> QED BY <3>1, <3>2, <3>3
    <2> QED BY <2>1, <2>2 DEF MakesPart
<1>3. /\ mishaps' \in 0..MaxMishaps
      /\ UNCHANGED <<kind, machine, label, going, taken, bare, todo, ids, owned, handle, seen, look, lag, view, loose>>
    BY BoundsAssumption DEF MakesPart, GoesWrong, Fine, Refused, Repeats, GivesUp, reads
<1>4. TypeOK'
    BY <1>2, <1>3 DEF Stages
<1>5. \A t \in Servers \ {s} : LeftAlone(t)
    BY <1>2, <1>3 DEF LeftAlone, Mine
<1>6. Mine(s)' = Mine(s) /\ pc'[s] = to /\ ~HasKeys
    BY <1>1, <1>2, <1>3 DEF Mine, HasKeys
<1>7. Journey(s)'
    BY <1>1, <1>2, <1>3, <1>6 DEF Journey
<1>8. todo[s] = {}
    BY <1>6 DEF KeysKnown
<1>9. KeysKnown(s)'
    BY <1>2, <1>3, <1>6, <1>8 DEF KeysKnown, HasKeys
<1>10. MachinesKnown(s)'
    BY <1>1, <1>2, <1>3, <1>6 DEF MachinesKnown
<1>11. ViewsTrue(s)'
    BY <1>2, <1>3, <1>6 DEF ViewsTrue, There
<1>12. Tracked(s)'
    BY <1>2, <1>3, <1>6 DEF Tracked
<1> QED BY <1>3, <1>4, <1>5, <1>7, <1>9, <1>10, <1>11, <1>12 DEF StepKeeps

-----------------------------------------------------------------------------
(***************************************************************************)
(* Keys.                                                                   *)
(***************************************************************************)

\* A key that is there, or is minted, joins those to create with, and is owned
\* when it was minted for the server.
LEMMA UsesKeep ==
    ASSUME IInv, NEW s \in Servers, NEW k \in Keys, NEW own \in BOOLEAN,
           pc[s] \in {"keys", "mint", "relook"}, NextKey(s, k), Uses(s, k, own),
           UNCHANGED keyFrame, UNCHANGED mishaps,
           label' = [label EXCEPT ![k] = label'[k]],
           label'[k] = label[k] \/ (label[k] = "nobody" /\ label'[k] = s),
           label'[k] # "nobody", own <=> label'[k] = s
    PROVE  StepKeeps(s)
<1> USE DEF IInv, TypeOK, ServerInv, Shared
<1>1. PICK to \in {"create", "keys"} :
        /\ pc' = [pc EXCEPT ![s] = to] /\ tries' = [tries EXCEPT ![s] = 0]
        /\ to = "create" <=> todo[s] = {k}
    BY DEF Uses, Goes
<1>2. /\ ids' = [ids EXCEPT ![s] = @ \union {<<k, label'[k]>>}]
      /\ owned' = [owned EXCEPT ![s] = IF own THEN @ \union {<<k, label'[k]>>} ELSE @]
      /\ todo' = [todo EXCEPT ![s] = @ \ {k}]
      /\ UNCHANGED <<kind, machine, parts, going, taken, bare, handle, seen, look, lag, view, loose, mishaps>>
    BY DEF Uses, Nobody, keyFrame, reads
<1>3. label'[k] \in Servers \union {"stranger"} /\ <<k, label'[k]>> \in KeyObjects
    BY DEF KeyObjects
<1>4. TypeOK'
  <2>1. pc' \in [Servers -> Stages] /\ tries' \in [Servers -> 0..Retries]
    BY <1>1, BoundsAssumption DEF Stages
  <2>2. ids' \in [Servers -> SUBSET KeyObjects] /\ owned' \in [Servers -> SUBSET KeyObjects]
    BY <1>2, <1>3
  <2>3. todo' \in [Servers -> SUBSET Keys]
    BY <1>2
  <2>4. label' \in [Keys -> Servers \union {"nobody", "stranger"}]
    BY <1>3
  <2> QED BY <1>2, <2>1, <2>2, <2>3, <2>4
<1>5. Mine(s)' = IF own THEN Mine(s) \union {k} ELSE Mine(s)
    BY ServersAssumption DEF Mine
<1>6. \A t \in Servers \ {s} : Mine(t)' = Mine(t)
    BY ServersAssumption DEF Mine
<1>7. \A t \in Servers \ {s} : LeftAlone(t)
    BY <1>1, <1>2, <1>6 DEF LeftAlone
<1>8. /\ pc'[s] = to /\ tries'[s] = 0 /\ todo'[s] = todo[s] \ {k} /\ HasKeys
      /\ owned'[s] = IF own THEN owned[s] \union {<<k, s>>} ELSE owned[s]
      /\ own \/ k \notin Mine(s)
    BY <1>1, <1>2 DEF Journey, Mine
<1>9. k \in {s, Supplied}
    BY DEF NextKey, KeysKnown
<1>10. Journey(s)'
    BY <1>1, <1>2, <1>8 DEF Journey, HasKeys
<1>11. KeysKnown(s)'
    BY <1>1, <1>2, <1>5, <1>8, <1>9 DEF KeysKnown, HasKeys
<1>12. MachinesKnown(s)'
    BY <1>1, <1>2, <1>8 DEF MachinesKnown, HasKeys
<1>13. ViewsTrue(s)'
    BY <1>1, <1>2, <1>8 DEF ViewsTrue, There
<1>14. Tracked(s)'
  <2>1. s \notin loose => \A x \in Mine(s)' : <<x, s>> \in owned'[s]
    BY <1>5, <1>8 DEF Tracked, NextKey, KeysKnown
  <2> QED BY <1>1, <1>2, <1>8, <2>1 DEF Tracked
<1> QED BY <1>2, <1>4, <1>7, <1>10, <1>11, <1>12, <1>13, <1>14 DEF StepKeeps

\* The place changes, and the server may have got lost track of; of the keys no
\* more than the next one may have been minted.
LEMMA KeyMoves ==
    ASSUME IInv, NEW s \in Servers, NEW k \in Keys, NEW n \in 0..Retries,
           NEW to \in {"mint", "relook", "reaping", "threw"},
           pc[s] \in {"keys", "mint", "relook"}, NextKey(s, k),
           pc' = [pc EXCEPT ![s] = to], tries' = [tries EXCEPT ![s] = n],
           UNCHANGED keyFrame, mishaps' \in 0..MaxMishaps,
           UNCHANGED <<ids, owned, todo>>,
           \/ UNCHANGED label
           \/ label[k] = "nobody" /\ label' = [label EXCEPT ![k] = s],
           \/ loose' = loose \union {s}
           \/ UNCHANGED loose /\ to \in {"mint", "relook"}
           \/ UNCHANGED loose /\ UNCHANGED label /\ pc[s] = "keys" /\ to = "reaping"
    PROVE  StepKeeps(s)
<1> USE DEF IInv, TypeOK, ServerInv, Shared
<1>1. UNCHANGED <<kind, machine, parts, going, taken, bare, handle, seen, look, lag, view>>
    BY DEF keyFrame, reads
<1>2. TypeOK'
    BY <1>1 DEF Stages
<1>3. Mine(s)' \in {Mine(s), Mine(s) \union {k}}
    BY ServersAssumption DEF Mine
<1>4. \A t \in Servers \ {s} : Mine(t)' = Mine(t)
    BY ServersAssumption DEF Mine
<1>5. \A t \in Servers \ {s} : LeftAlone(t)
    BY <1>1, <1>4 DEF LeftAlone
<1>6. pc'[s] = to /\ HasKeys /\ k \in {s, Supplied} /\ k \in todo[s]
    BY DEF Journey, NextKey, KeysKnown
<1>7. Journey(s)'
    BY <1>1, <1>6 DEF Journey, HasKeys
<1>8. KeysKnown(s)'
    BY <1>1, <1>3, <1>6 DEF KeysKnown, HasKeys
<1>9. MachinesKnown(s)'
    BY <1>1, <1>6 DEF MachinesKnown, HasKeys
<1>10. ViewsTrue(s)'
    BY <1>1, <1>6 DEF ViewsTrue, There
<1>11. Tracked(s)'
  <2>1. CASE loose' = loose \union {s}
    BY <2>1 DEF Tracked
  <2>2. CASE UNCHANGED loose /\ to \in {"mint", "relook"}
    <3>1. s \notin loose => \A x \in Mine(s)' : <<x, s>> \in owned[s] \/ NextKey(s, x)
      BY <1>3 DEF Tracked, NextKey
    <3> QED BY <1>1, <1>6, <2>2, <3>1 DEF Tracked, NextKey
  <2>3. CASE UNCHANGED loose /\ UNCHANGED label /\ pc[s] = "keys" /\ to = "reaping"
    BY <1>1, <1>6, <2>3 DEF Tracked, Mine
  <2> QED BY <2>1, <2>2, <2>3
<1> QED BY <1>1, <1>2, <1>5, <1>7, <1>8, <1>9, <1>10, <1>11 DEF StepKeeps

\* A key is found, or is to be minted.
LEMMA LooksUpKeyKeeps ==
    ASSUME IInv, NEW s \in Servers, NEW k \in Keys, LooksUpKey(s, k)
    PROVE  StepKeeps(s)
<1> USE DEF IInv, TypeOK, ServerInv
<1>1. /\ pc[s] \in {"keys", "relook"} /\ NextKey(s, k) /\ UNCHANGED label /\ UNCHANGED keyFrame
      /\ mishaps' \in 0..MaxMishaps /\ 0 \in 0..Retries /\ kind # "azure"
    BY BoundsAssumption DEF LooksUpKey, Fine, Refused, GoesWrong, Journey, HasKeys
<1>2. CASE Fine /\ label[k] # "nobody" /\ Uses(s, k, MintedHere(s, k))
  <2>1. label' = [label EXCEPT ![k] = label'[k]]
    BY <1>1
  <2> QED BY <1>1, <1>2, <2>1, UsesKeep DEF Fine, MintedHere
<1>3. CASE Fine /\ label[k] = "nobody" /\ pc[s] = "keys" /\ Goes(s, "mint") /\ UNCHANGED <<ids, owned, todo, loose>>
  BY <1>1, <1>3, KeyMoves DEF Goes
<1>4. CASE Fine /\ label[k] = "nobody" /\ pc[s] = "relook" /\ Goes(s, OnError(s)) /\ KeyError(s, OnError(s))
  BY <1>1, <1>4, OnErrorKnown, KeyMoves DEF Goes, KeyError, Loose
<1>5. CASE Refused(s, OnError(s)) /\ KeyError(s, OnError(s))
  BY <1>1, <1>5, OnErrorKnown, KeyMoves DEF Refused, Goes, KeyError, Loose, Nobody
<1> QED BY <1>2, <1>3, <1>4, <1>5 DEF LooksUpKey

\* A key is minted, answered or not.
LEMMA MintsKeyKeeps ==
    ASSUME IInv, NEW s \in Servers, NEW k \in Keys, MintsKey(s, k)
    PROVE  StepKeeps(s)
<1> USE DEF IInv, TypeOK, ServerInv
<1>1. /\ pc[s] = "mint" /\ NextKey(s, k) /\ UNCHANGED keyFrame
      /\ mishaps' \in 0..MaxMishaps /\ 0 \in 0..Retries /\ HasKeys
  <2>1. UNCHANGED mishaps \/ GoesWrong
    BY DEF MintsKey, Fine, Refused, Repeats, GivesUp
  <2> QED BY <2>1, BoundsAssumption DEF MintsKey, GoesWrong, Journey
<1>2. /\ AfterMintError(s) \in {"relook", "threw"}
      /\ KeyError(s, AfterMintError(s)) =>
            /\ IF AfterMintError(s) = "threw" THEN loose' = loose \union {s} ELSE UNCHANGED loose
            /\ UNCHANGED <<ids, owned, todo>>
    BY <1>1, OnErrorKnown DEF AfterMintError, KeyError, Loose, Nobody, HasKeys, OnError, OutsideTheBlock
<1>3. CASE label[k] # "nobody" /\ Fine /\ Goes(s, "relook") /\ UNCHANGED <<label, ids, owned, todo, loose>>
  BY <1>1, <1>3, KeyMoves DEF Goes
<1>4. CASE label[k] = "nobody" /\ Fine /\ label' = [label EXCEPT ![k] = s] /\ Uses(s, k, TRUE)
  <2>1. label'[k] = s /\ s # "nobody"
    BY <1>4, ServersAssumption
  <2> QED BY <1>1, <1>4, <2>1, UsesKeep DEF Fine
<1>5. CASE /\ \/ Repeats(s) /\ UNCHANGED <<ids, owned, todo, loose>>
              \/ GivesUp(s, AfterMintError(s)) /\ KeyError(s, AfterMintError(s))
           /\ \/ UNCHANGED label
              \/ label[k] = "nobody" /\ label' = [label EXCEPT ![k] = s]
  <2>1. CASE Repeats(s) /\ UNCHANGED <<ids, owned, todo, loose>>
    <3>1. pc' = [pc EXCEPT ![s] = "mint"] /\ tries' = [tries EXCEPT ![s] = tries[s] + 1] /\ tries[s] + 1 \in 0..Retries
      BY <1>1, <2>1, BoundsAssumption DEF Repeats
    <3> QED BY <1>1, <1>5, <2>1, <3>1, KeyMoves
  <2>2. CASE GivesUp(s, AfterMintError(s)) /\ KeyError(s, AfterMintError(s))
    BY <1>1, <1>2, <1>5, <2>2, KeyMoves DEF GivesUp, Goes
  <2> QED BY <1>5, <2>1, <2>2
<1>6. CASE Refused(s, AfterMintError(s)) /\ KeyError(s, AfterMintError(s)) /\ UNCHANGED label
  BY <1>1, <1>2, <1>6, KeyMoves DEF Refused, Goes
<1> QED BY <1>3, <1>4, <1>5, <1>6 DEF MintsKey

-----------------------------------------------------------------------------
(***************************************************************************)
(* The machine.                                                            *)
(***************************************************************************)

\* What a create may leave: nothing new, or the machine at a cloud that accepted
\* it, shown at once or after a while.
CreateLeaves(s, m, n) ==
    /\ machine' = [machine EXCEPT ![s] = m] /\ lag' = [lag EXCEPT ![s] = n]
    /\ \/ m = machine[s] /\ n = lag[s]
       \/ m = machine[s] \union {Created(s)} /\ Accepted(s)

createFrame == <<kind, parts, label, going, taken, bare, todo, ids, owned, seen, look, view>>

\* One machine per server, but at DigitalOcean.
LEMMA CreatedKnown ==
    ASSUME NEW s
    PROVE  /\ Created(s) \in {1, 2}
           /\ kind # "digitalocean" => Created(s) = 1
BY DEF Created

\* Whatever comes of the call, what it leaves is in keeping with the invariant.
LEMMA CreateLeavesKnown ==
    ASSUME IInv, NEW s \in Servers, NEW m, NEW n, pc[s] = "create",
           CreateLeaves(s, m, n), n \in 0..MaxLag
    PROVE  /\ machine' \in [Servers -> SUBSET {1, 2}] /\ lag' \in [Servers -> 0..MaxLag]
           /\ machine'[s] = m /\ lag'[s] = n
           /\ \A t \in Servers \ {s} : machine'[t] = machine[t] /\ lag'[t] = lag[t]
           /\ kind # "digitalocean" => m \subseteq {1}
           /\ s \in taken => m = {} /\ n = 0 /\ kind \in {"gcp", "hetzner"}
<1> USE DEF IInv, TypeOK, ServerInv
<1>1. m \subseteq {1, 2}
    BY CreatedKnown DEF CreateLeaves
<1>2. kind # "digitalocean" => m \subseteq {1}
  <2>1. kind # "digitalocean" => machine[s] \subseteq {1} /\ Created(s) = 1
    BY CreatedKnown DEF MachinesKnown
  <2> QED BY <2>1 DEF CreateLeaves
<1>3. s \in taken => m = {} /\ n = 0 /\ kind \in {"gcp", "hetzner"}
    BY DEF CreateLeaves, MachinesKnown, Accepted, NameIsHeld
<1> QED BY <1>1, <1>2, <1>3 DEF CreateLeaves

\* The call is repeated, or led to an error or to the machine of an earlier try.
LEMMA CreateMoves ==
    ASSUME IInv, NEW s \in Servers, NEW m, NEW n \in 0..MaxLag, NEW j \in 0..Retries,
           NEW to \in {"create", "adopt", OnError(s)},
           pc[s] = "create", CreateLeaves(s, m, n),
           pc' = [pc EXCEPT ![s] = to], tries' = [tries EXCEPT ![s] = j],
           UNCHANGED createFrame, UNCHANGED handle, mishaps' \in 0..MaxMishaps,
           to = "adopt" => kind \in {"hetzner", "gcp"},
           \/ loose' = loose \union {s}
           \/ UNCHANGED loose /\ to = "adopt"
           \/ UNCHANGED loose /\ to = "create" /\ j > 0
           \/ UNCHANGED loose /\ m = machine[s] /\ tries[s] = 0 /\ to = OnError(s)
    PROVE  StepKeeps(s)
<1> USE DEF IInv, TypeOK, ServerInv, Shared
<1>1. UNCHANGED <<kind, parts, label, going, taken, bare, todo, ids, owned, seen, look, view>>
    BY DEF createFrame
<1>2. to \in {"create", "adopt", "checking", "reaping", "threw"}
    BY OnErrorKnown
<1>3. /\ machine' \in [Servers -> SUBSET {1, 2}] /\ lag' \in [Servers -> 0..MaxLag]
      /\ machine'[s] = m /\ lag'[s] = n
      /\ \A t \in Servers \ {s} : machine'[t] = machine[t] /\ lag'[t] = lag[t]
      /\ kind # "digitalocean" => m \subseteq {1}
      /\ s \in taken => m = {} /\ n = 0 /\ kind \in {"gcp", "hetzner"}
    BY CreateLeavesKnown
<1>4. TypeOK'
  <2>1. pc' \in [Servers -> Stages] /\ tries' \in [Servers -> 0..Retries]
    BY <1>2 DEF Stages
  <2>2. loose' \subseteq Servers
    OBVIOUS
  <2> QED BY <1>1, <1>3, <2>1, <2>2
<1>5. \A t \in Servers \ {s} : LeftAlone(t)
    BY <1>1, <1>3 DEF LeftAlone, Mine
<1>6. Mine(s)' = Mine(s) /\ pc'[s] = to /\ tries'[s] = j /\ todo[s] = {}
    BY <1>1 DEF Mine, KeysKnown
<1>7. /\ kind = "azure" <=> OnError(s) = "checking"
      /\ OnError(s) = "reaping" => HasKeys
      /\ OnError(s) = "threw" => kind \in {"gcp", "aws"}
    BY OnErrorKnown, KindsAssumption DEF Clouds
<1>8. Journey(s)'
    BY <1>1, <1>2, <1>6, <1>7 DEF Journey, HasKeys
<1>9. KeysKnown(s)'
    BY <1>1, <1>2, <1>6 DEF KeysKnown, HasKeys
<1>10. MachinesKnown(s)'
    BY <1>1, <1>2, <1>3, <1>6 DEF MachinesKnown
<1>11. ViewsTrue(s)'
  <2>1. look[s] = 0 /\ s \notin seen /\ view[s] = "none"
    BY DEF ViewsTrue, There
  <2> QED BY <1>1, <1>2, <1>3, <1>6, <2>1 DEF ViewsTrue, There
<1>12. Tracked(s)'
  <2>1. CASE loose' = loose \union {s}
    BY <2>1 DEF Tracked
  <2>2. CASE UNCHANGED loose /\ (to = "adopt" \/ (to = "create" /\ j > 0))
    BY <1>1, <1>6, <2>2 DEF Tracked
  <2>3. CASE UNCHANGED loose /\ m = machine[s] /\ tries[s] = 0 /\ to = OnError(s)
    <3>1. s \notin loose => machine[s] = {}
      BY <2>3 DEF Tracked
    <3>2. \A k \in Mine(s) : <<k, s>> \in owned[s]
      BY <1>6 DEF KeysKnown
    <3>3. to = "threw" => Mine(s) = {} /\ parts[s] = {}
      BY <1>7, <2>3 DEF KeysKnown, MachinesKnown, HasKeys
    <3> QED BY <1>1, <1>2, <1>3, <1>6, <2>3, <3>1, <3>2, <3>3, OnErrorKnown DEF Tracked
  <2> QED BY <2>1, <2>2, <2>3
<1> QED BY <1>1, <1>4, <1>5, <1>8, <1>9, <1>10, <1>11, <1>12 DEF StepKeeps

\* The machine is there, and the handle names it and the keys owned.
LEMMA CreateIsAnswered ==
    ASSUME IInv, NEW s \in Servers, NEW m, NEW n \in 0..MaxLag,
           pc[s] = "create", CreateLeaves(s, m, n), Returns(s, Created(s), owned[s]),
           UNCHANGED createFrame, UNCHANGED mishaps
    PROVE  StepKeeps(s)
<1> USE DEF IInv, TypeOK, ServerInv, Shared
<1>1. UNCHANGED <<kind, parts, label, going, taken, bare, todo, ids, owned, seen, look, view, mishaps>>
    BY DEF createFrame
<1>2. /\ pc' = [pc EXCEPT ![s] = "made"] /\ tries' = [tries EXCEPT ![s] = 0]
      /\ handle' = [handle EXCEPT ![s] = [id |-> Created(s), keys |-> owned[s]]]
      /\ loose' = loose \ {s}
    BY DEF Returns, Goes
<1>3. /\ machine' \in [Servers -> SUBSET {1, 2}] /\ lag' \in [Servers -> 0..MaxLag]
      /\ machine'[s] = m /\ lag'[s] = n
      /\ \A t \in Servers \ {s} : machine'[t] = machine[t] /\ lag'[t] = lag[t]
      /\ kind # "digitalocean" => m \subseteq {1}
      /\ s \in taken => m = {} /\ n = 0 /\ kind \in {"gcp", "hetzner"}
    BY CreateLeavesKnown
<1>4. TypeOK'
  <2>1. pc' \in [Servers -> Stages] /\ tries' \in [Servers -> 0..Retries]
    BY <1>2, BoundsAssumption DEF Stages
  <2>2. loose' \subseteq Servers
    BY <1>2
  <2>3. [id |-> Created(s), keys |-> owned[s]] \in [id : {0, 1, 2, Stranger}, keys : SUBSET KeyObjects]
    BY CreatedKnown
  <2>4. handle' \in [Servers -> [id : {0, 1, 2, Stranger}, keys : SUBSET KeyObjects]]
    BY <1>2, <2>3
  <2> QED BY <1>1, <1>3, <2>1, <2>2, <2>4
<1>5. \A t \in Servers \ {s} : LeftAlone(t)
    BY <1>1, <1>2, <1>3 DEF LeftAlone, Mine
<1>6. /\ Mine(s)' = Mine(s) /\ pc'[s] = "made" /\ todo[s] = {}
      /\ handle'[s].id = Created(s) /\ handle'[s].keys = owned[s]
    BY <1>1, <1>2 DEF Mine, KeysKnown
<1>7. Journey(s)'
    BY <1>6 DEF Journey
<1>8. KeysKnown(s)'
    BY <1>1, <1>6 DEF KeysKnown, HasKeys
<1>9. MachinesKnown(s)'
  <2>1. \A k \in Mine(s) : <<k, s>> \in owned[s]
    BY <1>6 DEF KeysKnown
  <2>2. /\ handle'[s].id \in {1, 2} /\ (kind # "digitalocean" => handle'[s].id = 1)
        /\ kind # "azure" => parts[s] = {}
        /\ \A id \in {1, 2, Stranger} : <<s, id>> \notin going
    BY <1>6, CreatedKnown DEF MachinesKnown
  <2>3. s \in taken => parts[s] = {}
    BY DEF MachinesKnown
  <2> HIDE DEF IInv, TypeOK, ServerInv
  <2> QED BY <1>1, <1>3, <1>6, <2>1, <2>2, <2>3 DEF MachinesKnown
<1>10. ViewsTrue(s)'
  <2>1. look[s] = 0 /\ s \notin seen /\ view[s] = "none"
    BY DEF ViewsTrue, There
  <2> QED BY <1>1, <1>3, <1>6, <2>1 DEF ViewsTrue, There
<1>11. Tracked(s)'
    BY <1>6 DEF Tracked
<1> QED BY <1>1, <1>4, <1>5, <1>7, <1>8, <1>9, <1>10, <1>11 DEF StepKeeps

\* A create, answered or not.
LEMMA CreatesMachineKeeps ==
    ASSUME IInv, NEW s \in Servers, CreatesMachine(s)
    PROVE  StepKeeps(s)
<1> USE DEF IInv, TypeOK, ServerInv
<1>1. /\ pc[s] = "create" /\ UNCHANGED createFrame /\ mishaps' \in 0..MaxMishaps /\ 0 \in 0..Retries
  <2>1. UNCHANGED mishaps \/ GoesWrong
    BY DEF CreatesMachine, Fine, Repeats, GivesUp
  <2> QED BY <2>1, BoundsAssumption DEF CreatesMachine, createFrame, GoesWrong
<1>2. DoesNotLand => CreateLeaves(s, machine[s], lag[s]) /\ lag[s] \in 0..MaxLag
    BY DEF DoesNotLand, CreateLeaves
<1>3. Accepted(s) /\ Lands(s) =>
        \E n \in 0..MaxLag : CreateLeaves(s, machine[s] \union {Created(s)}, n)
  <2>1. SUFFICES ASSUME Accepted(s), Lands(s)
                 PROVE  \E n \in 0..MaxLag : CreateLeaves(s, machine[s] \union {Created(s)}, n)
    OBVIOUS
  <2>2. PICK n \in 0..MaxLag : lag' = [lag EXCEPT ![s] = IF machine[s] = {} THEN n ELSE lag[s]]
    BY <2>1 DEF Lands
  <2>3. (IF machine[s] = {} THEN n ELSE lag[s]) \in 0..MaxLag
    OBVIOUS
  <2> QED BY <2>1, <2>2, <2>3 DEF Lands, CreateLeaves
<1>4. CASE Fine /\ Accepted(s) /\ Lands(s) /\ Returns(s, Created(s), owned[s])
  <2>1. PICK n \in 0..MaxLag : CreateLeaves(s, machine[s] \union {Created(s)}, n)
    BY <1>3, <1>4
  <2> QED BY <1>1, <1>4, <2>1, CreateIsAnswered DEF Fine
<1>5. CASE CreateError(s) /\ DoesNotLand /\ UNCHANGED handle
  <2>1. OnError(s) # "adopt"
    BY OnErrorKnown
  <2>2. loose' = loose \union {s} \/ (UNCHANGED loose /\ tries[s] = 0)
    BY <1>5 DEF CreateError, Nobody, Loose
  <2> QED BY <1>1, <1>2, <1>5, <2>1, <2>2, CreateMoves DEF CreateError, Goes
<1>6. CASE Fine /\ ~NamesAGoneKey(s) /\ (NameIsHeld(s) \/ IsForgotten(s)) /\ Goes(s, "adopt") /\ DoesNotLand /\ UNCHANGED <<handle, loose>>
  BY <1>1, <1>2, <1>6, CreateMoves DEF Goes, NameIsHeld, IsForgotten
<1>7. CASE Repeats(s) /\ Nobody /\ (DoesNotLand \/ (Accepted(s) /\ Lands(s))) /\ UNCHANGED handle
  <2>1. PICK n \in 0..MaxLag : \E m : CreateLeaves(s, m, n)
    BY <1>2, <1>3, <1>7
  <2>3. PICK m : CreateLeaves(s, m, n)
    BY <2>1
  <2>2. /\ pc' = [pc EXCEPT ![s] = "create"] /\ tries' = [tries EXCEPT ![s] = tries[s] + 1]
        /\ tries[s] + 1 \in 0..Retries /\ tries[s] + 1 > 0
    BY <1>1, <1>7, BoundsAssumption DEF Repeats
  <2> QED BY <1>1, <1>7, <2>3, <2>2, CreateMoves DEF Nobody
<1>8. CASE GivesUp(s, OnError(s)) /\ Loose(s) /\ (DoesNotLand \/ (Accepted(s) /\ Lands(s))) /\ UNCHANGED handle
  <2>1. PICK n \in 0..MaxLag : \E m : CreateLeaves(s, m, n)
    BY <1>2, <1>3, <1>8
  <2>3. PICK m : CreateLeaves(s, m, n)
    BY <2>1
  <2>2. OnError(s) # "adopt"
    BY OnErrorKnown
  <2> QED BY <1>1, <1>8, <2>3, <2>2, CreateMoves DEF GivesUp, Goes, Loose
<1> QED BY <1>4, <1>5, <1>6, <1>7, <1>8 DEF CreatesMachine

\* The machine of an earlier try is returned with the keys minted for the server.
LEMMA AdoptsKeeps ==
    ASSUME IInv, NEW s \in Servers, Adopts(s)
    PROVE  StepKeeps(s)
<1> USE DEF IInv, TypeOK, ServerInv, Shared
<1>1. PICK to \in {"threw", "reaping", "made"} :
        /\ pc' = [pc EXCEPT ![s] = to] /\ tries' = [tries EXCEPT ![s] = 0]
        /\ pc[s] = "adopt" /\ kind \in {"hetzner", "gcp"} /\ mishaps' \in 0..MaxMishaps
        /\ UNCHANGED <<kind, machine, parts, label, going, taken, bare, todo, ids, owned, seen, look, lag, view>>
        /\ \/ /\ to = "made" /\ loose' = loose \ {s}
              /\ \E id \in machine[s] : handle' = [handle EXCEPT ![s] = [id |-> id, keys |-> Minted(s)]]
           \/ /\ to = "made" /\ loose' = loose \ {s} /\ s \in taken /\ kind = "hetzner"
              /\ handle' = [handle EXCEPT ![s] = [id |-> Stranger, keys |-> Minted(s)]]
           \/ to = "threw" /\ s \in taken /\ kind = "gcp" /\ UNCHANGED <<handle, loose>>
           \/ /\ to \in {"threw", "reaping"} /\ (to = "reaping" => kind = "hetzner")
              /\ loose' = loose \union {s} /\ UNCHANGED handle
  <2>1. pc[s] = "adopt" /\ kind \in {"hetzner", "gcp"}
    BY DEF Adopts, Journey
  <2>2. OnError(s) = "threw"
    BY <2>1, OnErrorKnown DEF OnError, HasKeys, OutsideTheBlock
  <2>3. mishaps' \in 0..MaxMishaps
    BY BoundsAssumption DEF Adopts, Fine, Refused, GoesWrong
  <2>4. CASE Fine /\ s \in taken /\ kind # "hetzner" /\ Goes(s, "threw") /\ UNCHANGED <<handle, loose>>
    BY <2>1, <2>3, <2>4 DEF Adopts, Goes, cloud, reads
  <2>5. CASE Fine /\ \E id \in machine[s] : Shown(s, id) /\ Returns(s, id, Minted(s))
    BY <2>1, <2>3, <2>5 DEF Adopts, Returns, Goes, cloud, reads
  <2>6. CASE Refused(s, OnError(s)) /\ Loose(s) /\ UNCHANGED handle
    BY <2>1, <2>2, <2>3, <2>6 DEF Adopts, Refused, Loose, Goes, cloud, reads
  <2>7. CASE Fine /\ s \in taken /\ kind = "hetzner" /\ Returns(s, Stranger, Minted(s))
    BY <2>1, <2>3, <2>7 DEF Adopts, Returns, Goes, cloud, reads
  <2>8. CASE Goes(s, IF kind = "hetzner" THEN "reaping" ELSE "threw") /\ Loose(s) /\ UNCHANGED handle
    <3>1. CASE kind = "hetzner"
      BY <2>1, <2>3, <2>8, <3>1 DEF Adopts, Loose, Goes, cloud, reads
    <3>2. CASE kind # "hetzner"
      BY <2>1, <2>3, <2>8, <3>2 DEF Adopts, Loose, Goes, cloud, reads
    <3> QED BY <3>1, <3>2
  <2> QED BY <2>4, <2>5, <2>6, <2>7, <2>8 DEF Adopts
<1>2. Minted(s) \subseteq KeyObjects /\ Minted(s) = {<<k, s>> : k \in Mine(s)}
    BY DEF KeyObjects, Minted, Mine, KeyObject
<1>3. TypeOK'
  <2>1. pc' \in [Servers -> Stages] /\ tries' \in [Servers -> 0..Retries]
    BY <1>1, BoundsAssumption DEF Stages
  <2>2. loose' \subseteq Servers
    BY <1>1
  <2>3. handle' \in [Servers -> [id : {0, 1, 2, Stranger}, keys : SUBSET KeyObjects]]
    <3>1. CASE to = "made"
      <4>1. PICK id \in {1, 2, Stranger} : handle' = [handle EXCEPT ![s] = [id |-> id, keys |-> Minted(s)]]
        BY <1>1, <3>1
      <4>2. [id |-> id, keys |-> Minted(s)] \in [id : {0, 1, 2, Stranger}, keys : SUBSET KeyObjects]
        BY <1>2
      <4> QED BY <4>1, <4>2
    <3>2. CASE to # "made"
      BY <1>1, <3>2
    <3> QED BY <3>1, <3>2
  <2> QED BY <1>1, <2>1, <2>2, <2>3
<1>4. \A t \in Servers \ {s} : LeftAlone(t)
    BY <1>1 DEF LeftAlone, Mine
<1>5. Mine(s)' = Mine(s) /\ pc'[s] = to /\ tries'[s] = 0
    BY <1>1 DEF Mine
<1>6. Journey(s)'
    BY <1>1, <1>5 DEF Journey, HasKeys
<1>7. KeysKnown(s)'
  <2>1. handle'[s].keys \subseteq Keys \X {s}
    BY <1>1, <1>2 DEF KeysKnown, Mine
  <2> QED BY <1>1, <1>5, <2>1 DEF KeysKnown, HasKeys
<1>8. MachinesKnown(s)'
  <2>1. CASE to = "made"
    <3>1. \A k \in Mine(s) : <<k, s>> \in handle'[s].keys
      BY <1>1, <1>2, <2>1
    <3>2. \/ handle'[s].id \in machine[s]
          \/ handle'[s].id = Stranger /\ s \in taken /\ kind = "hetzner"
      BY <1>1, <2>1
    <3>3. /\ machine[s] \subseteq {1} /\ parts[s] = {}
          /\ \A id \in {1, 2, Stranger} : <<s, id>> \notin going
          /\ s \in taken => machine[s] = {} /\ lag[s] = 0
      BY <1>1 DEF MachinesKnown
    <3> HIDE DEF IInv, TypeOK, ServerInv
    <3> QED BY <1>1, <1>5, <2>1, <3>1, <3>2, <3>3 DEF MachinesKnown
  <2>2. CASE to # "made"
    BY <1>1, <1>5, <2>2 DEF MachinesKnown
  <2> QED BY <2>1, <2>2
<1>9. ViewsTrue(s)'
    BY <1>1, <1>5 DEF ViewsTrue, There
<1>10. Tracked(s)'
  <2>1. to = "threw" /\ s \in taken /\ kind = "gcp" => machine[s] = {} /\ parts[s] = {} /\ Mine(s) = {}
    BY DEF MachinesKnown, KeysKnown, HasKeys
  <2>2. to # "made" => s \in loose' \/ (to = "threw" /\ s \in taken /\ kind = "gcp")
    BY <1>1
  <2> HIDE DEF IInv, TypeOK, ServerInv
  <2> QED BY <1>1, <1>5, <2>1, <2>2 DEF Tracked
<1> QED BY <1>1, <1>3, <1>4, <1>6, <1>7, <1>8, <1>9, <1>10 DEF StepKeeps

-----------------------------------------------------------------------------
(***************************************************************************)
(* Cleaning up.                                                            *)
(***************************************************************************)

\* Azure looks before it cleans up, and comes away knowing when the look was good.
LEMMA ChecksFirstKeeps ==
    ASSUME IInv, NEW s \in Servers, ChecksFirst(s)
    PROVE  StepKeeps(s)
<1> USE DEF IInv, TypeOK, ServerInv, Shared
<1>1. /\ pc[s] = "checking" /\ kind = "azure" /\ mishaps' \in 0..MaxMishaps
      /\ UNCHANGED <<kind, machine, parts, label, going, taken, bare, todo, ids, owned, seen, look, lag, view>>
  <2>1. UNCHANGED mishaps \/ GoesWrong
    BY DEF ChecksFirst, Fine, Refused
  <2> QED BY <2>1, BoundsAssumption DEF ChecksFirst, GoesWrong, Journey, cloud, reads
<1>2. PICK to \in {"made", "reaping"} :
        /\ pc' = [pc EXCEPT ![s] = to] /\ tries' = [tries EXCEPT ![s] = 0]
        /\ \/ /\ to = "made" /\ machine[s] # {} /\ loose' = loose \ {s}
              /\ handle' = [handle EXCEPT ![s] = [id |-> 1, keys |-> {}]]
           \/ /\ to = "reaping" /\ UNCHANGED handle
              /\ \/ loose' = loose \ {s} /\ machine[s] = {}
                 \/ UNCHANGED loose
                 \/ loose' = loose \union {s}
    BY DEF ChecksFirst, Returns, Goes, Refused, Nobody, Loose, IsOurs
<1>3. TypeOK'
  <2>1. pc' \in [Servers -> Stages] /\ tries' \in [Servers -> 0..Retries]
    BY <1>2, BoundsAssumption DEF Stages
  <2>2. loose' \subseteq Servers
    BY <1>2
  <2>3. [id |-> 1, keys |-> {}] \in [id : {0, 1, 2, Stranger}, keys : SUBSET KeyObjects]
    OBVIOUS
  <2>4. handle' \in [Servers -> [id : {0, 1, 2, Stranger}, keys : SUBSET KeyObjects]]
    BY <1>2, <2>3
  <2> QED BY <1>1, <2>1, <2>2, <2>4
<1>4. \A t \in Servers \ {s} : LeftAlone(t)
    BY <1>1, <1>2 DEF LeftAlone, Mine
<1>5. Mine(s)' = {} /\ Mine(s) = {} /\ pc'[s] = to
    BY <1>1, <1>2 DEF Mine, KeysKnown, HasKeys
<1>6. Journey(s)'
    BY <1>1, <1>2, <1>5 DEF Journey
<1>7. KeysKnown(s)'
    BY <1>1, <1>2, <1>5 DEF KeysKnown, HasKeys
<1>8. MachinesKnown(s)'
  <2>1. /\ s \notin taken /\ handle[s].id # Stranger
        /\ \A id \in {1, 2, Stranger} : <<s, id>> \notin going
        /\ machine[s] \subseteq {1}
    BY <1>1 DEF MachinesKnown
  <2>2. handle'[s].id # Stranger /\ (to = "made" => handle'[s].id = 1)
    BY <1>2, <2>1
  <2> HIDE DEF IInv, TypeOK, ServerInv
  <2> QED BY <1>1, <1>2, <1>5, <2>1, <2>2 DEF MachinesKnown
<1>9. ViewsTrue(s)'
  <2>1. look[s] = 0 /\ s \notin seen /\ view[s] = "none" /\ lag[s] \in 0..MaxLag
    BY <1>1 DEF ViewsTrue, There
  <2>2. look'[s] = 0 /\ s \notin seen' /\ view'[s] = "none" /\ lag'[s] \in 0..MaxLag
    BY <1>1, <2>1
  <2> QED BY <2>2, GraceAssumption DEF ViewsTrue, There
<1>10. Tracked(s)'
    BY <1>1, <1>2, <1>5 DEF Tracked
<1> QED BY <1>1, <1>3, <1>4, <1>6, <1>7, <1>8, <1>9, <1>10 DEF StepKeeps

\* What a deletion takes is the server's own, and all of it when nothing is kept.
LEMMA DeletesKnown ==
    ASSUME IInv, NEW s \in Servers, NEW gone, NEW kept, Deletes(s, gone, kept),
           kind # "azure" => gone \subseteq Keys \X {s}
    PROVE  /\ parts' \in [Servers -> SUBSET {"ip", "nic"}]
           /\ label' \in [Keys -> Servers \union {"nobody", "stranger"}]
           /\ \A k \in Keys : label'[k] # label[k] => label[k] = s /\ label'[k] = "nobody"
           /\ Mine(s)' \subseteq Mine(s)
           /\ \A t \in Servers \ {s} : Mine(t)' = Mine(t) /\ parts'[t] = parts[t]
           /\ parts'[s] \subseteq parts[s]
           /\ kind = "azure" => parts'[s] = parts[s] \ (gone \ kept)
           /\ kind # "azure" => \A k \in Mine(s)' : <<k, s>> \notin gone \ kept
<1> USE DEF IInv, TypeOK, Keys
<1>1. CASE kind = "azure"
  <2>1. UNCHANGED label /\ parts' = [parts EXCEPT ![s] = @ \ (gone \ kept)]
    BY <1>1 DEF Deletes
  <2> QED BY <1>1, <2>1 DEF Mine
<1>2. CASE kind # "azure"
  <2>1. /\ UNCHANGED parts
        /\ label' = [k \in Keys |-> IF KeyObject(k) \in gone \ kept THEN "nobody" ELSE label[k]]
    BY <1>2 DEF Deletes
  <2>2. \A k \in Keys : <<k, label[k]>> \in gone => label[k] = s
    BY <1>2
  <2>3. \A k \in Keys : label'[k] # label[k] => label[k] = s /\ label'[k] = "nobody"
    BY <2>1, <2>2 DEF KeyObject
  <2>4. \A t \in Servers : t # "nobody"
    BY ServersAssumption
  <2>5. \A k \in Keys : label'[k] = s => label[k] = s /\ <<k, s>> \notin gone \ kept
    BY <2>1, <2>4 DEF KeyObject
  <2>6. \A t \in Servers \ {s} : \A k \in Keys : label'[k] = t <=> label[k] = t
    BY <2>3, <2>4
  <2>7. label' \in [Keys -> Servers \union {"nobody", "stranger"}]
    BY <2>1
  <2>8. Mine(s)' \subseteq Mine(s) /\ \A k \in Mine(s)' : <<k, s>> \notin gone \ kept
    BY <2>5 DEF Mine
  <2>9. \A t \in Servers \ {s} : Mine(t)' = Mine(t)
    BY <2>6 DEF Mine
  <2> QED BY <1>2, <2>1, <2>3, <2>7, <2>8, <2>9
<1> QED BY <1>1, <1>2

\* What was made so far is deleted, and what could not be is lost track of.
LEMMA ReapsKeeps ==
    ASSUME IInv, NEW s \in Servers, Reaps(s)
    PROVE  StepKeeps(s)
<1> USE DEF IInv, TypeOK, ServerInv, Shared
<1>1. /\ pc[s] = "reaping" /\ pc' = [pc EXCEPT ![s] = "threw"] /\ tries' = [tries EXCEPT ![s] = 0]
      /\ UNCHANGED <<kind, machine, going, taken, bare, todo, ids, owned, handle, seen, look, lag, view>>
      /\ mishaps' \in 0..MaxMishaps
  <2>1. UNCHANGED mishaps \/ GoesWrong
    BY DEF Reaps, Fine
  <2> QED BY <2>1, BoundsAssumption DEF Reaps, Goes, GoesWrong, reads
<1>2. PICK kept \in SUBSET ToReap(s) :
        /\ Deletes(s, ToReap(s), kept)
        /\ \/ UNCHANGED loose /\ (kept = {} \/ (kind = "azure" /\ machine[s] # {}))
           \/ loose' = loose \union {s}
    BY DEF Reaps, Nobody, Loose
<1>3. kind # "azure" => ToReap(s) = owned[s] /\ owned[s] \subseteq Keys \X {s}
    BY DEF ToReap, KeysKnown
<1>4. /\ parts' \in [Servers -> SUBSET {"ip", "nic"}]
      /\ label' \in [Keys -> Servers \union {"nobody", "stranger"}]
      /\ Mine(s)' \subseteq Mine(s)
      /\ \A t \in Servers \ {s} : Mine(t)' = Mine(t) /\ parts'[t] = parts[t]
      /\ parts'[s] \subseteq parts[s]
      /\ kind = "azure" => parts'[s] = parts[s] \ (ToReap(s) \ kept)
      /\ kind # "azure" => \A k \in Mine(s)' : <<k, s>> \notin ToReap(s) \ kept
    BY <1>2, <1>3, DeletesKnown
<1>5. TypeOK'
  <2>1. pc' \in [Servers -> Stages] /\ tries' \in [Servers -> 0..Retries]
    BY <1>1, BoundsAssumption DEF Stages
  <2>2. loose' \subseteq Servers
    BY <1>2
  <2> QED BY <1>1, <1>4, <2>1, <2>2
<1>6. \A t \in Servers \ {s} : LeftAlone(t)
    BY <1>1, <1>2, <1>4 DEF LeftAlone
<1>7. pc'[s] = "threw"
    BY <1>1
<1>8. Journey(s)'
    BY <1>1, <1>7 DEF Journey
<1>9. KeysKnown(s)'
    BY <1>1, <1>4, <1>7 DEF KeysKnown, HasKeys
<1>10. MachinesKnown(s)'
    BY <1>1, <1>4, <1>7 DEF MachinesKnown
<1>11. ViewsTrue(s)'
    BY <1>1, <1>7 DEF ViewsTrue, There
<1>12. Tracked(s)'
  <2>1. SUFFICES ASSUME s \notin loose'
                 PROVE  machine'[s] = {} /\ parts'[s] = {} /\ Mine(s)' = {}
    BY <1>7 DEF Tracked
  <2>2. s \notin loose /\ machine[s] = {} /\ kept = {} /\ \A k \in Mine(s) : <<k, s>> \in owned[s]
    BY <1>1, <1>2, <2>1 DEF Tracked
  <2>3. CASE kind = "azure"
    BY <1>1, <1>4, <2>2, <2>3 DEF ToReap, KeysKnown, HasKeys
  <2>4. CASE kind # "azure"
    <3>1. parts[s] = {}
      BY <2>4 DEF MachinesKnown
    <3>2. \A k \in Mine(s)' : k \in Mine(s) /\ <<k, s>> \notin owned[s]
      BY <1>3, <1>4, <2>2, <2>4
    <3>3. Mine(s)' = {}
      BY <2>2, <3>2
    <3> QED BY <1>1, <1>4, <2>2, <3>1, <3>3
  <2> QED BY <2>3, <2>4
<1> QED BY <1>1, <1>5, <1>6, <1>8, <1>9, <1>10, <1>11, <1>12 DEF StepKeeps

\* What a termination deletes besides the machine is the server's own.
LEMMA GoesWithItKnown ==
    ASSUME IInv, NEW s \in Servers
    PROVE  /\ HasKeys => GoesWithIt(s) = handle[s].keys
           /\ kind = "azure" /\ machine[s] = {} => GoesWithIt(s) = parts[s]
           /\ kind # "azure" => GoesWithIt(s) \subseteq Keys \X {s}
<1> USE DEF IInv, ServerInv
<1>1. CASE HasKeys
    BY <1>1 DEF GoesWithIt, HasKeys, KeysKnown
<1>2. CASE ~HasKeys
  <2>1. machine[s] = {} /\ There(s, handle[s].id) => parts[s] = {}
    BY DEF There, MachinesKnown
  <2> QED BY <1>2, <2>1 DEF GoesWithIt
<1> QED BY <1>1, <1>2

\* The machine goes, with what it owns; or the call fails on the way and is made again.
LEMMA TerminateKeeps ==
    ASSUME IInv, NEW s \in Servers, Terminate(s)
    PROVE  StepKeeps(s)
<1> USE DEF IInv, TypeOK, ServerInv, Shared
<1> DEFINE id == handle[s].id
           shown == Shown(s, id)
<1>1. /\ pc[s] = "made" /\ seen' = seen \ {s} /\ mishaps' \in 0..MaxMishaps
      /\ UNCHANGED <<kind, machine, taken, bare, todo, ids, owned, handle, look, lag, view>>
  <2>1. UNCHANGED mishaps \/ GoesWrong
    BY DEF Terminate, Fine
  <2> QED BY <2>1, BoundsAssumption DEF Terminate, GoesWrong
<1>2. PICK to \in {"made", "released"} :
        /\ pc' = [pc EXCEPT ![s] = to]
        /\ to = "made" => UNCHANGED <<tries, loose>>
        /\ to = "released" =>
              /\ tries' = [tries EXCEPT ![s] = 0]
              /\ IF IsHidden(s) THEN loose' = loose \union {s} ELSE UNCHANGED loose
              /\ going' = IF shown THEN going \union {<<s, id>>} ELSE going
              /\ Deletes(s, GoesWithIt(s), IF kind = "azure" /\ machine[s] # {} THEN GoesWithIt(s) ELSE {})
        /\ to = "made" =>
              \/ UNCHANGED <<going, parts, label>>
              \/ /\ going' = IF shown THEN going \union {<<s, id>>} ELSE going
                 /\ \E kept \in SUBSET GoesWithIt(s) : Deletes(s, GoesWithIt(s), kept)
  <2>1. CASE Goes(s, "released")
    BY <1>1, <2>1 DEF Terminate, DeletesMachine, Goes, Loose, Nobody
  <2>2. CASE UNCHANGED <<pc, tries, loose>>
    BY <1>1, <2>2 DEF Terminate, DeletesMachine, Goes, Loose, Nobody
  <2> QED BY <2>1, <2>2 DEF Terminate
<1>3. kind # "azure" => GoesWithIt(s) \subseteq Keys \X {s}
    BY GoesWithItKnown
<1>4. /\ parts' \in [Servers -> SUBSET {"ip", "nic"}]
      /\ label' \in [Keys -> Servers \union {"nobody", "stranger"}]
      /\ Mine(s)' \subseteq Mine(s)
      /\ \A t \in Servers \ {s} : Mine(t)' = Mine(t) /\ parts'[t] = parts[t]
      /\ parts'[s] \subseteq parts[s]
  <2>1. CASE UNCHANGED <<going, parts, label>>
    BY <2>1 DEF Mine
  <2>2. CASE \E kept : Deletes(s, GoesWithIt(s), kept)
    BY <1>3, <2>2, DeletesKnown
  <2> QED BY <1>2, <2>1, <2>2
<1>5. going' = going \/ (shown /\ going' = going \union {<<s, id>>})
    BY <1>2
<1>6. TypeOK'
  <2>1. pc' \in [Servers -> Stages]
    BY <1>2 DEF Stages
  <2>4. tries' \in [Servers -> 0..Retries]
    <3>1. CASE to = "made"
      BY <1>2, <3>1
    <3>2. CASE to = "released"
      BY <1>2, <3>2, BoundsAssumption
    <3> QED BY <3>1, <3>2
  <2>2. loose' \subseteq Servers
    BY <1>2
  <2>3. going' \subseteq Servers \X {1, 2, Stranger}
    BY <1>5 DEF Shown, There
  <2> QED BY <1>1, <1>4, <2>1, <2>2, <2>3, <2>4
<1>7. \A t \in Servers \ {s} : LeftAlone(t)
  <2>1. \A t \in Servers \ {s} : \A x \in {1, 2, Stranger} : <<t, x>> \in going' <=> <<t, x>> \in going
    BY <1>5
  <2>2. \A t \in Servers \ {s} : t \in loose' <=> t \in loose
    BY <1>2
  <2>3. \A t \in Servers \ {s} : pc'[t] = pc[t] /\ tries'[t] = tries[t]
    BY <1>2
  <2> QED BY <1>1, <1>4, <2>1, <2>2, <2>3 DEF LeftAlone
<1>8. pc'[s] = to
    BY <1>2
<1>9. Journey(s)'
    BY <1>1, <1>8 DEF Journey
<1>10. KeysKnown(s)'
    BY <1>1, <1>4, <1>8 DEF KeysKnown, HasKeys
<1>11. MachinesKnown(s)'
    BY <1>1, <1>4, <1>5, <1>8 DEF MachinesKnown
<1>12. ViewsTrue(s)'
    BY <1>1, <1>8 DEF ViewsTrue, There
<1>13. Tracked(s)'
  <2>1. CASE to = "made"
    BY <1>8, <2>1 DEF Tracked
  <2>2. CASE to = "released"
    <3>1. SUFFICES ASSUME s \notin loose'
                   PROVE  /\ Mine(s)' = {}
                          /\ kind # "digitalocean" => \A x \in machine[s] : <<s, x>> \in going'
                          /\ machine[s] = {} => parts'[s] = {}
      BY <1>1, <1>8, <2>2 DEF Tracked
    <3>2. s \notin loose /\ (id \in machine[s] => shown)
      BY <1>2, <2>2, <3>1 DEF IsHidden, There
    <3>3. /\ Deletes(s, GoesWithIt(s), IF kind = "azure" /\ machine[s] # {} THEN GoesWithIt(s) ELSE {})
          /\ going' = IF shown THEN going \union {<<s, id>>} ELSE going
      BY <1>2, <2>2
    <3>4. kind # "digitalocean" => \A x \in machine[s] : <<s, x>> \in going'
      <4>1. kind # "digitalocean" => machine[s] \subseteq {1} /\ (id = 1 \/ machine[s] = {})
        BY <1>1 DEF MachinesKnown
      <4> QED BY <3>2, <3>3, <4>1
    <3>5. CASE kind = "azure"
      <4>1. machine[s] = {} => parts'[s] = parts[s] \ (GoesWithIt(s) \ {})
        BY <3>3, <3>5, DeletesKnown
      <4>2. machine[s] = {} => GoesWithIt(s) = parts[s]
        BY <3>5, GoesWithItKnown
      <4>3. Mine(s) = {}
        BY <3>5 DEF KeysKnown, HasKeys
      <4> QED BY <1>4, <3>4, <4>1, <4>2, <4>3
    <3>6. CASE kind # "azure"
      <4>1. \A k \in Mine(s)' : <<k, s>> \notin GoesWithIt(s) \ {}
        BY <1>3, <3>3, <3>6, DeletesKnown
      <4>2. HasKeys => \A k \in Mine(s) : <<k, s>> \in GoesWithIt(s)
        <5>1. HasKeys => GoesWithIt(s) = handle[s].keys
          BY GoesWithItKnown
        <5>2. \A k \in Mine(s) : <<k, s>> \in handle[s].keys
          BY <1>1 DEF MachinesKnown
        <5> QED BY <5>1, <5>2
      <4>3. ~HasKeys => Mine(s) = {}
        BY DEF KeysKnown
      <4>4. Mine(s)' = {}
        BY <1>4, <4>1, <4>2, <4>3
      <4>5. parts[s] = {}
        BY <3>6 DEF MachinesKnown
      <4> QED BY <1>4, <3>4, <4>4, <4>5
    <3> QED BY <3>5, <3>6
  <2> QED BY <2>1, <2>2
<1> QED BY <1>1, <1>6, <1>7, <1>9, <1>10, <1>11, <1>12, <1>13 DEF StepKeeps

-----------------------------------------------------------------------------
(***************************************************************************)
(* Reads, and what the cloud does.                                         *)
(***************************************************************************)

\* A describe spends a read of its grace, and the cloud one of its lag: absence is
\* believed only after more reads than the cloud may hide a machine for.
LEMMA DescribeKeeps ==
    ASSUME IInv, NEW s \in Servers, Describe(s)
    PROVE  StepKeeps(s)
<1> USE DEF IInv, TypeOK, ServerInv, Shared
<1> DEFINE id == handle[s].id
<1>1. /\ pc[s] \in {"made", "released"} /\ view[s] # "terminated"
      /\ UNCHANGED <<kind, machine, parts, label, going, taken, bare, pc, tries, todo, ids, owned, handle, loose, mishaps>>
    BY DEF Describe, cloud, calls
<1>2. PICK l \in 0..(Grace - 1), n \in 0..MaxLag, v \in {"none", "running", "terminating", "terminated"} :
        /\ look' = [look EXCEPT ![s] = l] /\ lag' = [lag EXCEPT ![s] = n] /\ view' = [view EXCEPT ![s] = v]
        /\ \/ /\ n = 0 /\ lag[s] = 0 /\ v # "terminated"
              /\ seen' \in {seen, seen \union {s}}
           \/ /\ ~Shown(s, id) /\ UNCHANGED seen
              /\ n = IF lag[s] = 0 THEN 0 ELSE lag[s] - 1
              /\ \/ l = look[s] + 1 /\ v # "terminated"
                 \/ look[s] + 1 >= Attempts(s) /\ l = 0
  <2>1. CASE Shown(s, id)
    <3>1. PICK v \in {"running", "terminating"} : view' = [view EXCEPT ![s] = v]
      BY <2>1 DEF Describe
    <3>4. lag[s] = 0
      BY <2>1 DEF Shown, MachinesKnown
    <3>2. /\ look' = [look EXCEPT ![s] = 0] /\ lag' = [lag EXCEPT ![s] = 0]
          /\ seen' \in {seen, seen \union {s}}
      BY <2>1, <3>4 DEF Describe
    <3>3. 0 \in 0..(Grace - 1) /\ 0 \in 0..MaxLag
      BY GraceAssumption
    <3> QED BY <2>1, <3>1, <3>2, <3>3, <3>4
  <2>2. CASE ~Shown(s, id)
    <3>1. /\ UNCHANGED seen
          /\ lag' = [lag EXCEPT ![s] = IF lag[s] = 0 THEN 0 ELSE lag[s] - 1]
          /\ IF look[s] + 1 < Attempts(s)
             THEN look' = [look EXCEPT ![s] = look[s] + 1] /\ UNCHANGED view
             ELSE look' = [look EXCEPT ![s] = 0] /\ view' = [view EXCEPT ![s] = "terminated"]
      BY <2>2 DEF Describe
    <3>2. (IF lag[s] = 0 THEN 0 ELSE lag[s] - 1) \in 0..MaxLag /\ lag[s] \in Nat /\ look[s] \in Nat
      <4>1. lag[s] \in 0..MaxLag /\ look[s] \in 0..(Grace - 1)
        OBVIOUS
      <4>2. MaxLag \in Nat /\ Grace \in Nat
        BY GraceAssumption
      <4>3. lag[s] \in Nat /\ look[s] \in Nat /\ lag[s] <= MaxLag
        BY <4>1, <4>2
      <4> HIDE DEF IInv, TypeOK
      <4> QED BY <4>2, <4>3
    <3>3. Attempts(s) \in 1..Grace
      BY GraceAssumption DEF Attempts
    <3>4. CASE look[s] + 1 < Attempts(s)
      <4>1. look[s] + 1 \in 0..(Grace - 1)
        BY <3>2, <3>3, <3>4, GraceAssumption
      <4>2. view' = [view EXCEPT ![s] = view[s]]
        BY <3>1, <3>4
      <4> QED BY <1>1, <2>2, <3>1, <3>2, <3>4, <4>1, <4>2
    <3>5. CASE ~(look[s] + 1 < Attempts(s))
      <4>1. 0 \in 0..(Grace - 1) /\ look[s] + 1 >= Attempts(s)
        BY <3>2, <3>3, <3>5, GraceAssumption
      <4> QED BY <2>2, <3>1, <3>2, <3>5, <4>1
    <3> QED BY <3>4, <3>5
  <2> QED BY <2>1, <2>2
<1>3. TypeOK'
  <2>1. seen' \subseteq Servers
    BY <1>2
  <2> QED BY <1>1, <1>2, <2>1
<1>4. \A t \in Servers \ {s} : LeftAlone(t)
    BY <1>1, <1>2 DEF LeftAlone, Mine
<1>5. Mine(s)' = Mine(s)
    BY <1>1 DEF Mine
<1>6. Journey(s)'
    BY <1>1 DEF Journey, HasKeys
<1>7. KeysKnown(s)'
    BY <1>1, <1>5 DEF KeysKnown, HasKeys
<1>8. MachinesKnown(s)'
  <2>1. lag[s] = 0 => lag'[s] = 0
    BY <1>2
  <2> QED BY <1>1, <1>5, <2>1 DEF MachinesKnown
<1>9. ViewsTrue(s)'
  <2>1. look'[s] = l /\ lag'[s] = n /\ view'[s] = v /\ lag[s] \in 0..MaxLag /\ look[s] \in 0..(Grace - 1)
    BY <1>2
  <2>2. s \in seen' => n = 0
    BY <1>2 DEF ViewsTrue
  <2>3. id \in machine[s] /\ n > 0 => l + n <= MaxLag
    <3>1. SUFFICES ASSUME id \in machine[s], n > 0 PROVE l + n <= MaxLag
      OBVIOUS
    <3>2. n = lag[s] - 1 /\ lag[s] # 0 /\ l \in {0, look[s] + 1}
      BY <1>2, <3>1
    <3>3. lag[s] \in Nat /\ look[s] \in Nat /\ lag[s] > 0 /\ MaxLag \in Nat
      BY <2>1, <3>2, GraceAssumption
    <3>4. look[s] + lag[s] <= MaxLag
      BY <3>1, <3>3 DEF ViewsTrue
    <3> HIDE DEF IInv, TypeOK, ServerInv
    <3> QED BY <3>2, <3>3, <3>4
  <2>4. v = "terminated" => ~There(s, id)
    <3>1. SUFFICES ASSUME v = "terminated", There(s, id)
                   PROVE  FALSE
      OBVIOUS
    <3>4. id \in machine[s] /\ lag[s] # 0 /\ look[s] + 1 >= Attempts(s)
      BY <1>2, <3>1 DEF Shown, There
    <3>2. lag[s] > 0 /\ look[s] + 1 >= Attempts(s)
      BY <2>1, <3>4, GraceAssumption
    <3>3. s \notin seen /\ look[s] + lag[s] <= MaxLag
      BY <2>1, <3>1, <3>2, <3>4 DEF ViewsTrue
    <3> QED BY <2>1, <3>2, <3>3, GraceAssumption DEF Attempts
  <2> QED BY <1>1, <2>1, <2>2, <2>3, <2>4 DEF ViewsTrue, There
<1>10. Tracked(s)'
    BY <1>1, <1>5 DEF Tracked, NextKey
<1> QED BY <1>1, <1>3, <1>4, <1>6, <1>7, <1>8, <1>9, <1>10 DEF StepKeeps

\* A machine becomes visible.
LEMMA AppearsKeep ==
    ASSUME IInv, NEW s \in Servers, Appears(s)
    PROVE  StepKeeps(s)
<1> USE DEF IInv, TypeOK, ServerInv, Shared, Appears, GoesWrong, Fine, Goes, Refused, Repeats, GivesUp, Nobody, Loose, cloud, calls, reads
<1>1. TypeOK'
  <2>1. lag' \in [Servers -> 0..MaxLag]
    BY GraceAssumption
  <2> QED BY <2>1
<1>2. \A t \in Servers \ {s} : LeftAlone(t)
    BY DEF LeftAlone, Mine
<1>3. Journey(s)'
    BY DEF Journey, HasKeys
<1>4. KeysKnown(s)'
    BY DEF KeysKnown, HasKeys, Mine
<1>5. MachinesKnown(s)'
    BY DEF MachinesKnown, HasKeys, Mine
<1>6. ViewsTrue(s)'
    BY DEF ViewsTrue, There
<1>7. Tracked(s)'
    BY DEF Tracked, Mine, NextKey
<1> QED BY <1>1, <1>2, <1>3, <1>4, <1>5, <1>6, <1>7 DEF StepKeeps

\* A deletion is carried out.
LEMMA MachineGoesKeeps ==
    ASSUME IInv, NEW s \in Servers, NEW id \in {1, 2, Stranger}, MachineGoes(s, id)
    PROVE  StepKeeps(s)
<1> USE DEF IInv, TypeOK, ServerInv, Shared, MachineGoes, GoesWrong, Fine, Goes, Refused, Repeats, GivesUp, Nobody, Loose, cloud, calls, reads
<1>1. TypeOK'
  <2>1. machine' \in [Servers -> SUBSET {1, 2}] /\ parts' \in [Servers -> SUBSET {"ip", "nic"}]
    OBVIOUS
  <2>2. going' \subseteq Servers \X {1, 2, Stranger} /\ taken' \subseteq Servers
    OBVIOUS
  <2> QED BY <2>1, <2>2
<1>2. \A t \in Servers \ {s} : LeftAlone(t)
    BY DEF LeftAlone, Mine
<1>3. Journey(s)'
    BY DEF Journey, HasKeys
<1>4. KeysKnown(s)'
    BY DEF KeysKnown, HasKeys, Mine
<1>5. MachinesKnown(s)'
    BY DEF MachinesKnown, HasKeys, Mine
<1>6. ViewsTrue(s)'
    BY DEF ViewsTrue, There
<1>7. Tracked(s)'
    BY DEF Tracked, Mine, NextKey
<1> QED BY <1>1, <1>2, <1>3, <1>4, <1>5, <1>6, <1>7 DEF StepKeeps

-----------------------------------------------------------------------------
(***************************************************************************)
(* The invariant, and what follows from it.                                *)
(***************************************************************************)

\* A key goes in these two steps only.
LEMMA KeysGoInTwoSteps ==
    ASSUME IInv, NEW s \in Servers, NEW k \in Keys,
           label[k] # "nobody", label'[k] = "nobody",
           \/ Provision(s) \/ Replays(s) \/ Finds(s) \/ MakesPart(s)
           \/ \E x \in Keys : LooksUpKey(s, x) \/ MintsKey(s, x)
           \/ CreatesMachine(s) \/ Adopts(s) \/ ChecksFirst(s) \/ Reaps(s)
           \/ Terminate(s) \/ Describe(s) \/ Appears(s)
           \/ \E id \in {1, 2, Stranger} : MachineGoes(s, id)
    PROVE  label[k] = s /\ pc[s] \in {"reaping", "made"}
<1> USE DEF IInv, TypeOK, ServerInv
<1>1. label' # label
    OBVIOUS
<1>2. ~(Provision(s) \/ Replays(s) \/ Finds(s) \/ MakesPart(s))
    BY <1>1 DEF Provision, Replays, Finds, MakesPart, cloud
<1>3. ~(\E x \in Keys : LooksUpKey(s, x))
    BY <1>1 DEF LooksUpKey
<1>4. ~(\E x \in Keys : MintsKey(s, x))
    BY <1>1, ServersAssumption DEF MintsKey
<1>5. ~(CreatesMachine(s) \/ Adopts(s) \/ ChecksFirst(s))
    BY <1>1 DEF CreatesMachine, Adopts, ChecksFirst, cloud
<1>6. ~(Describe(s) \/ Appears(s) \/ \E id \in {1, 2, Stranger} : MachineGoes(s, id))
    BY <1>1 DEF Describe, Appears, MachineGoes, cloud
<1>7. CASE Reaps(s)
  <2>1. PICK kept : Deletes(s, ToReap(s), kept)
    BY <1>7 DEF Reaps
  <2>2. kind # "azure" => ToReap(s) \subseteq Keys \X {s}
    BY DEF ToReap, KeysKnown
  <2>3. label[k] = s
    BY <2>1, <2>2, DeletesKnown
  <2> QED BY <1>7, <2>3 DEF Reaps
<1>8. CASE Terminate(s)
  <2>1. \E kept : Deletes(s, GoesWithIt(s), kept)
    BY <1>1, <1>8 DEF Terminate
  <2>2. PICK kept : Deletes(s, GoesWithIt(s), kept)
    BY <2>1
  <2>3. label[k] = s
    BY <2>2, GoesWithItKnown, DeletesKnown
  <2> QED BY <1>8, <2>3 DEF Terminate
<1> QED BY <1>2, <1>3, <1>4, <1>5, <1>6, <1>7, <1>8

\* A machine somebody else made goes when the handle that names it is terminated.
LEMMA StrangersGo ==
    ASSUME IInv, NEW s \in Servers,
           \/ Provision(s) \/ Replays(s) \/ Finds(s) \/ MakesPart(s)
           \/ \E x \in Keys : LooksUpKey(s, x) \/ MintsKey(s, x)
           \/ CreatesMachine(s) \/ Adopts(s) \/ ChecksFirst(s) \/ Reaps(s)
           \/ Terminate(s) \/ Describe(s) \/ Appears(s)
           \/ \E id \in {1, 2, Stranger} : MachineGoes(s, id)
    PROVE  taken \ taken' # {} => kind = "hetzner" \/ taken \ taken' \subseteq bare
<1>1. CASE \E id \in {1, 2, Stranger} : MachineGoes(s, id)
  <2>1. PICK id \in {1, 2, Stranger} : MachineGoes(s, id)
    BY <1>1
  <2>2. CASE id = Stranger
    BY <2>1, <2>2 DEF MachineGoes, IInv, ServerInv, MachinesKnown
  <2>3. CASE id # Stranger
    BY <2>1, <2>3 DEF MachineGoes
  <2> QED BY <2>2, <2>3
<1>2. CASE ~\E id \in {1, 2, Stranger} : MachineGoes(s, id)
  <2>1. UNCHANGED taken
    BY <1>2 DEF Provision, Replays, Finds, MakesPart, LooksUpKey, MintsKey, keyFrame,
       CreatesMachine, Adopts, ChecksFirst, Reaps, Terminate, Describe, Appears, cloud
  <2> QED BY <2>1
<1> QED BY <1>1, <1>2

LEMMA InitKnown == Init => IInv
<1> SUFFICES ASSUME Init PROVE IInv
    OBVIOUS
<1> USE DEF Init, Keys
<1>1. TypeOK
  <2>1. tries \in [Servers -> 0..Retries] /\ mishaps \in 0..MaxMishaps
    BY BoundsAssumption
  <2>2. look \in [Servers -> 0..(Grace - 1)] /\ lag \in [Servers -> 0..MaxLag]
    BY GraceAssumption
  <2>3. handle \in [Servers -> [id : {0, 1, 2, Stranger}, keys : SUBSET KeyObjects]]
    BY DEF NoHandle
  <2>4. pc \in [Servers -> Stages]
    BY DEF Stages
  <2> QED BY <2>1, <2>2, <2>3, <2>4 DEF TypeOK
<1>2. ASSUME NEW s \in Servers PROVE ServerInv(s)
  <2>1. Mine(s) = {}
    BY ServersAssumption DEF Mine
  <2>2. Journey(s)
    BY DEF Journey
  <2>3. KeysKnown(s)
    BY <2>1 DEF KeysKnown, NoHandle
  <2>4. MachinesKnown(s)
    BY <2>1 DEF MachinesKnown, NoHandle
  <2>5. ViewsTrue(s)
    BY DEF ViewsTrue, There
  <2>6. Tracked(s)
    BY <2>1 DEF Tracked
  <2> QED BY <2>2, <2>3, <2>4, <2>5, <2>6 DEF ServerInv
<1> QED BY <1>1, <1>2 DEF IInv

\* Every step is one server's, and leaves the others alone.
LEMMA NextKeeps == IInv /\ [Next]_vars => IInv'
<1> SUFFICES ASSUME IInv, [Next]_vars PROVE IInv'
    OBVIOUS
<1>1. CASE UNCHANGED vars
  <2>1. TypeOK'
    BY <1>1 DEF IInv, TypeOK, vars, cloud, calls, reads
  <2>2. \A t \in Servers : LeftAlone(t) /\ Shared
    BY <1>1 DEF LeftAlone, Shared, Mine, vars, cloud, calls, reads
  <2> QED BY <2>1, <2>2, LeftAloneKeeps DEF IInv
<1>2. ASSUME NEW s \in Servers, StepKeeps(s) PROVE IInv'
    BY <1>2, LeftAloneKeeps DEF IInv, StepKeeps
<1>3. ASSUME NEW s \in Servers,
             \/ Provision(s) \/ Replays(s) \/ Finds(s) \/ MakesPart(s)
             \/ \E k \in Keys : LooksUpKey(s, k) \/ MintsKey(s, k)
             \/ CreatesMachine(s) \/ Adopts(s) \/ ChecksFirst(s) \/ Reaps(s)
             \/ Terminate(s) \/ Describe(s) \/ Appears(s)
             \/ \E id \in {1, 2, Stranger} : MachineGoes(s, id)
      PROVE  StepKeeps(s)
    BY <1>3, ProvisionKeeps, ReplaysKeep, FindsKeep, MakesPartKeeps, LooksUpKeyKeeps, MintsKeyKeeps,
       CreatesMachineKeeps, AdoptsKeeps, ChecksFirstKeeps, ReapsKeeps, TerminateKeeps, DescribeKeeps,
       AppearsKeep, MachineGoesKeeps
<1>4. CASE Next
    BY <1>2, <1>3, <1>4 DEF Next
<1> QED BY <1>1, <1>4

\* The invariant that carries the others: of each server, where its provision is
\* and at which clouds, what it owns and has still to mint, what there may be
\* at the cloud while the code has not lost track, and how many reads are spent.
THEOREM ServersAccounted == Spec => []IInv
BY InitKnown, NextKeeps, PTL DEF Spec

\* Every variable holds what its declaration says; a handle names machines and
\* key objects that can exist.
THEOREM TypeCorrect == Spec => []TypeOK
BY ServersAccounted, PTL DEF IInv

\* The handle that provision returned names the machine, at every cloud that
\* knows a repeated create again, and every key minted for the server.
THEOREM HandleReachesEverything == Spec => []HandleCoversAll
<1>1. IInv => HandleCoversAll
  <2> SUFFICES ASSUME IInv, NEW s \in Servers, pc[s] = "made"
               PROVE  /\ Minted(s) \subseteq handle[s].keys
                      /\ kind # "digitalocean" => machine[s] \subseteq {handle[s].id}
    BY DEF HandleCoversAll
  <2>1. \A k \in Mine(s) : <<k, s>> \in handle[s].keys
    BY DEF IInv, ServerInv, MachinesKnown
  <2>2. Minted(s) \subseteq handle[s].keys
    BY <2>1 DEF Minted, KeyObject, Mine
  <2>3. kind # "digitalocean" => machine[s] \subseteq {1} /\ (handle[s].id = 1 \/ machine[s] = {})
    BY DEF IInv, ServerInv, MachinesKnown
  <2> QED BY <2>2, <2>3
<1> QED BY <1>1, ServersAccounted, PTL

\* A provision that threw and a server that was terminated leave no machine, key,
\* address or interface, unless the code itself lost track of the call's outcome;
\* DigitalOcean's second droplet aside.
THEOREM FailureLeavesNothing == Spec => []NothingLeftBehind
<1>1. IInv => NothingLeftBehind
  <2> SUFFICES ASSUME IInv, NEW s \in Servers \ loose
               PROVE  /\ pc[s] \in {"threw", "released"} => Minted(s) = {}
                      /\ pc[s] = "threw" => machine[s] = {} /\ parts[s] = {}
                      /\ pc[s] = "released" =>
                            /\ kind # "digitalocean" => \A id \in machine[s] : <<s, id>> \in going
                            /\ machine[s] = {} => parts[s] = {}
    BY DEF NothingLeftBehind
  <2>1. Tracked(s)
    BY DEF IInv, ServerInv
  <2>2. pc[s] \in {"threw", "released"} => Minted(s) = {}
    BY <2>1 DEF Tracked, Mine, Minted
  <2> QED BY <2>1, <2>2 DEF Tracked
<1> QED BY <1>1, ServersAccounted, PTL

\* describe answers "terminated" of no machine that exists, as long as the grace
\* is longer than any lag of the cloud.
THEOREM AbsenceIsOnlyBelievedWhenTrue == Spec => []AbsenceIsTrue
<1>1. IInv => AbsenceIsTrue
    BY DEF IInv, ServerInv, ViewsTrue, AbsenceIsTrue
<1> QED BY <1>1, ServersAccounted, PTL

\* No step deletes a key but the cleanup or the termination of the server it was
\* minted for: the user's own key and another server's survive.  And a machine
\* somebody else made goes only where the code does not ask for its marks.
THEOREM OnlyOwnKeysAreDeleted == Spec => OnlyOwnResourcesGo
<1> DEFINE K == \A k \in Keys :
                  label[k] # "nobody" /\ label'[k] = "nobody" =>
                      label[k] \in Servers /\ pc[label[k]] \in {"reaping", "made"}
           M == taken \ taken' # {} => kind = "hetzner" \/ taken \ taken' \subseteq bare
<1>1. IInv /\ [Next]_vars => [K /\ M]_vars
  <2> SUFFICES ASSUME IInv, Next PROVE K /\ M
    OBVIOUS
  <2>1. ASSUME NEW k \in Keys, label[k] # "nobody", label'[k] = "nobody"
        PROVE  label[k] \in Servers /\ pc[label[k]] \in {"reaping", "made"}
    BY <2>1, KeysGoInTwoSteps DEF Next
  <2>2. M
    BY StrangersGo DEF Next
  <2> QED BY <2>1, <2>2
<1> QED BY <1>1, ServersAccounted, PTL DEF Spec, OnlyOwnResourcesGo

=============================================================================
