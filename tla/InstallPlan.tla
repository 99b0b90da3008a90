----------------------------- MODULE InstallPlan -----------------------------
(***************************************************************************)
(* What a box will run: the install plan core renders once, when it creates *)
(* the server, out of the row's pack, tools, repositories and choices.  A  *)
(* pure function of its inputs, snapshotted on the row.                    *)
(*                                                                         *)
(* Translated from packages/core/src/bootstrap: resolver.ts,               *)
(* install-plan.ts and the plan format of plan.ts.  A step keeps what the  *)
(* agent and core act on: its id, the label it reports, whether it is      *)
(* optional, and whether it takes core's own key off the box.  The scripts *)
(* a step runs are out of the model.                                       *)
(***************************************************************************)
EXTENDS Naturals, Sequences, FiniteSets, SequencesExt

\* A repository is a URL; its clone is named for the last part of the path.
repoDirName(url) == url.name

Step(kind, name, label, optional) ==
    [id |-> <<kind, name>>, reports |-> label, optional |-> optional,
     retires |-> kind = "supplied-key-only"]

\* A step there is at most one of: branding, rdp and their like.
Singleton(kind, label, optional) == Step(kind, 0, label, optional)

\* Optional sequences of steps, spliced in when the condition holds.
When(condition, steps) == IF condition THEN steps ELSE <<>>

-----------------------------------------------------------------------------
(***************************************************************************)
(* Lists: sort() and filter().                                             *)
(***************************************************************************)

\* The members of a finite set, first to last by a strict order: the place of
\* each is how many are ahead of it.
InOrder(S, order) ==
    LET Ahead(x) == {y \in S : <<y, x>> \in order}
    IN [i \in 1..Cardinality(S) |-> CHOOSE x \in S : Cardinality(Ahead(x)) = i - 1]

Ascending == {p \in Nat \X Nat : p[1] < p[2]}

\* What a list has at some of its places, these taken in an order.
Taken(list, places, order) ==
    LET at == InOrder(places, order) IN [k \in DOMAIN at |-> list[at[k]]]

\* The elements of a list that are in a set.
Those(list, S) == Taken(list, {i \in DOMAIN list : list[i] \in S}, Ascending)

-----------------------------------------------------------------------------
(***************************************************************************)
(* Which tools a server gets.                                              *)
(***************************************************************************)

\* Mutant: a tool the list already names is appended again.
UnionAlwaysBlindly(base, always) == base \o always

unionAlwaysInstalled(base, always) == base \o Those(always, ToSet(always) \ ToSet(base))

Ids(tools) == InOrder({t.id : t \in tools}, Ascending)

\* An explicit selection wins over the pack's list; without a pack it is all
\* there is.
ChosenIds(in) == IF in.pack.known /\ in.selected = <<>> THEN in.pack.tools ELSE in.selected

\* The always-installed tools join whichever was chosen.
resolveServerToolIds(in) ==
    unionAlwaysInstalled(ChosenIds(in), Ids({t \in in.tools : t.always}))

-----------------------------------------------------------------------------
(***************************************************************************)
(* The plan.                                                               *)
(***************************************************************************)

\* By installOrder, ties by id; what is equal in both stays as it was.
Sooner(tools) ==
    {p \in (DOMAIN tools) \X (DOMAIN tools) :
        LET a == tools[p[1]]
            b == tools[p[2]]
        IN \/ a.order < b.order
           \/ a.order = b.order /\ a.id < b.id
           \/ a.order = b.order /\ a.id = b.id /\ p[1] < p[2]}

InExecutionOrder(tools) == Taken(tools, DOMAIN tools, Sooner(tools))

Rows(in, ids) == [i \in DOMAIN ids |-> CHOOSE t \in in.tools : t.id = ids[i]]

BootstrapTools(in) ==
    InExecutionOrder(Rows(in, Ids({t \in in.tools : t.bootstrap /\ t.enabled})))

\* Ids nothing answers to are dropped, as are disabled tools and the ones the
\* runtime installs anyway.
PackTools(in) ==
    LET known == Those(resolveServerToolIds(in), {t.id : t \in in.tools})
    IN InExecutionOrder(Those(Rows(in, known), {t \in in.tools : t.enabled /\ ~t.bootstrap}))

Each(tools, kind, label) ==
    [i \in DOMAIN tools |-> Step(kind, tools[i].id, label, FALSE)]

resolveInstallPlan(in) ==
    LET tools == BootstrapTools(in) \o PackTools(in)
    IN Each(tools, "tool", "installing_tools")
       \o [i \in DOMAIN in.repositories |->
              Step("repo", repoDirName(in.repositories[i]), "cloning_repos", TRUE)]
       \o Each(Those(tools, {t \in in.tools : t.setup}), "tool-setup", "tools_installed")
       \o When(in.userScript, <<Singleton("user-script", "running_user_script", TRUE)>>)
       \o <<Singleton("shell-environment", "ready", FALSE)>>
       \o When(in.branding, <<Singleton("branding", "ready", TRUE)>>)
       \o When(in.pack.known /\ in.pack.requiresRdp, <<Singleton("rdp", "ready", FALSE)>>)
       \o When(in.suppliedKey, <<Singleton("supplied-key-only", "ready", FALSE)>>)

-----------------------------------------------------------------------------
(***************************************************************************)
(* What the plan must be, said without saying how it is put together: the  *)
(* table of phases of docs/bootstrap-contract.md, and what the agent and   *)
(* core rely on.                                                           *)
(***************************************************************************)

Kind(step) == step.id[1]
Before(plan, early(_), late(_)) ==
    \A i, j \in DOMAIN plan : early(plan[i]) /\ late(plan[j]) => i < j

\* Nothing that reports another label follows a step that reports `ready`: in
\* callback mode core would drop its report.
ReadyIsLast(plan) ==
    Before(plan, LAMBDA s : s.reports # "ready", LAMBDA s : s.reports = "ready")

\* Core's own key is given up last of all, and not optionally.
KeyGoesLast(plan) ==
    \A i \in DOMAIN plan : plan[i].retires => i = Len(plan) /\ ~plan[i].optional

\* A tool is installed before it is set up, and every repository is cloned
\* before any set-up script or the user's script may look for it.
SetupFindsItsWorld(plan) ==
    /\ Before(plan, LAMBDA s : Kind(s) = "tool", LAMBDA s : Kind(s) = "tool-setup")
    /\ Before(plan, LAMBDA s : Kind(s) = "repo",
                    LAMBDA s : Kind(s) \in {"tool-setup", "user-script"})
    /\ Before(plan, LAMBDA s : Kind(s) # "user-script" /\ s.reports # "ready",
                    LAMBDA s : Kind(s) = "user-script")

\* Exactly the tools a server should have, runtime tools first, each group in
\* the order the tools ask for, ties by id: a plan renders alike every time.
ToolsAreRight(in, plan) ==
    LET wanted == ToSet(IF in.pack.known /\ in.selected = <<>> THEN in.pack.tools ELSE in.selected)
        due == {t \in in.tools : t.enabled /\ (t.bootstrap \/ t.always \/ t.id \in wanted)}
        At(t) == CHOOSE i \in DOMAIN plan : plan[i].id = <<"tool", t.id>>
        Earlier(a, b) == \/ a.bootstrap /\ ~b.bootstrap
                         \/ a.bootstrap = b.bootstrap /\ a.order < b.order
                         \/ a.bootstrap = b.bootstrap /\ a.order = b.order /\ a.id < b.id
    IN /\ {<<"tool", t.id>> : t \in due} = {plan[i].id : i \in {j \in DOMAIN plan : Kind(plan[j]) = "tool"}}
       /\ \A a, b \in due : Earlier(a, b) => At(a) < At(b)

UniqueIds(plan) == \A i, j \in DOMAIN plan : plan[i].id = plan[j].id => i = j

HasTwins(list) == \E i, j \in DOMAIN list : i # j /\ list[i] = list[j]

\* Two repositories of one name, or one tool chosen or listed by the pack twice:
\* nothing at the door of create, or of a pack, refuses them.
AsksTwice(in) ==
    \/ HasTwins([i \in DOMAIN in.repositories |-> repoDirName(in.repositories[i])])
    \/ HasTwins(ChosenIds(in))

SoundPlan(in, plan) ==
    /\ UniqueIds(plan) \/ AsksTwice(in)
    /\ ReadyIsLast(plan)
    /\ KeyGoesLast(plan)
    /\ SetupFindsItsWorld(plan)
    /\ ToolsAreRight(in, plan)

=============================================================================
