---------------------------- MODULE MCBootstrap ----------------------------
(***************************************************************************)
(* Bootstrap with plans the resolver renders, from a few small tool tables *)
(* and the choices a create request makes.                                 *)
(***************************************************************************)
EXTENDS Bootstrap, InstallPlan

Tool(id, order, bootstrap, always, setup) ==
    [id |-> id, order |-> order, bootstrap |-> bootstrap, enabled |-> TRUE,
     always |-> always, setup |-> setup]

NoPack == [known |-> FALSE, tools |-> <<>>, requiresRdp |-> FALSE]
Pack(tools, rdp) == [known |-> TRUE, tools |-> tools, requiresRdp |-> rdp]

Repo(owner, name) == [owner |-> owner, name |-> name]

Input(pack, selected, tools, repositories, userScript, branding, suppliedKey) ==
    [pack |-> pack, selected |-> selected, tools |-> tools,
     repositories |-> repositories, userScript |-> userScript,
     branding |-> branding, suppliedKey |-> suppliedKey]

\* The table of a small installation: a runtime tool, one installed on every
\* box, and two of a pack whose ids and orders disagree.
Table == {Tool(1, 30, FALSE, FALSE, TRUE), Tool(2, 20, FALSE, FALSE, FALSE),
          Tool(3, 20, FALSE, TRUE, FALSE), Tool(4, 50, TRUE, FALSE, FALSE)}

Selections == {<<>>, <<2>>, <<1, 2>>, <<3, 1>>, <<9, 4>>}
RepoLists == {<<>>, <<Repo(1, 1)>>, <<Repo(1, 1), Repo(1, 2)>>, <<Repo(1, 1), Repo(2, 1)>>}

\* What a create request may ask for of the last steps.
Endings == {<<TRUE, TRUE, FALSE>>, <<TRUE, FALSE, TRUE>>, <<FALSE, TRUE, TRUE>>, <<FALSE, FALSE, FALSE>>}

\* The combinations the resolver meets.
AllInputs ==
    {Input(p, s, t, r, e[1], e[2], e[3]) :
        p \in {NoPack, Pack(<<1, 2>>, FALSE), Pack(<<2, 3>>, TRUE), Pack(<<1, 1>>, FALSE)}, s \in Selections,
        t \in {Table, {[x EXCEPT !.enabled = x.id # 2] : x \in Table}},
        r \in RepoLists, e \in Endings}

\* The ones whose boxes are driven: a plan with a supplied key, one with an
\* optional step on either side of a required one, and one that does not parse.
DrivenInputs ==
    LET one == {Tool(1, 10, FALSE, FALSE, FALSE)}
    IN {Input(NoPack, <<1>>, one, <<>>, FALSE, FALSE, TRUE),
        Input(NoPack, <<>>, one, <<Repo(1, 1)>>, FALSE, FALSE, FALSE),
        Input(NoPack, <<>>, one, <<Repo(1, 1), Repo(2, 1)>>, FALSE, FALSE, FALSE)}

Rendered == {[input |-> in, plan |-> resolveInstallPlan(in)] : in \in AllInputs}
MCProvisioned == {resolveInstallPlan(in) : in \in DrivenInputs}
MCPlans == MCProvisioned \union {r.plan : r \in Rendered}

\* A rendered plan goes through its phases in the order every reader of it
\* relies on: nothing after a `ready` reports anything else, core's key goes
\* last, set-up scripts find tools and clones, and the tools are exactly the
\* ones due, in the order they ask for, each id once.
PhasesInOrder == \A r \in Rendered : r.plan = plan => SoundPlan(r.input, plan)

=============================================================================
