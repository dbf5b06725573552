---------------------------- MODULE Configuration ----------------------------
(***************************************************************************)
(* The configuration file (internal/config, internal/workspace): Load      *)
(* decodes and validates it, Resolve merges a workspace over the defaults, *)
(* and `jailoc [path]` and `jailoc add` append a path to it.  AddPath      *)
(* decodes the file again, truncates it and writes it, without a lock, so  *)
(* the commands of several terminals interleave between those steps.       *)
(*                                                                         *)
(* A scope is the [defaults] table or a [workspaces.<name>] table.  None   *)
(* is an unset option; a list that is None is a nil slice.                 *)
(***************************************************************************)
EXTENDS Naturals, Sequences, FiniteSets, SequencesExt, FiniteSetsExt

CONSTANTS
    Proc,      \* terminals that run commands
    MaxCommands, \* commands the terminals run
    None,
    Missing,   \* there is no file
    Torn       \* the file is truncated and not yet written

VARIABLES
    conf,      \* the file: Missing, Torn or a configuration
    left,      \* commands still to run
    cli,       \* per terminal, the locals of its command
    last,      \* what the last command resolved: its configuration, workspace and Resolved
    added,     \* history: the paths whose AddPath returned
    spoiled    \* history: two writers overlapped, or one failed after it truncated the file

vars == <<conf, left, cli, last, added, spoiled>>

Names == {"default", "other"}
Builtin == {"opencode", "claude"}
Targets == {<<"a">>, <<"a", "b">>, <<"tmp">>}

Or(x, y) == IF x = "" THEN y ELSE x
Override(over, default) == IF over = None THEN default ELSE over

-----------------------------------------------------------------------------
\* Scopes and configurations.

NoSettings == [from |-> "", version |-> "", profile |-> None, mounts |-> <<>>]

Blank == [paths |-> <<>>, agent |-> "", agents |-> [n \in {} |-> NoSettings],
          mounts |-> <<>>, snapshots |-> <<>>, ports |-> <<>>, hostPorts |-> <<>>,
          env |-> <<>>, envFile |-> <<>>, secretEnv |-> {}, secretFile |-> {},
          docker |-> None, protect |-> None,
          filtered |-> None, upstream |-> "", zones |-> None, hosts |-> <<>>]

Config(defaults, ws) == [defaults |-> defaults, ws |-> [w \in {"default"} |-> ws]]

\* defaultConfigContent: a default workspace without paths.
DefaultConfig == Config(Blank, Blank)

\* A truncated file decodes to a configuration without workspaces.
Decode(c) == IF c = Torn THEN [defaults |-> Blank, ws |-> [w \in {} |-> Blank]] ELSE c

-----------------------------------------------------------------------------
\* Validation.

\* A mount entry: host None removes an inherited mount; guest is the
\* destination, clean whether it is spelled as filepath.Clean spells it.
ValidMount(m) == m.host # "forbidden" /\ m.guest # "system"

ForbiddenPath(p) == p # <<>> /\ p[1] = "tmp"

DistinctBy(entries, key) ==
    \A i, j \in DOMAIN entries : entries[i][key] = entries[j][key] => i = j

FromOf(agents, n) == IF n \in DOMAIN agents THEN agents[n].from ELSE ""

ValidateAgent(name, agents, inherited) ==
    /\ \A n \in DOMAIN agents :
        /\ IF n \in Builtin THEN agents[n].from = ""
           ELSE Or(agents[n].from, FromOf(inherited, n)) \in Builtin
        /\ \A i \in DOMAIN agents[n].mounts : ValidMount(agents[n].mounts[i])
    /\ name \in {""} \cup Builtin \cup DOMAIN agents \cup DOMAIN inherited

Reserved(key) == key = "JAILOC"

ValidateScope(s) ==
    /\ \A m \in ToSet(s.mounts) \cup ToSet(s.snapshots) : ValidMount(m)
    /\ \A e \in ToSet(s.env) \cup ToSet(s.envFile) : ~Reserved(e.key)
    /\ s.secretEnv \cap s.secretFile = {}
    /\ DistinctBy(s.ports, "host") /\ DistinctBy(s.hostPorts, "guest")

ExplicitTrue(defaults, ws) == Override(ws, defaults) = TRUE

Zones(defaults, ws) == LET z == Override(ws, defaults) IN IF z = None THEN {} ELSE ToSet(z)

\* A host name lies in the zone it ends with.
InZone(host, zone) == IsSuffix(zone, host)

\* Mutant: the allowed hosts of the defaults are left out of the check.
ValidateDNSOwn(d, s) ==
    ExplicitTrue(d.filtered, s.filtered) =>
        /\ Or(s.upstream, d.upstream) # ""
        /\ Zones(None, s.zones) # {} \/ Zones(None, d.zones) # {}
        /\ \A h \in ToSet(s.hosts), z \in Zones(d.zones, s.zones) : ~InZone(h, z)

ValidateDNS(d, s) ==
    ExplicitTrue(d.filtered, s.filtered) =>
        /\ Or(s.upstream, d.upstream) # ""
        /\ Zones(None, s.zones) # {} \/ Zones(None, d.zones) # {}
        /\ \A h \in ToSet(d.hosts) \cup ToSet(s.hosts), z \in Zones(d.zones, s.zones) : ~InZone(h, z)

Validate(c) ==
    LET d == c.defaults IN
    /\ ValidateAgent(d.agent, d.agents, [n \in {} |-> NoSettings])
    /\ ValidateScope(d)
    /\ \A w \in DOMAIN c.ws : LET s == c.ws[w] IN
        /\ \A p \in ToSet(s.paths) : ~ForbiddenPath(p)
        /\ ValidateScope(s)
        /\ ValidateDNS(d, s)
        /\ ValidateAgent(s.agent, s.agents, d.agents)
        /\ ~(ExplicitTrue(d.docker, s.docker) /\ ExplicitTrue(d.protect, s.protect))

\* Validate spells the destinations of mounts and snapshots the clean way; the
\* mounts of the agents tables stay as they are.
Clean(s) ==
    LET Cleaned(list) == [i \in DOMAIN list |-> [list[i] EXCEPT !.clean = TRUE]]
    IN [s EXCEPT !.mounts = Cleaned(@), !.snapshots = Cleaned(@)]

Normalised(c) == [defaults |-> Clean(c.defaults), ws |-> [w \in DOMAIN c.ws |-> Clean(c.ws[w])]]

-----------------------------------------------------------------------------
\* Merging.

\* Entries keep the place of the first one with their key and the value of the last.
LastWins(entries, Key(_)) ==
    LET keys == FoldLeft(LAMBDA seen, e : IF Contains(seen, Key(e)) THEN seen ELSE Append(seen, Key(e)),
                         <<>>, entries)
    IN [i \in DOMAIN keys |-> entries[Max({j \in DOMAIN entries : Key(entries[j]) = keys[i]})]]

MergeMounts(specs) ==
    SelectSeq(LastWins(specs, LAMBDA m : <<m.guest, m.clean>>), LAMBDA m : m.host # None)

\* Mutant: the workspace's entries come before the defaults'.
MergePortsSwapped(defaults, ws) == LastWins(ws \o defaults, LAMBDA p : p.host)

MergePorts(defaults, ws) == LastWins(defaults \o ws, LAMBDA p : p.host)

MergeHostPorts(defaults, ws) == LastWins(defaults \o ws, LAMBDA p : p.guest)

MergeUnique(a, b) == LastWins(a \o b, LAMBDA v : v)

DedupEnv(entries) == LastWins(entries, LAMBDA e : e.key)

\* One entry per name: the workspace's, else the defaults'.
MergeSecrets(d, s) ==
    LET Own(scope, from) == {[name |-> n, kind |-> "env", from |-> from] : n \in scope.secretEnv}
                            \cup {[name |-> n, kind |-> "file", from |-> from] : n \in scope.secretFile}
    IN Own(s, "ws") \cup {e \in Own(d, "defaults") : e.name \notin s.secretEnv \cup s.secretFile}

HarnessMounts == << [host |-> "agents", guest |-> "g", clean |-> TRUE] >>

\* resolveAgent: None when no built-in agent is found.
ResolveAgent(d, s) ==
    LET name == Or(Or(s.agent, d.agent), "opencode")
        Table(agents, n) == IF n \in DOMAIN agents THEN agents[n] ELSE NoSettings
        own == <<Table(s.agents, name), Table(d.agents, name)>>
        from == IF name \in Builtin THEN name ELSE Or(own[1].from, own[2].from)
        tables == IF name \in Builtin THEN own
                  ELSE own \o <<Table(s.agents, from), Table(d.agents, from)>>
    IN IF from \notin Builtin THEN None
       ELSE [name |-> name, harness |-> from,
             version |-> FoldLeft(LAMBDA v, t : Or(v, t.version), "", tables),
             profile |-> Override(own[1].profile, own[2].profile),
             mounts |-> FoldLeft(LAMBDA ms, t : ms \o t.mounts, <<>>, Reverse(tables))]

Resolve(c, w) ==
    LET d == c.defaults
        s == c.ws[w]
        h == ResolveAgent(d, s)
        protect == ExplicitTrue(d.protect, s.protect)
    IN IF h = None THEN None
       ELSE [agent |-> h,
             mounts |-> MergeMounts(HarnessMounts \o h.mounts \o d.mounts \o s.mounts),
             snapshots |-> MergeMounts(d.snapshots \o s.snapshots),
             env |-> DedupEnv(d.env \o d.envFile \o s.envFile \o s.env),
             secrets |-> MergeSecrets(d, s),
             ports |-> MergePorts(d.ports, s.ports),
             hostPorts |-> MergeHostPorts(d.hostPorts, s.hostPorts),
             protect |-> protect,
             docker |-> ExplicitTrue(d.docker, s.docker) /\ ~protect,
             filtered |-> ExplicitTrue(d.filtered, s.filtered),
             upstream |-> Or(s.upstream, d.upstream),
             zones |-> Zones(d.zones, s.zones),
             hosts |-> MergeUnique(d.hosts, s.hosts)]

\* The workspaces with the deepest path at or above target.
FromCWD(c, target) ==
    LET Depths(w) == {Len(p) : p \in {q \in ToSet(c.ws[w].paths) : IsPrefix(q, target)}}
        matching == {w \in DOMAIN c.ws : Depths(w) # {}}
    IN {w \in matching : \A v \in matching : Max(Depths(w)) >= Max(Depths(v))}

MatchesCWD(s, target) == \E p \in ToSet(s.paths) : IsPrefix(p, target)

-----------------------------------------------------------------------------
\* The commands `jailoc [path]` ("open") and `jailoc add`.

Idle == [pc |-> "idle", cmd |-> "open", target |-> <<>>, flag |-> None, cfg |-> None, ws |-> None]

End(p) == cli' = [cli EXCEPT ![p] = Idle]

\* The rest of the command once it has loaded c: it picks the workspace,
\* resolves it and asks before it adds the path, unless nothing is to add.
Proceed(p, run, c) ==
    LET deepest == IF run.flag = None THEN FromCWD(c, run.target) ELSE {run.flag}
        w == IF deepest = {} THEN "default" ELSE CHOOSE v \in deepest : TRUE
        found == Cardinality(deepest) <= 1 /\ w \in DOMAIN c.ws
        paths == c.ws[w].paths
        asks == IF run.cmd = "open" THEN ~MatchesCWD(c.ws[w], run.target)
                ELSE /\ run.flag # None /\ paths # <<>> => MatchesCWD(c.ws[w], run.target)
                     /\ ~Contains(paths, run.target)
    IN /\ last' = IF found THEN [cfg |-> c, ws |-> w, res |-> Resolve(c, w)] ELSE None
       /\ IF found /\ Resolve(c, w) # None /\ asks
          THEN cli' = [cli EXCEPT ![p] = [run EXCEPT !.pc = "prompt", !.cfg = c, !.ws = w]]
          ELSE End(p)

Writing(p) == cli[p].pc \in {"stat", "created", "decoded", "opened"}
Overlap(p) == spoiled' = (spoiled \/ \E q \in Proc \ {p} : Writing(q))

\* Load: a missing file is created, an existing one decoded and validated.
Load(p) ==
    /\ cli[p].pc = "idle" /\ left > 0
    /\ left' = left - 1
    /\ \E cmd \in {"open", "add"}, target \in Targets, flag \in Names \cup {None} :
        LET run == [Idle EXCEPT !.cmd = cmd, !.target = target, !.flag = flag] IN
        IF conf = Missing
        THEN cli' = [cli EXCEPT ![p] = [run EXCEPT !.pc = "stat"]] /\ last' = None /\ Overlap(p)
        ELSE /\ UNCHANGED spoiled
             /\ IF Validate(Decode(conf)) THEN Proceed(p, run, Normalised(Decode(conf)))
                ELSE last' = None /\ End(p)
    /\ UNCHANGED <<conf, added>>

\* createDefaultAt: os.WriteFile truncates the file ...
CreateDefault(p) ==
    /\ cli[p].pc = "stat"
    /\ conf' = Torn
    /\ cli' = [cli EXCEPT ![p].pc = "created"]
    /\ UNCHANGED <<left, last, added, spoiled>>

\* ... and writes it; loadFrom decodes what it wrote without validating it.
WriteDefault(p) ==
    /\ cli[p].pc = "created"
    /\ conf' = DefaultConfig
    /\ Proceed(p, cli[p], DefaultConfig)
    /\ UNCHANGED <<left, added, spoiled>>

Decline(p) ==
    /\ cli[p].pc = "prompt"
    /\ End(p)
    /\ UNCHANGED <<conf, left, last, added, spoiled>>

\* Mutant: AddPath appends to the configuration the command loaded before it asked.
AddPathStale(p) ==
    /\ cli[p].pc = "prompt"
    /\ Overlap(p)
    /\ cli' = [cli EXCEPT ![p].pc = "decoded", ![p].cfg.ws[cli[p].ws].paths = Append(@, cli[p].target)]
    /\ UNCHANGED <<conf, left, last, added>>

\* AddPath decodes the file again, not validating it.
AddPath(p) ==
    LET c == Decode(conf)
        w == cli[p].ws
    IN /\ cli[p].pc = "prompt"
       /\ Overlap(p)
       /\ IF w \notin DOMAIN c.ws THEN End(p)
          ELSE cli' = [cli EXCEPT ![p].pc = "decoded",
                                  ![p].cfg = [c EXCEPT !.ws[w].paths = Append(@, cli[p].target)]]
       /\ UNCHANGED <<conf, left, last, added>>

\* os.Create truncates the file, or fails and leaves it.
Create(p) ==
    /\ cli[p].pc = "decoded"
    /\ \/ conf' = Torn /\ cli' = [cli EXCEPT ![p].pc = "opened"]
       \/ UNCHANGED conf /\ End(p)
    /\ UNCHANGED <<left, last, added, spoiled>>

Encode(p) ==
    /\ cli[p].pc = "opened"
    /\ conf' = cli[p].cfg
    /\ added' = added \cup {<<cli[p].ws, cli[p].target>>}
    /\ End(p)
    /\ UNCHANGED <<left, last, spoiled>>

\* The encoder or the command fails after the file was truncated.
EncodeFails(p) ==
    /\ cli[p].pc = "opened"
    /\ spoiled' = TRUE
    /\ End(p)
    /\ UNCHANGED <<conf, left, last, added>>

-----------------------------------------------------------------------------
\* The configurations a user may have written, one group of options at a time.

Entry(k, v) == [key |-> k, val |-> v]
Mount(h, g, clean) == [host |-> h, guest |-> g, clean |-> clean]

PathSettings ==
    {[defaults |-> Blank,
      ws |-> [w \in {"default"} |-> [Blank EXCEPT !.paths = p]] @@ o] :
        p \in {<<>>, << <<"a">> >>},
        o \in {[w \in {} |-> Blank]} \cup
              {[w \in {"other"} |-> [Blank EXCEPT !.paths = q]] : q \in {<< <<"a">> >>, << <<"a", "b">> >>}}}

DNSSettings ==
    {Config([Blank EXCEPT !.filtered = f, !.upstream = u, !.zones = z, !.hosts = h],
            [Blank EXCEPT !.filtered = g, !.zones = y]) :
        f \in {None, TRUE}, u \in {"", "up"}, z \in {None, << <<"z">> >>}, h \in {<<>>, << <<"in", "z">> >>},
        g \in {None, TRUE, FALSE}, y \in {None, <<>>, << <<"z">> >>, << <<"y">> >>}}

DockerSettings ==
    {Config([Blank EXCEPT !.docker = a, !.protect = b], [Blank EXCEPT !.docker = c, !.protect = d]) :
        a, b, c, d \in {None, TRUE, FALSE}}

AgentTables ==
    {[n \in {} |-> NoSettings]} \cup
    {[n \in {"mine"} |-> [NoSettings EXCEPT !.from = f, !.version = v]] : f \in {"", "claude"}, v \in {"", "1"}} \cup
    {[n \in {"claude"} |-> [NoSettings EXCEPT !.version = "2", !.mounts = m]] :
        m \in {<<>>, <<Mount(None, "g", TRUE)>>}}

AgentSettings ==
    {Config([Blank EXCEPT !.agent = a, !.agents = t], [Blank EXCEPT !.agent = b, !.agents = u]) :
        a, b \in {"", "claude", "mine"}, t, u \in AgentTables}

Lists(x, y, bad) == {<<>>, <<x>>, <<y, x>>, <<bad>>}

MergeSettings ==
    {Config([Blank EXCEPT !.mounts = m, !.snapshots = m], [Blank EXCEPT !.mounts = n, !.snapshots = n]) :
        m, n \in Lists(Mount("h", "g", FALSE), Mount("h", "k", TRUE), Mount("forbidden", "g", TRUE))
                 \cup {<<Mount(None, "g", FALSE)>>}} \cup
    {Config([Blank EXCEPT !.ports = m, !.hostPorts = m], [Blank EXCEPT !.ports = n, !.hostPorts = n]) :
        m, n \in {<<>>, <<[host |-> 1, guest |-> 1]>>, <<[host |-> 1, guest |-> 2], [host |-> 2, guest |-> 1]>>,
                  <<[host |-> 1, guest |-> 1], [host |-> 1, guest |-> 1]>>}} \cup
    {Config([Blank EXCEPT !.env = l[1], !.envFile = l[2]], [Blank EXCEPT !.env = l[3], !.envFile = l[4]]) :
        l \in [1..4 -> {<<>>, <<Entry("K", 1)>>, <<Entry("K", 2), Entry("L", 1)>>, <<Entry("JAILOC", 1)>>}]} \cup
    {Config([Blank EXCEPT !.secretEnv = l[1], !.secretFile = l[2]],
            [Blank EXCEPT !.secretEnv = l[3], !.secretFile = l[4]]) :
        l \in [1..4 -> SUBSET {"s"}]}

Init ==
    /\ \/ conf \in PathSettings \cup {Missing} /\ left = MaxCommands
       \/ conf \in DNSSettings \cup DockerSettings \cup AgentSettings \cup MergeSettings /\ left = 1
    /\ cli = [p \in Proc |-> Idle]
    /\ last = None
    /\ added = {}
    /\ spoiled = FALSE

Next ==
    \E p \in Proc :
        \/ Load(p) \/ CreateDefault(p) \/ WriteDefault(p) \/ Decline(p)
        \/ AddPath(p) \/ Create(p) \/ Encode(p) \/ EncodeFails(p)

Spec == Init /\ [][Next]_vars

-----------------------------------------------------------------------------
\* Properties.

\* Every variable has its type.
TypeOK ==
    /\ left \in 0..MaxCommands
    /\ \A p \in Proc : cli[p].pc \in {"idle", "stat", "created", "prompt", "decoded", "opened"}
    /\ added \subseteq (Names \X Targets)
    /\ spoiled \in BOOLEAN

\* What Validate accepts, Resolve turns into a workspace whose parts agree: an
\* agent is found, Docker is off where git is protected, a DNS filter has an
\* upstream and blocks no allowed host, a reserved variable is not overridden,
\* and of two entries for one port, variable, secret or destination the
\* workspace's one is kept.
ResolvedSound ==
    last # None =>
        LET d == last.cfg.defaults
            s == last.cfg.ws[last.ws]
            r == last.res
            Wins(list, own, key) ==
                /\ DistinctBy(list, key)
                /\ \A e \in ToSet(own) :
                    \E f \in ToSet(list) : f[key] = e[key] /\ \E g \in ToSet(own) : g = f
        IN /\ r # None
           /\ ~(r.docker /\ r.protect)
           /\ r.filtered => r.upstream # "" /\ \A h \in ToSet(r.hosts), z \in r.zones : ~InZone(h, z)
           /\ \A e \in ToSet(r.env) : ~Reserved(e.key)
           /\ Wins(r.env, s.env, "key") /\ Wins(r.ports, s.ports, "host")
           /\ Wins(r.hostPorts, s.hostPorts, "guest")
           /\ \A m \in ToSet(s.mounts) : (m \in ToSet(r.mounts)) <=> (m.host # None)
           /\ \A m \in ToSet(d.mounts) : m.host # None =>
                \E k \in ToSet(r.mounts) \cup ToSet(s.mounts) : k.guest = m.guest
           /\ \A n \in {"s"} : Cardinality({e \in r.secrets : e.name = n}) <= 1
           /\ \A e \in r.secrets : e.from = "defaults" => e.name \notin s.secretEnv \cup s.secretFile

\* A path whose AddPath returned is still in the file, however long other
\* commands waited at their questions meanwhile, unless two commands wrote at
\* once or one failed while it wrote.
NoAddLost ==
    ~spoiled /\ conf \notin {Missing, Torn} =>
        \A a \in added : a[1] \in DOMAIN conf.ws /\ Contains(conf.ws[a[1]].paths, a[2])

\* docs/reference/cli.md:311, of `jailoc add`: "The path must not be under a
\* forbidden system prefix": what an add wrote is a configuration Load accepts.
AddedIsLoadable == added # {} => Validate(Decode(conf))
==============================================================================
