-------------------------- MODULE MCWorkspaceParts ---------------------------
(* Small instances of the parts of a workspace for TLC: the commands that   *)
(* read the configuration and reload a running VM, in the guest the init,   *)
(* the mounts that cover Git files and the watchers of processes, and what  *)
(* a session shows.  They share no variables: `part` chooses the one that   *)
(* moves, the others rest.                                                  *)
EXTENDS Reload, TLC

CONSTANTS
    v1, v2,
    Proc, MaxCommands, Missing, Torn,
    AgentID, HostID, OtherID,
    MaxTyped, MaxOutput,
    AltMode, Mode, Untracked, Cursor, MaxKitty,
    MaxPid, Cap

VARIABLES
    part,
    conf, left, cli, resolved, added, overlapped,
    boot, at, uid, mapper, shown, pivot, account, passwd, mounted, services, sessions, shutdown, result,
    host, plan, todo, table, gpc,
    typed, idx, heldKeys, sent, detached, pendingDraw, row, alt, escaped,
    screen, cursor, line, middle, agent, harm, started, produced, rpc, outcome,
    own, tracker, att,
    watcher, proc, queue, congested, enobufs, agents, tracked, logged, missed, spoiled

configuration == <<conf, left, cli, resolved, added, overlapped>>
init == <<boot, at, uid, mapper, shown, pivot, account, passwd, mounted, services, sessions, shutdown, result>>
git == <<host, plan, todo, table, gpc>>
terminal == <<typed, idx, heldKeys, sent, detached, pendingDraw, row, alt, escaped,
              screen, cursor, line, middle, agent, harm, started, produced, rpc, outcome>>
modes == <<own, tracker, att>>
processes == <<watcher, proc, queue, congested, enobufs, agents, tracked, logged, missed, spoiled>>

Conf == INSTANCE Configuration WITH last <- resolved, spoiled <- overlapped
Boot == INSTANCE GuestInit WITH guest <- boot, running <- services
Git == INSTANCE GitProtect
Client == INSTANCE SessionClient
Modes == INSTANCE TerminalModes
Watch == INSTANCE ProcWatch

MCVersion == {v1, v2}
MCCount == v1 :> 2 @@ v2 :> 0

\* Reloads one after another with everything that may go wrong; with failures
\* their command sees at once, and one more of them; and two reloads at the same
\* time.
MCSettings ==
    {[faults |-> {"stage", "runtime", "guest", "timeout", "interrupt"}, reloads |-> 2],
     [faults |-> {"stage", "runtime", "guest"}, reloads |-> 3],
     [faults |-> {"stage", "runtime"}, reloads |-> 3],
     [faults |-> {"runtime", "timeout", "overlap"}, reloads |-> 2]}

Symmetry == Permutations(Reloader)

\* A part has no state while another moves, except for what its properties read
\* of the initial state.
NoReload ==
    /\ setting = [faults |-> {"runtime", "timeout", "overlap"}, reloads |-> 2]
    /\ config = None /\ made = None /\ spec = None /\ staged = None /\ polFile = None /\ rtFile = None
    /\ owed = None /\ hup = None /\ log = None /\ brPc = None /\ brPol = None /\ brRt = None /\ brErr = None
    /\ request = None /\ answer = None /\ gPc = None /\ gReq = None /\ ca = None /\ bound = None /\ relays = None
    /\ pc = None /\ id = None /\ want = None /\ running = None /\ binds = None /\ offset = None /\ last = None
NoConfiguration ==
    /\ conf = None /\ left = None /\ cli = None /\ resolved = None /\ added = None /\ overlapped = None
NoInit ==
    /\ boot = None /\ at = None /\ uid = None /\ mapper = None /\ shown = None /\ pivot = None /\ account = None
    /\ passwd = None /\ mounted = None /\ services = None /\ sessions = None /\ shutdown = None /\ result = None
NoGit ==
    /\ host = None /\ plan = None /\ todo = None /\ table = None /\ gpc = None
NoTerminal ==
    /\ typed = None /\ idx = None /\ heldKeys = None /\ sent = None /\ detached = None /\ pendingDraw = None
    /\ row = None /\ alt = None /\ escaped = None /\ screen = None /\ cursor = None /\ line = None
    /\ middle = None /\ agent = None /\ harm = None /\ started = None /\ produced = None /\ rpc = None
    /\ outcome = None
NoModes ==
    /\ own = None /\ tracker = None /\ att = None
NoProcesses ==
    /\ watcher = None /\ proc = None /\ queue = None /\ congested = None /\ enobufs = None /\ agents = None
    /\ tracked = None /\ logged = None /\ missed = None /\ spoiled = None

MCInit ==
    /\ part \in {"reload", "configuration", "init", "git", "terminal", "modes", "processes"}
    /\ IF part = "reload" THEN Init ELSE NoReload
    /\ IF part = "configuration" THEN Conf!Init ELSE NoConfiguration
    /\ IF part = "init" THEN Boot!Init ELSE NoInit
    /\ IF part = "git" THEN Git!Init ELSE NoGit
    /\ IF part = "terminal" THEN Client!Init ELSE NoTerminal
    /\ IF part = "modes" THEN Modes!Init ELSE NoModes
    /\ IF part = "processes" THEN Watch!Init ELSE NoProcesses

MCNext ==
    \/ /\ part = "reload" /\ Next
       /\ UNCHANGED <<part, configuration, init, git, terminal, modes, processes>>
    \/ /\ part = "configuration" /\ Conf!Next
       /\ UNCHANGED <<part, vars, init, git, terminal, modes, processes>>
    \/ /\ part = "init" /\ Boot!Next
       /\ UNCHANGED <<part, vars, configuration, git, terminal, modes, processes>>
    \/ /\ part = "git" /\ Git!Next
       /\ UNCHANGED <<part, vars, configuration, init, terminal, modes, processes>>
    \/ /\ part = "terminal" /\ Client!Next
       /\ UNCHANGED <<part, vars, configuration, init, git, modes, processes>>
    \/ /\ part = "modes" /\ Modes!Next
       /\ UNCHANGED <<part, vars, configuration, init, git, terminal, processes>>
    \/ /\ part = "processes" /\ Watch!Next
       /\ UNCHANGED <<part, vars, configuration, init, git, terminal, modes>>

MCSpec ==
    MCInit /\ [][MCNext]_<<part, vars, configuration, init, git, terminal, modes, processes>>

\* The types of all parts.
MCTypeOK ==
    /\ part = "reload" => TypeOK
    /\ part = "configuration" => Conf!TypeOK
    /\ part = "init" => Boot!TypeOK
    /\ part = "git" => Git!TypeOK
    /\ part = "terminal" => Client!TypeOK
    /\ part = "modes" => Modes!TypeOK
    /\ part = "processes" => Watch!TypeOK

\* Resolve: what Load accepted resolves to a workspace that can start.
ResolvedSound == part = "configuration" => Conf!ResolvedSound

\* AddPath: a path that was added stays in the configuration.
NoAddLost == part = "configuration" => Conf!NoAddLost

\* Init: the account sessions run as owns the files of the workspace.
SessionsOwnTheirFiles == part = "init" => Boot!SessionsOwnTheirFiles

\* gitProtection: what Git executes is read-only in a guest that runs.
GitCovered == part = "git" => Git!GitCovered

\* startupStatus: the status line never touches the agent's screen.
ScreenIsAgents == part = "terminal" => Client!ScreenIsAgents

\* detachMatcher: the session is left on the detach keys and on nothing else.
DetachExact == part = "terminal" => Client!DetachExact

\* Replay: a terminal that attaches ends in the modes of the program.
ReplayRestores == part = "modes" => Modes!ReplayRestores

\* oomGuard: every process ends with the score of its kind.
ScoresSettle == part = "processes" => Watch!ScoresSettle

\* execTracker: an exit is logged once and with the status of its process.
ExitsLoggedRight == part = "processes" => Watch!ExitsLoggedRight
==============================================================================
