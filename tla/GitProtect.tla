----------------------------- MODULE GitProtect ------------------------------
(***************************************************************************)
(* protect_git: which paths gitProtection (cmd/vmgit_unix.go) finds for a  *)
(* set of shares, and what the guest's mounts (guest/mounts.go, mountShare,*)
(* protectPaths) make of them.                                             *)
(*                                                                         *)
(* One worktree /w/p; its .git is a directory or a file that points at a   *)
(* separate git directory, which may name a common directory.  A git       *)
(* configuration may include a file, which includes it back, and may set   *)
(* core.hooksPath.  /w is always shared; a second share shows the worktree *)
(* again, or covers a directory of the first.  Paths are sequences of      *)
(* names; a mount table is the sequence of mounts made, and a path shows   *)
(* what the latest mount above it does.                                    *)
(***************************************************************************)
EXTENDS Integers, Sequences, SequencesExt, FiniteSets, FiniteSetsExt

CONSTANT None

Worktree == <<"w", "p">>
DotGit == <<"w", "p", ".git">>
Share(h, g, m) == [host |-> h, guest |-> g, mode |-> m]
First == Share(<<"w">>, <<"w">>, "rw")
Second == {
    First,
    Share(<<"x">>, <<"x">>, "rw"),
    Share(<<"w", "p">>, <<"y">>, "rw"),
    Share(<<"w", "p">>, <<"w", "p">>, "ro"),
    Share(<<"x">>, <<"w", "d">>, "rw"),
    Share(<<"x">>, <<"w", "p", "d">>, "rw"),
    Share(<<"x">>, <<"w", "p", "d">>, "ro")}

VARIABLES
    host,    \* the shares and the repository, as they are when the workspace starts
    plan,    \* what gitProtection returned
    todo,    \* mounts the guest has still to make
    table,   \* the guest's mount table
    gpc

vars == <<host, plan, todo, table, gpc>>

Hosts == [
    second : Second,
    git : {None, <<"w", "s">>, <<"x", "s">>, <<"y", "s">>},   \* None: .git is a directory
    common : {None, <<"w", "c">>, <<"x", "c">>},
    include : {None, <<"w", "i">>, <<"x", "i">>},
    hooks : {None, <<"x", "h">>, <<"rel">>},                  \* <<"rel">>: a relative path
    link : {None, <<"w", "s">>, <<"w", "i">>}]                \* a symbolic link

Shares(h) == {First, h.second}

Init ==
    /\ host \in Hosts /\ plan = [err |-> "no", pins |-> {}, ro |-> {}]
    /\ todo = <<>> /\ table = <<>> /\ gpc = "scan"

------------------------------------------------------------------------------
(* Paths. *)

Within(p, base) == IsPrefix(base, p)
Rel(p, base) == SubSeq(p, Len(base) + 1, Len(p))
GuestOf(s, p) == s.guest \o Rel(p, s.host)
Above(p) == {SubSeq(p, 1, n) : n \in 1 .. Len(p)}   \* p and the directories above it

\* What exists on the host: all but the contents of the worktree's directory d.
Exists(p) == ~(Within(p, <<"w", "p", "d">>) /\ Len(p) > 3)

Writable(h) == {s \in Shares(h) : s.mode = "rw"}
Mounts(h) == {s.guest : s \in Shares(h)}

\* Mistaken variant: the first share that shows a path is enough.
ViewsOne(h, full) ==
    {[guest |-> GuestOf(s, full), root |-> s.guest] : s \in {r \in {First} : Within(full, r.host)}}

\* views.
Views(h, full) ==
    {[guest |-> GuestOf(s, full), root |-> s.guest] : s \in
        {r \in Writable(h) :
            /\ Within(full, r.host)
            /\ ~\E m \in Mounts(h) : Len(m) > Len(r.guest) /\ Within(GuestOf(r, full), m)}}

\* pinUpTo.
PinUpTo(dir, root) == {d \in Above(dir) : Len(d) > Len(root)}

\* pinHost and readOnlyHost.
PinHost(h, full) == UNION {PinUpTo(v.guest, v.root) : v \in Views(h, full)}
ReadOnlyHost(h, full) == {v.guest : v \in Views(h, full)}

\* locate: the longest share path a path is under, by host path and then by
\* guest path, and noSymlinks on the rest.
Locate(h, path) ==
    LET under(base(_)) == {s \in Writable(h) : Within(path, base(s))}
        byHost == under(LAMBDA s : s.host)
        byGuest == under(LAMBDA s : s.guest)
        deepest(S, len(_)) == CHOOSE s \in S : \A t \in S : len(t) <= len(s)
        found(full, base) == [in |-> "share", full |-> full,
            err |-> IF \E d \in Above(full) : Len(d) > Len(base) /\ d = h.link THEN "yes" ELSE "no"]
    IN  CASE byHost # {} -> found(path, deepest(byHost, LAMBDA s : Len(s.host)).host)
          [] byHost = {} /\ byGuest # {} ->
                LET s == deepest(byGuest, LAMBDA r : Len(r.guest))
                IN  found(s.host \o Rel(path, s.guest), s.host)
          [] OTHER -> [in |-> "none", full |-> path, err |-> "no"]

------------------------------------------------------------------------------
(* gitProtection.  A result is the paths to pin, the paths to make read-only   *)
(* and whether it failed.                                                      *)

Nothing == [err |-> "no", pins |-> {}, ro |-> {}]
Failed == [Nothing EXCEPT !.err = "yes"]
Both(a, b) ==
    [err |-> IF "yes" \in {a.err, b.err} THEN "yes" ELSE "no", pins |-> a.pins \cup b.pins, ro |-> a.ro \cup b.ro]
All(S) == FoldSet(Both, Nothing, S)

Pin(h, full) == [Nothing EXCEPT !.pins = PinHost(h, full)]
ReadOnly(h, full) == [Nothing EXCEPT !.pins = PinHost(h, Front(full)), !.ro = ReadOnlyHost(h, full)]

\* protect, with create.
Protect(h, path) ==
    LET l == Locate(h, path)
    IN  IF l.err = "yes" THEN Failed ELSE IF l.in = "none" THEN Nothing ELSE ReadOnly(h, l.full)

\* configFile: the file and, once each, the files it includes; the included file
\* includes it back.
ConfigFiles(h, path) == {path} \cup (IF h.include = None THEN {} ELSE {h.include})
ConfigFile(h, path) == All({Protect(h, f) : f \in ConfigFiles(h, path)})

\* hooksPath: a relative path is looked for in the git directory and the worktree.
HooksPath(h, worktree, dir) ==
    CASE h.hooks = None -> Nothing
      [] h.hooks = <<"rel">> -> Both(Protect(h, dir \o <<"h">>), Protect(h, worktree \o <<"h">>))
      [] OTHER -> Protect(h, h.hooks)

\* protectCommonDir.
ProtectCommonDir(h, dir) ==
    All({Pin(h, dir), Protect(h, dir \o <<"hooks">>), ConfigFile(h, dir \o <<"config">>)})

\* gitDir with protectGitDir: only a separate git directory has a commondir.
GitDir(h, dir, worktree) ==
    IF h.common = None \/ dir = DotGit
    THEN Both(ProtectCommonDir(h, dir), HooksPath(h, worktree, dir))
    ELSE
    LET c == Locate(h, h.common)
    IN  All({Pin(h, dir), ReadOnly(h, dir \o <<"commondir">>),
             CASE c.err = "yes" -> Failed
               [] c.in = "none" -> Nothing
               [] OTHER -> Both(ProtectCommonDir(h, c.full), HooksPath(h, worktree, dir))})

\* repo and linked.
Repo(h) ==
    LET l == Locate(h, h.git)
    IN  All({Pin(h, Worktree),
             IF h.git = None THEN GitDir(h, DotGit, Worktree)
             ELSE Both(ReadOnly(h, DotGit),
                       CASE l.err = "yes" -> Failed
                         [] l.in = "none" -> Nothing
                         [] OTHER -> GitDir(h, l.full, Worktree))})

\* The walk of a share skips what another share covers.
Found(h, s) ==
    /\ Within(Worktree, s.host)
    /\ \A d \in Above(Worktree) : Len(d) > Len(s.host) => GuestOf(s, d) \notin Mounts(h)

GitProtection(h) == IF \E s \in Writable(h) : Found(h, s) THEN Repo(h) ELSE Nothing

------------------------------------------------------------------------------
(* The guest's mounts. *)

\* What a guest path shows: a host path, and whether it can be written.
Shown(t, p) ==
    LET above == {k \in DOMAIN t : Within(p, t[k].guest)}
    IN  IF above = {} THEN [host |-> None, mode |-> "rw"]
        ELSE LET m == t[Max(above)] IN [host |-> m.host \o Rel(p, m.guest), mode |-> m.mode]

MaxDepth == 6
ByDepth(S) == FlattenSeq([n \in 1 .. MaxDepth |-> SetToSeq({x \in S : Len(x.guest) = n})])

\* mountOrder: parents before children.
MountOrder(h) == ByDepth(Shares(h))

\* protectPaths: the pins, parents first, then the read-only paths.
Bind(p, k) == [guest |-> p, kind |-> k]
ProtectPaths(p) ==
    ByDepth({Bind(g, "pin") : g \in p.pins}) \o ByDepth({Bind(g, "ro") : g \in p.ro})

Scan ==
    /\ gpc = "scan"
    /\ plan' = GitProtection(host)
    /\ gpc' = IF plan'.err = "yes" THEN "refused" ELSE "mount"
    /\ todo' = IF plan'.err = "yes" THEN <<>> ELSE MountOrder(host)
    /\ UNCHANGED <<host, table>>

\* mountShare.
MountShare ==
    /\ gpc = "mount" /\ todo # <<>>
    /\ table' = Append(table, Head(todo)) /\ todo' = Tail(todo)
    /\ UNCHANGED <<host, plan, gpc>>

Mounted ==
    /\ gpc = "mount" /\ todo = <<>>
    /\ gpc' = "protect" /\ todo' = ProtectPaths(plan)
    /\ UNCHANGED <<host, plan, table>>

\* A bind of a path onto itself shows what is there, without the mounts below it,
\* and fails when nothing is there.
BindPath ==
    /\ gpc = "protect" /\ todo # <<>>
    /\ LET b == Head(todo)
           s == Shown(table, b.guest)
       IN  IF Exists(s.host)
           THEN /\ table' = Append(table, Share(s.host, b.guest, IF b.kind = "ro" THEN "ro" ELSE s.mode))
                /\ todo' = Tail(todo) /\ UNCHANGED gpc
           ELSE gpc' = "failed" /\ todo' = <<>> /\ UNCHANGED table
    /\ UNCHANGED <<host, plan>>

Ready ==
    /\ gpc = "protect" /\ todo = <<>> /\ gpc' = "ready"
    /\ UNCHANGED <<host, plan, todo, table>>

Next == Scan \/ MountShare \/ Mounted \/ BindPath \/ Ready

Spec == Init /\ [][Next]_vars

------------------------------------------------------------------------------
(* Properties. *)

\* Every variable has its type.
TypeOK == host \in Hosts /\ gpc \in {"scan", "refused", "mount", "protect", "ready", "failed"}

\* The files and directories Git on the host reads or runs for the worktree.  What
\* the configuration of a git directory outside the writable shares names is not
\* looked at.
GitReads(h) ==
    LET shared(p) == \E s \in Writable(h) : Within(p, s.host)
        dir == IF h.git = None THEN DotGit ELSE h.git
        separate == h.git # None /\ h.common # None
        top == IF separate THEN h.common ELSE dir
    IN  (IF h.git = None THEN {} ELSE {DotGit})
        \cup (IF separate THEN {dir \o <<"commondir">>} ELSE {})
        \cup (IF ~(shared(dir) /\ shared(top)) THEN {} ELSE
                {top \o <<"hooks">>, top \o <<"config">>}
                \cup (IF h.include = None THEN {} ELSE {h.include})
                \cup (CASE h.hooks = None -> {}
                        [] h.hooks = <<"rel">> -> {dir \o <<"h">>, Worktree \o <<"h">>}
                        [] OTHER -> {h.hooks}))

Places(h, full) == {GuestOf(s, full) : s \in {r \in Shares(h) : Within(full, r.host)}}

\* A share is at its guest path.
Visible(s) == Shown(table, s.guest).host = s.host

\* In a VM that is up, every place that shows a file Git on the host reads or runs
\* for a repository under a writable share shows it read-only, and no directory between its share and it can be renamed:
\* each is a mount point.  Shares hidden by a pin are left to MountsVisible.
GitCovered ==
    /\ gpc = "ready" /\ (\A s \in Shares(host) : Visible(s))
    /\ \E g \in Places(host, Worktree) : Shown(table, g) = [host |-> Worktree, mode |-> "rw"]
    =>
        \A full \in GitReads(host) : \A g \in Places(host, full) :
            Shown(table, g).host = full =>
                /\ Shown(table, g).mode = "ro"
                /\ \E s \in Shares(host) :
                    /\ Within(g, s.guest) /\ Within(full, s.host)
                    /\ s.mode = "ro" \/ \A d \in PinUpTo(Front(g), s.guest) : \E k \in DOMAIN table : table[k].guest = d

\* In a VM that is up every share is seen at its guest path: guest/init_linux.go:121
\* says that shares "nest in both directions" and "are mounted in one order,
\* parents before children", so that none hides another.
MountsVisible == gpc = "ready" => \A s \in Shares(host) : Visible(s)
==============================================================================
