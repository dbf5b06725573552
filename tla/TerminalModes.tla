---------------------------- MODULE TerminalModes ----------------------------
(***************************************************************************)
(* The mode tracker of a session (guest/session/modes.go): it scans the    *)
(* output of the program, and what it replays puts a terminal that         *)
(* attaches later into the modes the program has switched on.              *)
(*                                                                         *)
(* Output comes in units: ESC, a final character, or the parameters of one *)
(* control sequence, which stand for their digits.  `own` is the terminal  *)
(* the program has been writing to from the start, `att` the one that      *)
(* attached.                                                               *)
(***************************************************************************)
EXTENDS Integers, Sequences, FiniteSets, SequencesExt

CONSTANTS
    AltMode,    \* the alternate screen mode the program uses
    Mode,       \* other DEC private modes that are tracked
    Untracked,  \* one that is not
    Cursor,     \* mode 25, set at first
    MaxKitty,   \* bound of the program: pushes of keyboard flags
    None

VARIABLES own, tracker, att

Flags == 0 .. 1
DEC == {{m} : m \in Mode \cup {AltMode, Untracked, Cursor}} \cup {{AltMode, Cursor}}

\* Parameters: DEC modes (CSI ? ... h/l), keyboard flags (CSI > < = ... u) and
\* modifyOtherKeys (CSI > 4 ... m).
Params ==
    [kind : {"dec"}, modes : DEC] \cup [kind : {"push", "set"}, flags : Flags]
    \cup [kind : {"pop"}, n : 1 .. 2] \cup [kind : {"other"}, level : 0 .. 1]

Unit == [kind : {"ESC", "[", "=", ">", "c", "x", "h", "l", "u", "m"}]
IsParams(b) == b.kind \in {"dec", "push", "set", "pop", "other"}

Modes == Mode \cup {AltMode, Cursor}
DefaultModes == {Cursor}

Keep(s, n) == SubSeq(s, 1, IF Len(s) > n THEN Len(s) - n ELSE 0)
SetLast(s, v) == [s EXCEPT ![Len(s)] = v]

------------------------------------------------------------------------------
(* A terminal (external).  Its keyboard flags are a stack that is never      *)
(* empty; popping all of it leaves the flags off.                            *)

Default == [st |-> "ground", seq |-> None, modes |-> DefaultModes, keypad |-> "no", kitty |-> <<0>>, other |-> 0]

TermCSI(t, final) ==
    LET p == t.seq
        ground == [t EXCEPT !.st = "ground", !.seq = None]
    IN  CASE p = None -> ground
          [] p.kind = "dec" /\ final = "h" -> [ground EXCEPT !.modes = @ \cup (p.modes \cap Modes)]
          [] p.kind = "dec" /\ final = "l" -> [ground EXCEPT !.modes = @ \ p.modes]
          [] p.kind = "push" /\ final = "u" -> [ground EXCEPT !.kitty = Append(@, p.flags)]
          [] p.kind = "pop" /\ final = "u" ->
                [ground EXCEPT !.kitty = IF p.n >= Len(@) THEN <<0>> ELSE Keep(@, p.n)]
          [] p.kind = "set" /\ final = "u" -> [ground EXCEPT !.kitty = SetLast(@, p.flags)]
          [] p.kind = "other" /\ final = "m" -> [ground EXCEPT !.other = p.level]
          [] OTHER -> ground

Term(t, b) ==
    CASE t.st = "ground" -> IF b.kind = "ESC" THEN [t EXCEPT !.st = "esc"] ELSE t
      [] t.st = "esc" ->
            CASE b.kind = "[" -> [t EXCEPT !.st = "csi", !.seq = None]
              [] b.kind = "ESC" -> t
              [] b.kind = "=" -> [t EXCEPT !.st = "ground", !.keypad = "yes"]
              [] b.kind = ">" -> [t EXCEPT !.st = "ground", !.keypad = "no"]
              [] b.kind = "c" -> Default
              [] OTHER -> [t EXCEPT !.st = "ground"]
      [] OTHER ->
            CASE IsParams(b) -> [t EXCEPT !.seq = b]
              [] b.kind = "ESC" -> [t EXCEPT !.st = "esc"]
              [] OTHER -> TermCSI(t, b.kind)

\* What the program can tell of a terminal.
Seen(t) == [modes |-> t.modes, keypad |-> t.keypad, flags |-> Last(t.kitty), other |-> t.other]

------------------------------------------------------------------------------
(* ModeTracker. *)

NewTracker == [st |-> 0, seq |-> None, set |-> DefaultModes, keypad |-> "no", kitty |-> <<>>, other |-> 0]

\* Mistaken variant: flags set before any were pushed are taken for a push.
KittyKeysPush(t, p) ==
    CASE p.kind = "pop" -> [t EXCEPT !.kitty = Keep(@, p.n)]
      [] OTHER -> [t EXCEPT !.kitty = Append(@, p.flags)]

\* kittyKeys.
KittyKeys(t, p) ==
    CASE p.kind = "push" -> [t EXCEPT !.kitty = Append(@, p.flags)]
      [] p.kind = "pop" -> [t EXCEPT !.kitty = Keep(@, p.n)]
      [] p.kind = "set" -> [t EXCEPT !.kitty = IF @ = <<>> THEN <<p.flags>> ELSE SetLast(@, p.flags)]

\* csi.
CSI(t, p, final) ==
    CASE p = None -> t
      [] p.kind = "dec" /\ final = "h" -> [t EXCEPT !.set = @ \cup (p.modes \cap Modes)]
      [] p.kind = "dec" /\ final = "l" -> [t EXCEPT !.set = @ \ p.modes]
      [] p.kind \in {"push", "pop", "set"} /\ final = "u" -> KittyKeys(t, p)
      [] p.kind = "other" /\ final = "m" -> [t EXCEPT !.other = p.level]
      [] OTHER -> t

\* Feed, one unit: 0 is ground, 1 after ESC, 2 in a control sequence.
Feed(t, b) ==
    CASE t.st = 0 -> IF b.kind = "ESC" THEN [t EXCEPT !.st = 1] ELSE t
      [] t.st = 1 ->
            CASE b.kind = "[" -> [t EXCEPT !.st = 2, !.seq = None]
              [] b.kind = "=" -> [t EXCEPT !.st = 0, !.keypad = "yes"]
              [] b.kind = ">" -> [t EXCEPT !.st = 0, !.keypad = "no"]
              [] b.kind = "c" -> NewTracker
              [] b.kind = "ESC" -> t
              [] OTHER -> [t EXCEPT !.st = 0]
      [] OTHER ->
            CASE IsParams(b) -> [t EXCEPT !.seq = b]
              [] b.kind = "ESC" -> [t EXCEPT !.st = 1]
              [] OTHER -> [CSI(t, t.seq, b.kind) EXCEPT !.st = 0, !.seq = None]

\* Replay: the units written to a terminal in its default state.
Sequence(p, final) == <<[kind |-> "ESC"], [kind |-> "["], p, [kind |-> final]>>

SetModes(ms) == FlattenSeq(SetToSeq({Sequence([kind |-> "dec", modes |-> {m}], "h") : m \in ms}))

Replay(t) ==
    SetModes(t.set \cap {AltMode}) \o SetModes(t.set \ {AltMode, Cursor})
    \o (IF Cursor \in t.set THEN <<>> ELSE Sequence([kind |-> "dec", modes |-> {Cursor}], "l"))
    \o (IF t.keypad = "yes" THEN <<[kind |-> "ESC"], [kind |-> "="]>> ELSE <<>>)
    \o FlattenSeq([i \in 1 .. Len(t.kitty) |-> Sequence([kind |-> "push", flags |-> t.kitty[i]], "u")])
    \o (IF t.other > 0 THEN Sequence([kind |-> "other", level |-> t.other], "m") ELSE <<>>)

------------------------------------------------------------------------------
Init == own = Default /\ tracker = NewTracker /\ att = None

\* The program writes; the holder feeds the tracker and sends the output on.
Output(b) ==
    /\ own' = Term(own, b) /\ Len(own'.kitty) <= MaxKitty
    /\ tracker' = Feed(tracker, b)
    /\ att' = IF att = None THEN None ELSE Term(att, b)

\* A terminal attaches.  One that does so in the middle of a sequence takes the
\* rest of it for text; it is not followed here.
Attach ==
    /\ att' = IF tracker.st = 0 THEN FoldLeft(Term, Default, Replay(tracker)) ELSE None
    /\ UNCHANGED <<own, tracker>>

Next == Attach \/ \E b \in Unit \cup (IF own.st = "csi" /\ own.seq = None THEN Params ELSE {}) : Output(b)

Spec == Init /\ [][Next]_<<own, tracker, att>>

------------------------------------------------------------------------------
(* Properties. *)

\* Every variable has its type.
TypeOK ==
    /\ own.st \in {"ground", "esc", "csi"} /\ own.modes \subseteq Modes /\ own.kitty \in Seq(Flags)
    /\ tracker.st \in 0 .. 2 /\ tracker.set \subseteq Modes /\ tracker.kitty \in Seq(Flags)

\* A terminal that attached between two control sequences cannot be told from
\* the one the program started on, then and whatever the program writes later:
\* modes, keypad, keyboard flags as they are pushed and popped.
ReplayRestores == att # None => Seen(att) = Seen(own)
==============================================================================
