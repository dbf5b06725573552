---------------------------- MODULE SessionClient ----------------------------
(***************************************************************************)
(* The host's side of an attached session: relaySession with its three     *)
(* goroutines (frames from the guest, terminal input, the spinner), the    *)
(* detach keys (cmd/vmsession_unix.go) and the status line that is shown   *)
(* until the agent draws (cmd/startupstatus.go).                           *)
(*                                                                         *)
(* Agent output comes in chunks of one item: a switch of the alternate     *)
(* screen, visible text, blanks, a cursor save or restore, or the first    *)
(* and the second part of another escape sequence.  The terminal keeps one *)
(* saved cursor per screen.                                                *)
(***************************************************************************)
EXTENDS Integers, Sequences, SequencesExt

CONSTANTS
    MaxTyped,    \* bound on the keys typed
    MaxOutput    \* bound on the chunks of agent output

\* The detach sequence: two keys.
Keys == <<"a", "b">>
\* Key tokens: those two, another key, a key release (ignored), and a partial
\* escape sequence.
Token == {"a", "b", "x", "i", "part"}
Item == {"altOn", "altOff", "text", "blank", "save", "restore", "part", "rest"}

VARIABLES
    \* detachMatcher
    typed,      \* history: tokens read from the terminal
    idx, heldKeys,
    sent,       \* tokens sent to the agent
    detached,   \* the channel: "open" or "closed"
    \* startupStatus
    pendingDraw, row, alt, escaped,
    \* the terminal
    screen,     \* "main" or "alt"
    cursor,     \* whose save the alternate screen holds: "none", "agent", "status"
    line,       \* whether it shows the status line
    middle,     \* whether it is inside an escape sequence
    agent,      \* what the agent did on this alternate screen: it "saved", it "drew"
    harm,       \* history: what went wrong for the agent
    \* relaySession
    started,    \* FrameStarted was seen and the spinner runs
    produced,   \* chunks received
    rpc, outcome

keyVars == <<typed, idx, heldKeys, sent>>
statusVars == <<pendingDraw, row, alt, escaped>>
termVars == <<screen, cursor, line, middle, agent, harm>>
relayVars == <<started, produced, rpc, outcome>>
vars == <<keyVars, detached, statusVars, termVars, relayVars>>

Init ==
    /\ typed = <<>> /\ idx = 0 /\ heldKeys = <<>> /\ sent = <<>> /\ detached = "open"
    /\ pendingDraw = "no" /\ row = 0 /\ alt = "no" /\ escaped = "no"
    /\ screen = "main" /\ cursor = "none" /\ line = "no" /\ middle = "no" /\ agent = {} /\ harm = {}
    /\ started = "no" /\ produced = 0 /\ rpc = "read" /\ outcome = "none"

------------------------------------------------------------------------------
(* detachMatcher. *)

\* Mistaken variant: the first key again starts the sequence anew.
SettleRestart(m, tok) ==
    CASE tok = "i" /\ m.idx > 0 -> [m EXCEPT !.held = Append(@, tok)]
      [] tok = Keys[m.idx + 1] /\ m.idx + 1 = Len(Keys) -> [m EXCEPT !.idx = 0, !.held = <<>>, !.detach = "yes"]
      [] tok = Keys[m.idx + 1] -> [m EXCEPT !.idx = @ + 1, !.held = Append(@, tok)]
      [] m.idx > 0 /\ tok = Keys[1] -> [m EXCEPT !.out = @ \o m.held, !.idx = 1, !.held = <<tok>>]
      [] OTHER -> [m EXCEPT !.out = @ \o m.held \o <<tok>>, !.idx = 0, !.held = <<>>]

\* settle.  The first key typed again is sent once; another key that breaks the
\* sequence sends what was held and may start the sequence itself.
Settle(m, tok) ==
    CASE tok = "i" /\ m.idx > 0 -> [m EXCEPT !.held = Append(@, tok)]
      [] tok = Keys[m.idx + 1] /\ m.idx + 1 = Len(Keys) -> [m EXCEPT !.idx = 0, !.held = <<>>, !.detach = "yes"]
      [] tok = Keys[m.idx + 1] -> [m EXCEPT !.idx = @ + 1, !.held = Append(@, tok)]
      [] m.idx = 1 /\ tok = Keys[1] -> [m EXCEPT !.out = Append(@, tok), !.idx = 0, !.held = <<>>]
      [] m.idx > 0 /\ tok = Keys[1] -> [m EXCEPT !.out = @ \o m.held, !.idx = 1, !.held = <<tok>>]
      [] OTHER -> [m EXCEPT !.out = @ \o m.held \o <<tok>>, !.idx = 0, !.held = <<>>]

\* feed: a partial escape sequence is passed on with what was held.
Feed(tok) ==
    LET m == [out |-> <<>>, idx |-> idx, held |-> heldKeys, detach |-> "no"]
    IN  IF tok = "part" THEN [m EXCEPT !.out = heldKeys \o <<tok>>, !.idx = 0, !.held = <<>>]
        ELSE Settle(m, tok)

\* The input goroutine: what is forwarded is sent before the session detaches.
Type(tok) ==
    /\ detached = "open" /\ Len(typed) < MaxTyped
    /\ LET m == Feed(tok)
       IN  /\ typed' = Append(typed, tok) /\ idx' = m.idx /\ heldKeys' = m.held
           /\ sent' = sent \o m.out
           /\ detached' = IF m.detach = "yes" THEN "closed" ELSE "open"
    /\ UNCHANGED <<statusVars, termVars, relayVars>>

------------------------------------------------------------------------------
(* startupStatus and the terminal it draws on. *)

\* What the terminal makes of one item of agent output.
Show(item) ==
    /\ screen' = CASE item = "altOn" -> "alt" [] item = "altOff" -> "main" [] OTHER -> screen
    /\ middle' = CASE item = "part" -> "yes" [] item = "rest" -> "no" [] OTHER -> middle
    /\ agent' =
        CASE screen' # screen -> {}
          [] item = "text" -> agent \cup {"drew"}
          [] item = "save" -> agent \cup {"saved"}
          [] OTHER -> agent

\* The agent goes back to the cursor it saved.
Moved(item) == item = "restore" /\ screen = "alt" /\ "saved" \in agent /\ cursor # "agent"

\* The item alone.
Plain(item) ==
    /\ Show(item)
    /\ cursor' = CASE screen' # screen -> "none" [] item = "save" /\ screen = "alt" -> "agent" [] OTHER -> cursor
    /\ line' = IF screen' = screen THEN line ELSE "no"
    /\ harm' = harm \cup (IF Moved(item) THEN {"moved"} ELSE {})

\* The item and then the status line, drawn between a save and a restore of its
\* own.
Drawn(item) ==
    /\ Show(item) /\ cursor' = "status" /\ line' = "yes"
    /\ harm' = harm \cup (IF middle' = "yes" THEN {"cut"} ELSE {}) \cup (IF Moved(item) THEN {"moved"} ELSE {})

\* write.  The cases are those of its loop over scan's events.
Write(item) ==
    LET onAlt == CASE item = "altOn" -> "yes" [] item = "altOff" -> "no" [] OTHER -> alt
        inEsc == CASE item = "part" -> "yes" [] item = "rest" -> "no" [] OTHER -> escaped
    IN  IF pendingDraw = "no"
        THEN Plain(item) /\ UNCHANGED statusVars
        ELSE
        /\ alt' = onAlt /\ escaped' = inEsc
        /\ \/ /\ item = "altOff" /\ alt = "yes"
              /\ pendingDraw' = "no" /\ Plain(item) /\ UNCHANGED row
           \/ /\ item = "text" /\ pendingDraw' = "no" /\ UNCHANGED row
              /\ IF alt = "yes" /\ row > 0
                 THEN Show(item) /\ line' = "no" /\ cursor' = "status" /\ UNCHANGED harm
                 ELSE Plain(item)
           \/ /\ item = "save" /\ alt = "yes" /\ pendingDraw' = "no" /\ UNCHANGED row
              /\ Show(item) /\ cursor' = "agent" /\ UNCHANGED harm
              /\ line' = IF row > 0 THEN "no" ELSE line
           \/ /\ item \notin {"text"} /\ ~(item = "altOff" /\ alt = "yes") /\ ~(item = "save" /\ alt = "yes")
              /\ UNCHANGED pendingDraw
              /\ IF onAlt = "yes" /\ inEsc = "no"
                 THEN row' = 1 /\ Drawn(item)
                 ELSE UNCHANGED row /\ Plain(item)

\* Mistaken variant: the spinner draws wherever the agent's output stopped.
TickAnywhere ==
    /\ started = "yes" /\ pendingDraw = "yes" /\ alt = "yes"
    /\ row' = 1 /\ cursor' = "status" /\ line' = "yes"
    /\ harm' = harm \cup (IF middle = "yes" THEN {"cut"} ELSE {})
    /\ UNCHANGED <<keyVars, detached, pendingDraw, alt, escaped, screen, middle, agent, relayVars>>

\* tick, from animate.
Tick ==
    /\ started = "yes" /\ pendingDraw = "yes" /\ alt = "yes" /\ escaped = "no"
    /\ row' = 1 /\ cursor' = "status" /\ line' = "yes"
    /\ harm' = harm \cup (IF middle = "yes" THEN {"cut"} ELSE {})
                    \cup (IF rpc = "returned" THEN {"late"} ELSE {})
    /\ UNCHANGED <<keyVars, detached, pendingDraw, alt, escaped, screen, middle, agent, relayVars>>

------------------------------------------------------------------------------
(* relaySession. *)

FrameStarted ==
    /\ rpc = "read" /\ started = "no" /\ produced = 0
    /\ started' = "yes" /\ pendingDraw' = "yes"
    /\ UNCHANGED <<keyVars, detached, row, alt, escaped, termVars, produced, rpc, outcome>>

\* The agent does not begin a sequence inside another.
FrameData(item) ==
    /\ rpc = "read" /\ produced < MaxOutput /\ produced' = produced + 1
    /\ (item = "rest") = (middle = "yes")
    /\ Write(item)
    /\ UNCHANGED <<keyVars, detached, started, rpc, outcome>>

\* FrameExit, FrameKicked, or the end of the connection.
Return ==
    /\ rpc = "read" /\ rpc' = "stop"
    /\ outcome' \in {"exited", "kicked", IF detached = "closed" THEN "detached" ELSE "lost"}
    /\ UNCHANGED <<keyVars, detached, statusVars, termVars, started, produced>>

\* The deferred calls: stop, then the terminal's modes are reset and restored.
Stop ==
    /\ rpc = "stop" /\ rpc' = "reset" /\ pendingDraw' = "no"
    /\ UNCHANGED <<keyVars, detached, row, alt, escaped, termVars, started, produced, outcome>>

Reset ==
    /\ rpc = "reset" /\ rpc' = "returned"
    /\ screen' = "main" /\ line' = "no" /\ cursor' = "none" /\ middle' = "no" /\ agent' = {}
    /\ UNCHANGED <<keyVars, detached, statusVars, harm, started, produced, outcome>>

Next ==
    \/ FrameStarted \/ Tick \/ Return \/ Stop \/ Reset
    \/ \E tok \in Token : Type(tok)
    \/ \E item \in Item : FrameData(item)

Spec == Init /\ [][Next]_vars

------------------------------------------------------------------------------
(* Properties. *)

\* Every variable has its type.
TypeOK ==
    /\ idx \in 0 .. Len(Keys) - 1 /\ detached \in {"open", "closed"} /\ row \in 0 .. 1
    /\ screen \in {"main", "alt"} /\ cursor \in {"none", "agent", "status"} /\ agent \subseteq {"saved", "drew"}
    /\ rpc \in {"read", "stop", "reset", "returned"}

\* The status line never gets in the agent's way: it is not drawn into one of its
\* escape sequences, nor onto a terminal that was given back; it is gone once the
\* agent has drawn; and the cursor the agent saved is the one it gets back.
ScreenIsAgents ==
    /\ harm = {}
    /\ "drew" \in agent /\ screen = "alt" => line = "no"
    /\ "saved" \in agent /\ screen = "alt" => cursor = "agent"

\* The tokens that are keys.
KeysTyped == SelectSeq(typed, LAMBDA t : t # "i")

\* The first key was typed an odd number of times in a row before position n.
OddRun(s, n) ==
    \E r \in 1 .. n - 1 :
        /\ r % 2 = 1 /\ \A k \in n - r .. n - 1 : s[k] = "a"
        /\ n - r = 1 \/ s[n - r - 1] # "a"

\* The session detaches exactly when the sequence is complete, the first key
\* typed twice being that key once; until then every other key reaches the agent,
\* in the order it was typed, whatever was held back for a while.
DetachExact ==
    /\ detached = "closed" <=> \E n \in 1 .. Len(KeysTyped) : KeysTyped[n] = "b" /\ OddRun(KeysTyped, n)
    /\ detached = "open" =>
          LET others(s) == SelectSeq(s, LAMBDA t : t \in {"b", "x", "part"}) IN others(sent) = others(typed)
==============================================================================
