---------------------------- MODULE SessionHolder ----------------------------
(***************************************************************************)
(* The holder process of one detachable session                            *)
(* (internal/guest/session/holder.go): it owns the agent's pseudo-terminal *)
(* and serves clients on a Unix socket, one of them controlling at a time. *)
(*                                                                         *)
(* Goroutines: Serve (waits for the program, then ends the session), pump  *)
(* (terminal output to the controlling client), and for every connection   *)
(* an attach goroutine (takes the session over, redraws, then reads        *)
(* frames) and a writeLoop (queue to socket). A critical section of h.mu   *)
(* never blocks, so each is one step; what happens after the unlock is a   *)
(* step of its own. Output is abstracted to numbered chunks, a window size *)
(* to its rows.                                                            *)
(***************************************************************************)
EXTENDS Naturals, Sequences

CONSTANTS
    Client,      \* connections to the session socket
    None,        \* no client
    Sizes,       \* window sizes clients ask for; 0 is no size
    StartSize,   \* window size the program starts with
    Queue,       \* clientQueue: frames a client may be behind
    MaxTraffic   \* bound: chunks the program writes and frames clients send

ASSUME SessionAssumption ==
    /\ None \notin Client
    /\ Sizes \subseteq Nat /\ StartSize \in Nat \ {0}
    /\ Queue \in Nat \ {0}
    /\ MaxTraffic \in Nat

VARIABLES
    program,   \* "running" or "exited"
    pump,      \* the pump: "read", "send" or "done"
    pumpTo,    \* the client pump saw as current when it read the last chunk
    produced,  \* chunks read from the terminal, all fed to the ModeTracker
    serve,     \* Serve: "wait", "exit", "drain", "cleanup", "removed", "gone"
    serveTo,   \* the client current when the program ended
    ended,     \* h.ended, "yes" or "no"
    current,   \* h.current
    entry,     \* <id>.json: "detached", "attached" (its Attached field), "removed"
    phase,     \* where the attach goroutine of each connection is
    out,       \* client.out
    done,      \* client.done is closed
    writer,    \* writeLoop: "off", "on", "stopped"
    shown,     \* history: last chunk the peer has been shown, until its writeLoop stops
    told,      \* history: last word to the peer: "nothing" or "exit"
    inputs,    \* frames the peers have sent
    late,      \* history: frames of the client applied after it lost control
    want,      \* window size the client asks for
    rows,      \* h.rows
    term       \* window size of the terminal

clientVars == <<phase, out, done, writer, shown, told, inputs, late, want>>
vars == <<program, pump, pumpTo, produced, serve, serveTo, ended, current, entry,
          clientVars, rows, term>>

Phases == {"none", "hello", "redraw", "nudge", "nudgeTerm", "size", "sizeTerm",
           "read", "data", "resize", "resizeTerm", "detach", "closed"}
Attached == Phases \ {"none", "hello", "closed"}

Data(n) == [type |-> "data", chunk |-> n]
Replay(n) == [type |-> "replay", chunk |-> n]
Kicked == [type |-> "kicked", chunk |-> 0]
Exit == [type |-> "exit", chunk |-> 0]
Frame == [type: {"data", "replay", "kicked", "exit"}, chunk: Nat]

\* Serve has recorded itself, listens and has started the program.
Init ==
    /\ program = "running" /\ pump = "read" /\ pumpTo = None /\ produced = 0
    /\ serve = "wait" /\ serveTo = None /\ ended = "no" /\ current = None
    /\ entry = "detached"
    /\ phase = [c \in Client |-> "none"]
    /\ out = [c \in Client |-> <<>>]
    /\ done = [c \in Client |-> "no"]
    /\ writer = [c \in Client |-> "off"]
    /\ shown = [c \in Client |-> 0]
    /\ told = [c \in Client |-> "nothing"]
    /\ inputs = 0
    /\ late = [c \in Client |-> 0]
    /\ want = [c \in Client |-> 0]
    /\ rows = StartSize /\ term = StartSize

Alive == serve # "gone"
Goto(c, p) == phase' = [phase EXCEPT ![c] = p]
-----------------------------------------------------------------------------
\* Mistaken variant: one frame more than the queue holds.
SendOneTooMany(c, f, o) ==
    IF done[c] = "yes" THEN UNCHANGED done /\ out' = o
    ELSE IF Len(o[c]) <= Queue
         THEN UNCHANGED done /\ out' = [o EXCEPT ![c] = Append(@, f)]
         ELSE done' = [done EXCEPT ![c] = "yes"] /\ out' = o

\* client.send into the queues o: never blocks, a client that does not keep up
\* is disconnected.
Send(c, f, o) ==
    IF done[c] = "yes" THEN UNCHANGED done /\ out' = o
    ELSE IF Len(o[c]) < Queue
         THEN UNCHANGED done /\ out' = [o EXCEPT ![c] = Append(@, f)]
         ELSE done' = [done EXCEPT ![c] = "yes"] /\ out' = o

\* Mistaken variant: a client that was told it is kicked is not closed.
WriteFrameOpen(c) ==
    /\ Alive /\ writer[c] = "on" /\ done[c] = "no" /\ out[c] # <<>>
    /\ LET f == Head(out[c]) IN
         /\ shown' = IF f.type = "data" THEN [shown EXCEPT ![c] = f.chunk] ELSE shown
         /\ told' = IF f.type = "exit" THEN [told EXCEPT ![c] = "exit"] ELSE told
         /\ done' = IF f.type = "exit" THEN [done EXCEPT ![c] = "yes"] ELSE done
         /\ writer' = IF f.type = "exit" THEN [writer EXCEPT ![c] = "stopped"] ELSE writer
         /\ out' = [out EXCEPT ![c] = Tail(@)]
    /\ UNCHANGED <<program, pump, pumpTo, produced, serve, serveTo, ended, current,
                   entry, phase, inputs, late, want, rows, term>>

\* writeLoop writes the next frame; Exit and Kicked are the last ones.
WriteFrame(c) ==
    /\ Alive /\ writer[c] = "on" /\ done[c] = "no" /\ out[c] # <<>>
    /\ LET f == Head(out[c]) IN
         /\ shown' = [shown EXCEPT ![c] = IF f.type = "data" THEN f.chunk ELSE IF f.type = "kicked" THEN 0 ELSE @]
         /\ IF f.type \in {"exit", "kicked"}
            THEN /\ told' = [told EXCEPT ![c] = IF f.type = "exit" THEN "exit" ELSE @]
                 /\ done' = [done EXCEPT ![c] = "yes"]
                 /\ writer' = [writer EXCEPT ![c] = "stopped"]
                 /\ out' = [out EXCEPT ![c] = <<>>]
            ELSE /\ out' = [out EXCEPT ![c] = Tail(@)]
                 /\ UNCHANGED <<told, done, writer>>
    /\ UNCHANGED <<program, pump, pumpTo, produced, serve, serveTo, ended, current,
                   entry, phase, inputs, late, want, rows, term>>

\* The write fails or runs into its deadline, or the client is closed. Nobody
\* reads the queue any more.
WriteStop(c) ==
    /\ Alive /\ writer[c] = "on" /\ (done[c] = "yes" \/ out[c] # <<>>)
    /\ done' = [done EXCEPT ![c] = "yes"]
    /\ writer' = [writer EXCEPT ![c] = "stopped"]
    /\ out' = [out EXCEPT ![c] = <<>>] /\ shown' = [shown EXCEPT ![c] = 0]
    /\ UNCHANGED <<program, pump, pumpTo, produced, serve, serveTo, ended, current,
                   entry, phase, told, inputs, late, want, rows, term>>
-----------------------------------------------------------------------------
(* The program and the pump.                                               *)

\* The program exits; what it started may still write to the terminal.
ProgramExit ==
    /\ program = "running"
    /\ program' = "exited"
    /\ UNCHANGED <<pump, pumpTo, produced, serve, serveTo, ended, current, entry,
                   clientVars, rows, term>>

\* pump reads a chunk and, in one critical section, feeds the ModeTracker and
\* looks at the controlling client.
PumpRead ==
    /\ pump = "read" /\ produced + inputs < MaxTraffic
    /\ produced' = produced + 1
    /\ pumpTo' = current
    /\ pump' = "send"
    /\ UNCHANGED <<program, serve, serveTo, ended, current, entry, clientVars,
                   rows, term>>

\* Mistaken variant: the chunk goes to whoever controls the session by now.
ForwardToCurrent(recipient) ==
    IF current = None THEN UNCHANGED <<out, done>>
    ELSE Send(current, Data(produced), out)

\* The chunk goes to that client.
Forward(recipient) ==
    IF recipient = None THEN UNCHANGED <<out, done>>
    ELSE Send(recipient, Data(produced), out)

PumpSend ==
    /\ pump = "send"
    /\ Forward(pumpTo)
    /\ pump' = "read" /\ pumpTo' = None
    /\ UNCHANGED <<program, produced, serve, serveTo, ended, current, entry, phase,
                   writer, shown, told, inputs, late, want, rows, term>>

\* Nothing has the terminal open any more.
PumpEOF ==
    /\ pump = "read" /\ program = "exited"
    /\ pump' = "done"
    /\ UNCHANGED <<program, pumpTo, produced, serve, serveTo, ended, current, entry,
                   clientVars, rows, term>>
-----------------------------------------------------------------------------
(* The end of Serve.                                                       *)

\* Mistaken variant: Serve does not wait for the pump.
ServeEndEarly ==
    /\ serve = "wait" /\ program = "exited"
    /\ ended' = "yes" /\ serveTo' = current
    /\ serve' = IF current = None THEN "cleanup" ELSE "exit"
    /\ UNCHANGED <<program, pump, pumpTo, produced, current, entry, clientVars,
                   rows, term>>

\* The program was waited for and its output is drained.
ServeEnd ==
    /\ serve = "wait" /\ pump = "done"
    /\ ended' = "yes" /\ serveTo' = current
    /\ serve' = IF current = None THEN "cleanup" ELSE "exit"
    /\ UNCHANGED <<program, pump, pumpTo, produced, current, entry, clientVars,
                   rows, term>>

ServeExit ==
    /\ serve = "exit"
    /\ Send(serveTo, Exit, out)
    /\ serve' = "drain"
    /\ UNCHANGED <<program, pump, pumpTo, produced, serveTo, ended, current, entry,
                   phase, writer, shown, told, inputs, late, want, rows,
                   term>>

\* The client is closed, or writeTimeout passed.
ServeDrained ==
    /\ serve = "drain"
    /\ serve' = "cleanup"
    /\ UNCHANGED <<program, pump, pumpTo, produced, serveTo, ended, current, entry,
                   clientVars, rows, term>>

\* The deferred cleanup closes the listener, then removes socket and entry.
ServeCleanup ==
    /\ serve = "cleanup"
    /\ serve' = "removed" /\ entry' = "removed"
    /\ UNCHANGED <<program, pump, pumpTo, produced, serveTo, ended, current,
                   clientVars, rows, term>>

\* The process exits and its connections close.
ServeGone ==
    /\ serve = "removed"
    /\ serve' = "gone"
    /\ UNCHANGED <<program, pump, pumpTo, produced, serveTo, ended, current, entry,
                   clientVars, rows, term>>
-----------------------------------------------------------------------------
(* A connection's attach goroutine.                                        *)

\* accept takes a connection while the listener is open.
Accept(c) ==
    /\ serve \notin {"removed", "gone"} /\ phase[c] = "none"
    /\ Goto(c, "hello")
    /\ \E s \in Sizes : want' = [want EXCEPT ![c] = s]
    /\ UNCHANGED <<program, pump, pumpTo, produced, serve, serveTo, ended, current,
                   entry, out, done, writer, shown, told, inputs, late,
                   rows, term>>

\* No valid Hello in time, or the program has ended.
Refuse(c) ==
    /\ Alive /\ phase[c] = "hello"
    /\ Goto(c, "closed")
    /\ UNCHANGED <<program, pump, pumpTo, produced, serve, serveTo, ended, current,
                   entry, out, done, writer, shown, told, inputs, late,
                   want, rows, term>>

\* One critical section: the old client is kicked, c controls the session and is
\* sent the terminal modes of the output so far, if any are set.
TakeOver(c) ==
    /\ Alive /\ phase[c] = "hello" /\ ended = "no"
    /\ \E modes \in {<<>>, <<Replay(produced)>>} :
         LET o == [out EXCEPT ![c] = modes] IN
         IF current = None THEN out' = o /\ UNCHANGED done
         ELSE Send(current, Kicked, o)
    /\ current' = c
    /\ entry' = "attached"
    /\ shown' = [shown EXCEPT ![c] = produced]
    /\ writer' = [writer EXCEPT ![c] = "on"]
    /\ Goto(c, "redraw")
    /\ UNCHANGED <<program, pump, pumpTo, produced, serve, serveTo, ended,
                   told, inputs, late, want, rows, term>>

\* redraw compares the sizes; an unchanged one is changed by a row first.
Redraw(c) ==
    /\ Alive /\ phase[c] = "redraw"
    /\ Goto(c, IF want[c] = rows /\ want[c] > 1 THEN "nudge" ELSE "size")
    /\ UNCHANGED <<program, pump, pumpTo, produced, serve, serveTo, ended, current,
                   entry, out, done, writer, shown, told, inputs, late,
                   want, rows, term>>

\* resize: h.rows under the lock, then the terminal without it.
SetRows(c, from, to, next, size) ==
    /\ Alive /\ phase[c] = from
    /\ IF size = 0 THEN Goto(c, next) /\ UNCHANGED rows
       ELSE Goto(c, to) /\ rows' = size
    /\ UNCHANGED <<program, pump, pumpTo, produced, serve, serveTo, ended, current,
                   entry, out, done, writer, shown, told, inputs, late,
                   want, term>>

SetTerm(c, from, next, size) ==
    /\ Alive /\ phase[c] = from
    /\ Goto(c, next)
    /\ term' = size
    /\ UNCHANGED <<program, pump, pumpTo, produced, serve, serveTo, ended, current,
                   entry, out, done, writer, shown, told, inputs, late,
                   want, rows>>

\* The nudge of redraw: wait for a repaint, or for nudgeWait, before the size.
Nudge(c) ==
    \/ SetRows(c, "nudge", "nudgeTerm", "size", want[c] - 1)
    \/ SetTerm(c, "nudgeTerm", "size", want[c] - 1)

Resize(c) ==
    \/ SetRows(c, "size", "sizeTerm", "read", want[c])
    \/ SetTerm(c, "sizeTerm", "read", want[c])

\* Mistaken variant: a frame is applied whoever controls the session.
ReadAny(c) ==
    /\ Alive /\ phase[c] = "read" /\ done[c] = "no"
    /\ produced + inputs < MaxTraffic
    /\ inputs' = inputs + 1
    /\ Goto(c, "data")
    /\ UNCHANGED <<program, pump, pumpTo, produced, serve, serveTo, ended, current,
                   entry, out, done, writer, shown, told, late, want, rows,
                   term>>

\* readLoop gets a frame and checks, under the lock, that c controls the session.
ReadFrame(c) ==
    /\ Alive /\ phase[c] = "read" /\ done[c] = "no"
    /\ produced + inputs < MaxTraffic
    /\ inputs' = inputs + 1
    /\ \/ current = c /\ Goto(c, "data") /\ UNCHANGED <<want, done>>
       \/ /\ current = c /\ Goto(c, "resize") /\ UNCHANGED done
          /\ \E s \in Sizes : want' = [want EXCEPT ![c] = s]
       \/ /\ current # c /\ Goto(c, "detach") /\ UNCHANGED want
          /\ done' = [done EXCEPT ![c] = "yes"]
    /\ UNCHANGED <<program, pump, pumpTo, produced, serve, serveTo, ended, current,
                   entry, out, writer, shown, told, late, rows, term>>

\* The frame is input and is written to the terminal, which fails once nothing
\* has it open.
WriteInput(c) ==
    /\ Alive /\ phase[c] = "data"
    /\ \/ Goto(c, "read") /\ UNCHANGED done
       \/ /\ pump = "done" /\ Goto(c, "detach")
          /\ done' = [done EXCEPT ![c] = "yes"]
    /\ late' = IF current # c THEN [late EXCEPT ![c] = @ + 1] ELSE late
    /\ UNCHANGED <<program, pump, pumpTo, produced, serve, serveTo, ended, current,
                   entry, out, writer, shown, told, inputs, want, rows,
                   term>>

\* The frame is a window size.
ApplyResize(c) ==
    \/ SetRows(c, "resize", "resizeTerm", "read", want[c])
    \/ SetTerm(c, "resizeTerm", "read", want[c])

\* The read ends: the connection was closed here (who = "holder") or by the peer.
ReadError(c, who) ==
    /\ Alive /\ phase[c] = "read" /\ (who = "holder" => done[c] = "yes")
    /\ done' = [done EXCEPT ![c] = "yes"]
    /\ Goto(c, "detach")
    /\ UNCHANGED <<program, pump, pumpTo, produced, serve, serveTo, ended, current,
                   entry, out, writer, shown, told, inputs, late, want, rows, term>>

\* Mistaken variant: the entry is written back after the program ended.
DetachAlways(c) ==
    /\ Alive /\ phase[c] = "detach"
    /\ Goto(c, "closed")
    /\ want' = [want EXCEPT ![c] = 0] /\ late' = [late EXCEPT ![c] = 0]
    /\ IF current = c THEN current' = None /\ entry' = "detached"
       ELSE UNCHANGED <<current, entry>>
    /\ UNCHANGED <<program, pump, pumpTo, produced, serve, serveTo, ended,
                   out, done, writer, shown, told, inputs, rows, term>>

Detach(c) ==
    /\ Alive /\ phase[c] = "detach"
    /\ Goto(c, "closed")
    /\ want' = [want EXCEPT ![c] = 0] /\ late' = [late EXCEPT ![c] = 0]
    /\ IF current = c /\ ended = "no" THEN current' = None /\ entry' = "detached"
       ELSE UNCHANGED <<current, entry>>
    /\ UNCHANGED <<program, pump, pumpTo, produced, serve, serveTo, ended,
                   out, done, writer, shown, told, inputs, rows, term>>

-----------------------------------------------------------------------------
ServeStep == ServeEnd \/ ServeExit \/ ServeDrained \/ ServeCleanup \/ ServeGone
Writer(c) == WriteFrame(c) \/ WriteStop(c)
Reader(c) == Redraw(c) \/ Nudge(c) \/ Resize(c) \/ WriteInput(c) \/ ApplyResize(c)
             \/ ReadError(c, "holder") \/ Detach(c)
ClientStep(c) == Accept(c) \/ Refuse(c) \/ TakeOver(c) \/ ReadFrame(c)
                 \/ ReadError(c, "peer") \/ Writer(c) \/ Reader(c)

Next == \/ ProgramExit \/ PumpRead \/ PumpSend \/ PumpEOF \/ ServeStep
        \/ \E c \in Client : ClientStep(c)

Spec == Init /\ [][Next]_vars

\* Go runs every goroutine that can run: a write ends by its deadline at the
\* latest and a closed connection ends the read.
FairSpec == Spec /\ \A c \in Client : WF_vars(Writer(c)) /\ WF_vars(Reader(c))
-----------------------------------------------------------------------------
\* The type invariant.
TypeOK ==
    /\ program \in {"running", "exited"}
    /\ pump \in {"read", "send", "done"}
    /\ pumpTo \in Client \cup {None} /\ serveTo \in Client \cup {None}
    /\ produced \in Nat
    /\ serve \in {"wait", "exit", "drain", "cleanup", "removed", "gone"}
    /\ ended \in {"yes", "no"}
    /\ current \in Client \cup {None}
    /\ entry \in {"detached", "attached", "removed"}
    /\ phase \in [Client -> Phases]
    /\ out \in [Client -> Seq(Frame)]
    /\ \A c \in Client : Len(out[c]) <= Queue
    /\ done \in [Client -> {"yes", "no"}]
    /\ writer \in [Client -> {"off", "on", "stopped"}]
    /\ shown \in [Client -> Nat]
    /\ told \in [Client -> {"nothing", "exit"}]
    /\ inputs \in Nat
    /\ late \in [Client -> Nat]
    /\ want \in [Client -> Nat]
    /\ rows \in Nat /\ term \in Nat

\* The output a client is shown continues the replayed modes without a gap and
\* without repetition: the next chunk in its queue follows the last one it saw
\* (attach takes the replay and becomes current in one critical section, pump
\* feeds the modes and picks the receiver in another, and a client that falls
\* behind is closed rather than skipped).
OutputInOrder ==
    \A c \in Client :
        done[c] = "no" /\ out[c] # <<>> /\ Head(out[c]).type = "data"
        => Head(out[c]).chunk = shown[c] + 1

\* A client that is told that the program exited has been shown all of its
\* output (Serve waits for outputDone before it sends Exit).
ExitIsLast == \A c \in Client : told[c] = "exit" => shown[c] = produced

\* The entry says that a client is attached exactly while one is, and once the
\* cleanup of Serve has removed it no detaching client writes it back.
EntryFaithful ==
    /\ ended = "no" => (entry = "attached" <=> current # None)
    /\ serve \in {"removed", "gone"} => entry = "removed"

\* A client sees the program's output whole and in order up to its end, and the
\* entry others see says whether one is attached, however attaching, detaching
\* and the program's exit interleave.
SessionFaithful == OutputInOrder /\ ExitIsLast /\ EntryFaithful

\* A client that was taken over gets at most one more frame through: the one its
\* readLoop had checked before the takeover.
AtMostOneLateFrame == \A c \in Client : late[c] <= 1

\* A client that was taken over is always disconnected, even one that reads
\* nothing: its Kicked frame is written, or its queue is full and it is closed.
SupersededCloses ==
    \A c \in Client :
        (phase[c] \in Attached /\ current # c) ~> (phase[c] = "closed" \/ ~Alive)

\* redraw applies the client's window size: once every attach goroutine has
\* finished its redraw, the terminal has the size the controlling client asked
\* for.
TerminalFitsClient ==
    (/\ current # None
     /\ want[current] > 0
     /\ \A c \in Client : phase[c] \in {"none", "hello", "read", "closed"})
    => term = want[current]
=============================================================================
