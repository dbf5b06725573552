------------------------- MODULE SessionHolderProofs -------------------------
(***************************************************************************)
(* The holder of a session is faithful to every client, for any number of  *)
(* clients, any queue length and any amount of output.                     *)
(*                                                                         *)
(* The queue of a client that controls the session holds exactly the       *)
(* chunks between the last one it was shown and the last one read from the *)
(* terminal, but for one that pump is about to send; that of a client that *)
(* lost control holds a Kicked frame, behind which order no longer matters.*)
(***************************************************************************)
EXTENDS SessionHolder, TLAPS

------------------------------------------------------------------------------
(* The invariant. *)

\* The queue q begins with the replayed modes; it ends with an Exit.
Skip(q) == IF q # <<>> /\ q[1].type = "replay" THEN 1 ELSE 0
Exiting(q) == IF q # <<>> /\ q[Len(q)].type = "exit" THEN 1 ELSE 0

\* Up to a Kicked its chunks are numbered from the one after s.
Ordered(q, s) ==
    \A i \in 1 .. Len(q) :
        /\ q[i].type = "replay" => i = 1
        /\ q[i].type = "data" => q[i].chunk + Skip(q) = s + i \/ \E j \in 1 .. i : q[j].type = "kicked"

\* With the modes replayed for the chunks up to s it holds everything up to n,
\* but for p chunks, and says nothing else but that the program ended.
Whole(q, s, p, n) ==
    /\ \A i \in 1 .. Len(q) : q[i].type # "kicked" /\ (q[i].type = "exit" => i = Len(q))
    /\ s + Len(q) + p = n + Skip(q) + Exiting(q)

NoExit(q) == \A i \in 1 .. Len(q) : q[i].type # "exit"
Lost(q) == NoExit(q) /\ \E i \in 1 .. Len(q) : q[i].type = "kicked"

\* A chunk pump has read and not sent yet.
Pending(c) == IF pumpTo = c THEN 1 ELSE 0

\* The queue of a client that controls the session, and of one that lost it.
Stream(c) ==
    done[c] = "no" /\ writer[c] = "on" =>
        /\ Ordered(out[c], shown[c])
        /\ c = current => Whole(out[c], shown[c], Pending(c), produced)
        /\ c = current /\ serve \in {"wait", "exit"} => NoExit(out[c])
        /\ c # current => Lost(out[c])

\* A connection that is not attached yet, one that writes and one that stopped.
Connected(c) ==
    /\ phase[c] \in {"none", "hello"} => writer[c] = "off"
    /\ writer[c] = "off" => out[c] = <<>> /\ c # current /\ c # pumpTo /\ told[c] = "nothing"
    /\ writer[c] = "stopped" => done[c] = "yes"
    /\ phase[c] \in {"nudge", "nudgeTerm"} => want[c] > 0
    /\ phase[c] = "detach" => done[c] = "yes"
    /\ told[c] = "exit" => writer[c] = "stopped" /\ pump = "done" /\ shown[c] = produced

\* Only a frame that was checked before the takeover is late.
Late(c) == late[c] <= 1 /\ (late[c] = 1 => current # c /\ phase[c] \notin {"none", "hello", "data"})

\* Serve, and the entry it removes.
Serving ==
    /\ ended = "no" <=> serve = "wait"
    /\ ended = "yes" => pump = "done"
    /\ serve = "exit" => serveTo = current /\ current # None
    /\ pumpTo # None => pump = "send"
    /\ ended = "no" => (entry = "attached" <=> current # None)
    /\ serve \in {"removed", "gone"} => entry = "removed"

Inv ==
    /\ TypeOK
    /\ Serving
    /\ \A c \in Client : Connected(c) /\ Late(c) /\ Stream(c)

------------------------------------------------------------------------------
(* Types. *)

LEMMA FrameTypes ==
    ASSUME NEW n \in Nat
    PROVE  Data(n) \in Frame /\ Replay(n) \in Frame /\ Kicked \in Frame /\ Exit \in Frame
BY Zenon DEF Data, Replay, Kicked, Exit, Frame

Queues == {q \in [Client -> Seq(Frame)] : \A c \in Client : Len(q[c]) <= Queue}

Singles ==
    /\ program \in {"running", "exited"}
    /\ pump \in {"read", "send", "done"}
    /\ pumpTo \in Client \cup {None} /\ serveTo \in Client \cup {None}
    /\ serve \in {"wait", "exit", "drain", "cleanup", "removed", "gone"}
    /\ ended \in {"yes", "no"}
    /\ current \in Client \cup {None}
    /\ entry \in {"detached", "attached", "removed"}

Counts ==
    /\ produced \in Nat /\ inputs \in Nat /\ rows \in Nat /\ term \in Nat
    /\ shown \in [Client -> Nat] /\ late \in [Client -> Nat] /\ want \in [Client -> Nat]

States ==
    /\ phase \in [Client -> Phases]
    /\ done \in [Client -> {"yes", "no"}]
    /\ writer \in [Client -> {"off", "on", "stopped"}]
    /\ told \in [Client -> {"nothing", "exit"}]

LEMMA Types == TypeOK <=> Singles /\ Counts /\ States /\ out \in Queues
<1>1. out \in Queues <=> out \in [Client -> Seq(Frame)] /\ \A c \in Client : Len(out[c]) <= Queue
    BY Zenon DEF Queues
<1> QED BY <1>1, Zenon DEF TypeOK, Singles, Counts, States

\* client.send keeps every queue within its bound.
LEMMA SendTypes ==
    ASSUME States, NEW c \in Client, NEW f \in Frame, NEW o \in Queues, Send(c, f, o)
    PROVE  out' \in Queues /\ done' \in [Client -> {"yes", "no"}]
<1>1. CASE done[c] = "no" /\ Len(o[c]) < Queue
    <2>1. out' = [o EXCEPT ![c] = Append(o[c], f)] /\ done' = done
        BY Zenon, <1>1 DEF Send
    <2>2. Append(o[c], f) \in Seq(Frame) /\ Len(Append(o[c], f)) <= Queue
        BY <1>1, SessionAssumption DEF Queues
    <2> QED
        BY Zenon, <2>1, <2>2 DEF Queues, States
<1>2. CASE ~(done[c] = "no" /\ Len(o[c]) < Queue)
    BY Zenon, <1>2 DEF Send, States
<1> QED
    BY Zenon, <1>1, <1>2

LEMMA TypeStep ==
    ASSUME Inv, [Next]_vars
    PROVE  TypeOK'
<1>0. Singles /\ Counts /\ States /\ out \in Queues
    BY Zenon, Types DEF Inv
<1> SUFFICES Singles' /\ Counts' /\ States' /\ (out \in Queues)'
    <2>1. TypeOK' <=> Singles' /\ Counts' /\ States' /\ (out \in Queues)'
        BY Types, PTL
    <2> QED BY Zenon, <2>1
<1>1. CASE UNCHANGED vars
    BY <1>0, <1>1 DEF vars, clientVars, Singles, Counts, States
<1>2. CASE ProgramExit \/ PumpEOF
    BY <1>0, <1>2 DEF ProgramExit, PumpEOF, clientVars, Singles, Counts, States
<1>3. CASE PumpRead
    BY <1>0, <1>3 DEF PumpRead, clientVars, Singles, Counts, States
<1>4. CASE PumpSend
    <2>1. out' \in Queues /\ done' \in [Client -> {"yes", "no"}]
        <3>1. CASE pumpTo = None
            BY Zenon, <1>0, <1>4, <3>1 DEF PumpSend, Forward, States
        <3>2. CASE pumpTo # None
            <4>1. pumpTo \in Client /\ Data(produced) \in Frame /\ Send(pumpTo, Data(produced), out)
                BY Zenon, <1>0, <1>4, <3>2, FrameTypes DEF PumpSend, Forward, Singles, Counts
            <4> QED BY Zenon, <1>0, <4>1, SendTypes
        <3> QED BY Zenon, <3>1, <3>2
    <2> QED BY Zenon, <1>0, <1>4, <2>1 DEF PumpSend, Singles, Counts, States
<1>5. CASE ServeEnd \/ ServeDrained \/ ServeCleanup \/ ServeGone
    BY Zenon, <1>0, <1>5 DEF ServeEnd, ServeDrained, ServeCleanup, ServeGone, clientVars, Singles, Counts, States
<1>6. CASE ServeExit
    <2>1. serveTo \in Client /\ Exit \in Frame
        BY Zenon, <1>0, <1>6, FrameTypes DEF ServeExit, Inv, Serving, Singles
    <2>2. out' \in Queues /\ done' \in [Client -> {"yes", "no"}]
        BY Zenon, <1>0, <1>6, <2>1, SendTypes DEF ServeExit
    <2> QED BY Zenon, <1>0, <1>6, <2>2 DEF ServeExit, Singles, Counts, States
<1>7. ASSUME NEW c \in Client, Accept(c) \/ Refuse(c) \/ Redraw(c)
      PROVE  Singles' /\ Counts' /\ States' /\ (out \in Queues)'
    BY <1>0, <1>7, SessionAssumption DEF Accept, Refuse, Redraw, Goto, Phases, Singles, Counts, States
<1>8. ASSUME NEW c \in Client, TakeOver(c)
      PROVE  Singles' /\ Counts' /\ States' /\ (out \in Queues)'
    <2> PICK modes \in {<<>>, <<Replay(produced)>>} :
            LET o == [out EXCEPT ![c] = modes] IN
            IF current = None THEN out' = o /\ UNCHANGED done ELSE Send(current, Kicked, o)
        BY Zenon, <1>8 DEF TakeOver
    <2> DEFINE o == [out EXCEPT ![c] = modes]
    <2>1. Replay(produced) \in Frame /\ Kicked \in Frame
        BY Zenon, <1>0, FrameTypes DEF Counts
    <2>2. modes \in Seq(Frame) /\ Len(modes) <= 1
        <3>1. <<>> \in Seq(Frame) /\ Len(<<>>) = 0
            OBVIOUS
        <3>2. <<Replay(produced)>> \in Seq(Frame) /\ Len(<<Replay(produced)>>) = 1
            BY <2>1
        <3>3. \A n \in {0, 1} : n <= 1
            OBVIOUS
        <3> QED BY <3>1, <3>2, <3>3, Zenon
    <2>3. o \in Queues
        BY <1>0, <2>2, SessionAssumption DEF Queues
    <2>4. out' \in Queues /\ done' \in [Client -> {"yes", "no"}]
        <3>1. CASE current = None
            BY Zenon, <1>0, <2>3, <3>1 DEF States
        <3>2. CASE current # None
            <4>1. current \in Client /\ Send(current, Kicked, o)
                BY Zenon, <1>0, <3>2 DEF Singles
            <4> HIDE DEF o
            <4> QED BY Zenon, <1>0, <2>1, <2>3, <4>1, SendTypes
        <3> QED BY Zenon, <3>1, <3>2
    <2> QED BY Zenon, <1>0, <1>8, <2>4 DEF TakeOver, Goto, Phases, Singles, Counts, States
<1>9. ASSUME NEW c \in Client, Nudge(c) \/ Resize(c) \/ ApplyResize(c)
      PROVE  Singles' /\ Counts' /\ States' /\ (out \in Queues)'
    <2>1. phase[c] \in {"nudge", "nudgeTerm"} => want[c] - 1 \in Nat
        BY <1>0 DEF Inv, Connected, Counts
    <2>2. CASE Nudge(c)
        BY <1>0, <2>1, <2>2 DEF Nudge, SetRows, SetTerm, Goto, Phases, Singles, Counts, States
    <2>3. CASE Resize(c)
        BY <1>0, <2>3 DEF Resize, SetRows, SetTerm, Goto, Phases, Singles, Counts, States
    <2>4. CASE ApplyResize(c)
        BY <1>0, <2>4 DEF ApplyResize, SetRows, SetTerm, Goto, Phases, Singles, Counts, States
    <2> QED BY Zenon, <1>9, <2>2, <2>3, <2>4
<1>10. ASSUME NEW c \in Client, ReadFrame(c) \/ WriteInput(c)
       PROVE  Singles' /\ Counts' /\ States' /\ (out \in Queues)'
    <2>1. CASE ReadFrame(c)
        BY <1>0, <2>1, SessionAssumption DEF ReadFrame, Goto, Phases, Singles, Counts, States
    <2>2. CASE WriteInput(c)
        BY <1>0, <2>2 DEF WriteInput, Goto, Phases, Singles, Counts, States
    <2> QED BY Zenon, <1>10, <2>1, <2>2
<1>11. ASSUME NEW c \in Client, ReadError(c, "holder") \/ ReadError(c, "peer") \/ Detach(c)
       PROVE  Singles' /\ Counts' /\ States' /\ (out \in Queues)'
    BY <1>0, <1>11 DEF ReadError, Detach, Goto, Phases, Singles, Counts, States
<1>12. ASSUME NEW c \in Client, WriteFrame(c) \/ WriteStop(c)
       PROVE  Singles' /\ Counts' /\ States' /\ (out \in Queues)'
    <2>1. out[c] # <<>> => Head(out[c]).chunk \in Nat /\ [out EXCEPT ![c] = Tail(@)] \in Queues
        <3>1. ASSUME out[c] # <<>>
              PROVE  Head(out[c]) \in Frame /\ Tail(out[c]) \in Seq(Frame) /\ Len(Tail(out[c])) <= Queue
            BY <1>0, <3>1, SessionAssumption DEF Queues
        <3> QED BY Zenon, <1>0, <3>1 DEF Queues, Frame
    <2>2. [out EXCEPT ![c] = <<>>] \in Queues
        BY <1>0, SessionAssumption DEF Queues
    <2>3. CASE WriteFrame(c)
        <3>1. Singles' /\ States'
            BY <1>0, <2>3 DEF WriteFrame, Singles, States
        <3>2. Counts'
            BY Zenon, <1>0, <2>1, <2>3 DEF WriteFrame, Counts
        <3>3. out' \in Queues
            BY Zenon, <2>1, <2>2, <2>3 DEF WriteFrame
        <3> QED BY Zenon, <3>1, <3>2, <3>3
    <2>4. CASE WriteStop(c)
        BY <1>0, <2>2, <2>4 DEF WriteStop, Singles, Counts, States
    <2> QED BY Zenon, <1>12, <2>3, <2>4
<1> QED
    BY Zenon, <1>1, <1>2, <1>3, <1>4, <1>5, <1>6, <1>7, <1>8, <1>9, <1>10, <1>11, <1>12
    DEF Next, ServeStep, ClientStep, Writer, Reader

------------------------------------------------------------------------------
(* Queues. *)

LEMMA NextFrame == ASSUME NEW q \in Seq(Frame), q # <<>> PROVE Head(q) \in Frame
OBVIOUS

LEMMA Appended ==
    ASSUME NEW q \in Seq(Frame), NEW f \in Frame, f.type # "replay"
    PROVE  /\ Len(q) \in Nat /\ Len(Append(q, f)) = Len(q) + 1
           /\ \A i \in 1 .. Len(q) : Append(q, f)[i] = q[i]
           /\ Append(q, f)[Len(q) + 1] = f
           /\ Skip(Append(q, f)) = Skip(q) /\ Skip(q) \in {0, 1}
           /\ Exiting(Append(q, f)) = IF f.type = "exit" THEN 1 ELSE 0
           /\ NoExit(q) => Exiting(q) = 0
<1> DEFINE r == Append(q, f)
<1>1. /\ Len(q) \in Nat /\ Len(r) = Len(q) + 1 /\ r # <<>>
      /\ \A i \in 1 .. Len(q) : r[i] = q[i]
      /\ r[Len(q) + 1] = f
      /\ q = <<>> <=> Len(q) = 0
    OBVIOUS
<1> HIDE DEF r
<1>2. Skip(r) = Skip(q) /\ Skip(q) \in {0, 1}
    BY <1>1 DEF Skip
<1>3. Exiting(r) = IF f.type = "exit" THEN 1 ELSE 0
    BY Zenon, <1>1 DEF Exiting
<1>4. NoExit(q) => Exiting(q) = 0
    BY <1>1 DEF Exiting, NoExit
<1> QED BY Zenon, <1>1, <1>2, <1>3, <1>4 DEF r

\* Behind what is there comes the next chunk, or one after a Kicked.
LEMMA AppendOrdered ==
    ASSUME NEW q \in Seq(Frame), NEW f \in Frame, NEW s \in Nat, Ordered(q, s), f.type # "replay",
           f.type = "data" => Lost(q) \/ f.chunk + Skip(q) = s + Len(q) + 1
    PROVE  Ordered(Append(q, f), s)
<1> DEFINE r == Append(q, f)
<1>1. /\ Len(q) \in Nat /\ Len(r) = Len(q) + 1 /\ Skip(r) = Skip(q)
      /\ \A i \in 1 .. Len(q) : r[i] = q[i]
      /\ r[Len(q) + 1] = f
    BY Zenon, Appended
<1> HIDE DEF r
<1> SUFFICES ASSUME NEW i \in 1 .. Len(r)
             PROVE  /\ r[i].type = "replay" => i = 1
                    /\ r[i].type = "data" => r[i].chunk + Skip(r) = s + i \/ \E j \in 1 .. i : r[j].type = "kicked"
    BY Zenon DEF Ordered, r
<1>2. CASE i \in 1 .. Len(q)
    <2>1. \A j \in 1 .. i : r[j] = q[j]
        BY <1>1, <1>2
    <2>2. r[i] = q[i]
        BY Zenon, <1>1, <1>2
    <2> QED BY Zenon, <1>1, <1>2, <2>1, <2>2 DEF Ordered
<1>3. CASE i = Len(q) + 1 /\ f.type = "data" /\ Lost(q)
    <2>1. PICK j \in 1 .. Len(q) : q[j].type = "kicked"
        BY Zenon, <1>3 DEF Lost
    <2>2. j \in 1 .. i /\ r[j].type = "kicked"
        BY <1>1, <1>3, <2>1
    <2> QED BY Zenon, <1>1, <1>3, <2>2
<1>4. CASE i = Len(q) + 1 /\ (f.type = "data" => f.chunk + Skip(q) = s + Len(q) + 1)
    BY <1>1, <1>4
<1> QED BY <1>1, <1>2, <1>3, <1>4

LEMMA AppendNoExit ==
    ASSUME NEW q \in Seq(Frame), NEW f \in Frame, NoExit(q), f.type \notin {"replay", "exit"}
    PROVE  NoExit(Append(q, f))
BY Appended DEF NoExit

LEMMA AppendLost ==
    ASSUME NEW q \in Seq(Frame), NEW f \in Frame, NoExit(q), f.type \notin {"replay", "exit"},
           Lost(q) \/ f.type = "kicked"
    PROVE  Lost(Append(q, f))
BY Appended, AppendNoExit DEF Lost

LEMMA AppendWhole ==
    ASSUME NEW q \in Seq(Frame), NEW f \in Frame, NEW s \in Nat, NEW n \in Nat, NEW p \in {0, 1}, NEW k \in {0, 1},
           Whole(q, s, p, n), NoExit(q),
           \/ f.type = "data" /\ p = 1 /\ k = 0
           \/ f.type = "exit" /\ p = k
    PROVE  Whole(Append(q, f), s, k, n)
<1> DEFINE r == Append(q, f)
<1>1. /\ Len(q) \in Nat /\ Len(r) = Len(q) + 1 /\ Skip(r) = Skip(q) /\ Skip(q) \in {0, 1}
      /\ \A i \in 1 .. Len(q) : r[i] = q[i]
      /\ r[Len(q) + 1] = f
      /\ Exiting(q) = 0 /\ Exiting(r) = IF f.type = "exit" THEN 1 ELSE 0
    BY Zenon, Appended
<1> HIDE DEF r
<1>2. \A i \in 1 .. Len(r) : r[i].type # "kicked" /\ (r[i].type = "exit" => i = Len(r))
    BY <1>1 DEF Whole, NoExit
<1>3. s + Len(r) + k = n + Skip(r) + Exiting(r)
    <2>1. s + Len(q) + p = n + Skip(q) + Exiting(q)
        BY Zenon DEF Whole
    <2>2. CASE f.type = "data" /\ p = 1 /\ k = 0
        BY <1>1, <2>1, <2>2
    <2>3. CASE f.type = "exit" /\ p = k
        BY <1>1, <2>1, <2>3
    <2> QED BY Zenon, <2>2, <2>3
<1> QED BY Zenon, <1>2, <1>3 DEF Whole, r

\* The queue without the chunk or the modes that are written next.
LEMMA Written ==
    ASSUME NEW q \in Seq(Frame), q # <<>>, NEW s \in Nat, NEW t, Ordered(q, s),
           \/ Head(q).type = "data" /\ t = Head(q).chunk
           \/ Head(q).type = "replay" /\ t = s
    PROVE  /\ Ordered(Tail(q), t)
           /\ Lost(q) => Lost(Tail(q))
           /\ NoExit(q) => NoExit(Tail(q))
           /\ \A p \in {0, 1}, n \in Nat : Whole(q, s, p, n) => Whole(Tail(q), t, p, n)
<1> DEFINE r == Tail(q)
<1>1. /\ Len(q) \in Nat /\ Len(r) \in Nat /\ Len(q) = Len(r) + 1 /\ Head(q) = q[1] /\ q[1] \in Frame
      /\ \A i \in 1 .. Len(r) : r[i] = q[i + 1] /\ i + 1 \in 1 .. Len(q) /\ r[i] \in Frame
      /\ r = <<>> <=> Len(r) = 0
    <2>1. r \in Seq(Frame) /\ Len(q) \in Nat /\ Len(q) > 0 /\ Len(r) = Len(q) - 1 /\ Head(q) = q[1] /\ q[1] \in Frame
        OBVIOUS
    <2>2. \A i \in 1 .. Len(q) - 1 : r[i] = q[i + 1]
        OBVIOUS
    <2> HIDE DEF r
    <2>3. (r = <<>> <=> Len(r) = 0) /\ \A i \in 1 .. Len(r) : r[i] \in Frame
        BY <2>1
    <2> QED BY <2>1, <2>2, <2>3
<1> HIDE DEF r
<1>2. \A j \in 2 .. Len(q) : j - 1 \in 1 .. Len(r) /\ r[j - 1] = q[j]
    BY <1>1
<1>3. Skip(r) = 0
    BY <1>1 DEF Ordered, Skip
<1>4. Skip(q) = IF q[1].type = "replay" THEN 1 ELSE 0
    BY Zenon DEF Skip
<1>5. t = s + 1 - Skip(q) /\ t \in Nat /\ Skip(q) \in {0, 1}
    <2>1. q[1].chunk \in Nat
        BY Zenon, <1>1 DEF Frame
    <2>2. q[1].type = "data" => q[1].chunk + Skip(q) = s + 1
        BY <1>1 DEF Ordered
    <2> QED BY <1>1, <1>4, <2>1, <2>2
<1>6. Ordered(r, t)
    <2> SUFFICES ASSUME NEW i \in 1 .. Len(r)
                 PROVE  /\ r[i].type # "replay"
                        /\ r[i].type = "data" => r[i].chunk + Skip(r) = t + i \/ \E j \in 1 .. i : r[j].type = "kicked"
        BY Zenon DEF Ordered
    <2>1. /\ q[i + 1].type # "replay"
          /\ q[i + 1].type = "data" => \/ q[i + 1].chunk + Skip(q) = s + (i + 1)
                                       \/ \E j \in 1 .. (i + 1) : q[j].type = "kicked"
        BY <1>1 DEF Ordered
    <2>2. CASE \E j \in 1 .. (i + 1) : q[j].type = "kicked"
        <3>1. PICK j \in 1 .. (i + 1) : q[j].type = "kicked"
            BY Zenon, <2>2
        <3>2. j \in 2 .. Len(q) /\ j - 1 \in 1 .. i
            BY <1>1, <3>1
        <3>3. r[j - 1].type = "kicked"
            BY Zenon, <1>2, <3>1, <3>2
        <3> QED BY Zenon, <1>1, <2>1, <3>2, <3>3
    <2>3. CASE q[i + 1].chunk + Skip(q) = s + (i + 1)
        <3>1. r[i].chunk \in Nat
            BY Zenon, <1>1 DEF Frame
        <3>2. r[i].chunk + Skip(q) = s + (i + 1) /\ i \in Nat
            BY <1>1, <2>3
        <3>3. r[i].chunk + Skip(r) = t + i
            <4>1. CASE Skip(q) = 0
                BY <1>3, <1>5, <3>1, <3>2, <4>1
            <4>2. CASE Skip(q) = 1
                BY <1>3, <1>5, <3>1, <3>2, <4>2
            <4> QED BY Zenon, <1>5, <4>1, <4>2
        <3> QED BY Zenon, <1>1, <2>1, <3>3
    <2> QED BY Zenon, <1>1, <2>1, <2>2, <2>3
<1>7. NoExit(q) => NoExit(r)
    BY Zenon, <1>1 DEF NoExit
<1>8. Lost(q) => Lost(r)
    <2> SUFFICES ASSUME Lost(q) PROVE \E i \in 1 .. Len(r) : r[i].type = "kicked"
        BY Zenon, <1>7 DEF Lost
    <2>1. PICK j \in 1 .. Len(q) : q[j].type = "kicked"
        BY Zenon DEF Lost
    <2>2. j \in 2 .. Len(q)
        BY <1>1, <2>1
    <2> QED BY Zenon, <1>2, <2>1, <2>2
<1>9. ASSUME NEW p \in {0, 1}, NEW n \in Nat, Whole(q, s, p, n)
      PROVE  Whole(r, t, p, n)
    <2>1. Exiting(r) = Exiting(q) /\ Exiting(q) \in {0, 1}
        BY <1>1 DEF Exiting
    <2>2. \A i \in 1 .. Len(r) : r[i].type # "kicked" /\ (r[i].type = "exit" => i = Len(r))
        BY <1>1, <1>9 DEF Whole
    <2>3. t + Len(r) + p = n + Skip(r) + Exiting(r)
        <3>1. s + Len(q) + p = n + Skip(q) + Exiting(q)
            BY Zenon, <1>9 DEF Whole
        <3> QED BY <1>1, <1>3, <1>5, <2>1, <3>1
    <2> QED BY Zenon, <2>2, <2>3 DEF Whole
<1> QED BY Zenon, <1>6, <1>7, <1>8, <1>9 DEF r

------------------------------------------------------------------------------
(* What the steps do to clients. *)

\* client.send appends the frame, or closes the client, or finds it closed.
LEMMA SendEffect ==
    ASSUME States, NEW c \in Client, NEW f \in Frame, NEW o \in Queues, Send(c, f, o)
    PROVE  /\ \A d \in Client : d # c => out'[d] = o[d] /\ done'[d] = done[d]
           /\ done[c] = "yes" => done'[c] = "yes" /\ out'[c] = o[c]
           /\ done'[c] = "no" => done[c] = "no" /\ out'[c] = Append(o[c], f)
BY Zenon DEF Send, Queues, States

\* A step that leaves a client's queue and the rest of its stream alone, except
\* that it may close it, keeps the stream.
LEMMA StreamKept ==
    ASSUME NEW d \in Client, Stream(d), States, States',
           out'[d] = out[d], shown'[d] = shown[d], writer'[d] = writer[d],
           done[d] = "yes" => done'[d] = "yes",
           current' = current, produced' = produced, pumpTo' = pumpTo,
           serve \notin {"wait", "exit"} => serve' \notin {"wait", "exit"}
    PROVE  Stream(d)'
BY Zenon DEF Stream, Pending, States

\* The steps of a client that leave all streams alone but may close its own.
LEMMA AsideSteps ==
    ASSUME Inv, NEW c \in Client,
           \/ Accept(c) \/ Refuse(c) \/ Redraw(c) \/ Nudge(c) \/ Resize(c) \/ ApplyResize(c)
           \/ ReadFrame(c) \/ WriteInput(c) \/ ReadError(c, "holder") \/ ReadError(c, "peer")
    PROVE  /\ UNCHANGED <<program, pump, pumpTo, produced, serve, serveTo, ended, current, entry>>
           /\ UNCHANGED <<out, writer, shown, told>>
           /\ \A d \in Client : done[d] = "yes" => done'[d] = "yes"
           /\ \A d \in Client : d # c => phase'[d] = phase[d] /\ late'[d] = late[d] /\ want'[d] = want[d]
<1>0. States /\ Counts
    BY Zenon, Types DEF Inv
<1>1. CASE Accept(c) \/ Refuse(c) \/ Redraw(c)
    BY Zenon, <1>0, <1>1 DEF Accept, Refuse, Redraw, Goto, States, Counts
<1>2. CASE Nudge(c) \/ Resize(c) \/ ApplyResize(c)
    BY Zenon, <1>0, <1>2 DEF Nudge, Resize, ApplyResize, SetRows, SetTerm, Goto, States, Counts
<1>3. CASE ReadFrame(c)
    BY Zenon, <1>0, <1>3 DEF ReadFrame, Goto, States, Counts
<1>4. CASE WriteInput(c) \/ ReadError(c, "holder") \/ ReadError(c, "peer")
    BY Zenon, <1>0, <1>4 DEF WriteInput, ReadError, Goto, States, Counts
<1> QED
    BY Zenon, <1>1, <1>2, <1>3, <1>4

------------------------------------------------------------------------------
(* Serve. *)

LEMMA ServingStep ==
    ASSUME Inv, [Next]_vars
    PROVE  Serving'
<1>0. Serving /\ Singles /\ States
    BY Zenon, Types DEF Inv
<1>1. CASE UNCHANGED vars
    BY Zenon, <1>0, <1>1 DEF vars, Serving
<1>2. CASE ProgramExit \/ PumpRead \/ PumpSend \/ PumpEOF
    BY Zenon, <1>0, <1>2 DEF ProgramExit, PumpRead, PumpSend, PumpEOF, Serving, Singles
<1>3. CASE ServeStep
    BY Zenon, <1>0, <1>3 DEF ServeStep, ServeEnd, ServeExit, ServeDrained, ServeCleanup, ServeGone, Serving, Singles
<1>4. ASSUME NEW c \in Client, TakeOver(c)
      PROVE  Serving'
    BY Zenon, <1>0, <1>4, SessionAssumption DEF TakeOver, Serving, Singles
<1>5. ASSUME NEW c \in Client, Detach(c)
      PROVE  Serving'
    BY Zenon, <1>0, <1>5 DEF Detach, Serving, Singles
<1>6. ASSUME NEW c \in Client, Writer(c)
      PROVE  Serving'
    BY Zenon, <1>0, <1>6 DEF Writer, WriteFrame, WriteStop, Serving
<1>7. ASSUME NEW c \in Client,
             \/ Accept(c) \/ Refuse(c) \/ Redraw(c) \/ Nudge(c) \/ Resize(c) \/ ApplyResize(c)
             \/ ReadFrame(c) \/ WriteInput(c) \/ ReadError(c, "holder") \/ ReadError(c, "peer")
      PROVE  Serving'
    <2>1. UNCHANGED <<pump, pumpTo, serve, serveTo, ended, current, entry>>
        BY Zenon, <1>7, AsideSteps
    <2> QED BY Zenon, <1>0, <2>1 DEF Serving
<1> QED
    BY Zenon, <1>1, <1>2, <1>3, <1>4, <1>5, <1>6, <1>7 DEF Next, ClientStep, Reader

------------------------------------------------------------------------------
(* A connection and its late frames. *)

LEMMA ConnectedStep ==
    ASSUME Inv, [Next]_vars, NEW d \in Client
    PROVE  Connected(d)'
<1>0. Singles /\ Counts /\ States /\ out \in Queues /\ Serving /\ Connected(d)
    BY Zenon, Types DEF Inv
<1>1. CASE UNCHANGED vars
    BY Zenon, <1>0, <1>1 DEF vars, clientVars, Connected
<1>2. CASE ProgramExit \/ PumpEOF
    BY Zenon, <1>0, <1>2 DEF ProgramExit, PumpEOF, clientVars, Connected
<1>3. CASE PumpRead
    BY Zenon, <1>0, <1>3 DEF PumpRead, clientVars, Connected
<1>4. CASE PumpSend
    <2>1. CASE pumpTo = None
        BY Zenon, <1>0, <1>4, <2>1, SessionAssumption DEF PumpSend, Forward, Connected
    <2>2. CASE pumpTo # None
        <3>1. pumpTo \in Client /\ Data(produced) \in Frame /\ Send(pumpTo, Data(produced), out)
            BY Zenon, <1>0, <1>4, <2>2, FrameTypes DEF PumpSend, Forward, Singles, Counts
        <3>2. /\ d # pumpTo => out'[d] = out[d] /\ done'[d] = done[d]
              /\ done[d] = "yes" => done'[d] = "yes"
            BY Zenon, <1>0, <3>1, SendEffect
        <3> QED BY Zenon, <1>0, <1>4, <3>2, SessionAssumption DEF PumpSend, Connected
    <2> QED BY Zenon, <2>1, <2>2
<1>5. CASE ServeEnd \/ ServeDrained \/ ServeCleanup \/ ServeGone
    BY Zenon, <1>0, <1>5 DEF ServeEnd, ServeDrained, ServeCleanup, ServeGone, clientVars, Connected
<1>6. CASE ServeExit
    <2>1. serveTo \in Client /\ serveTo = current /\ Exit \in Frame
        BY Zenon, <1>0, <1>6, FrameTypes DEF ServeExit, Serving, Singles
    <2>2. /\ d # current => out'[d] = out[d] /\ done'[d] = done[d]
          /\ done[d] = "yes" => done'[d] = "yes"
        BY Zenon, <1>0, <1>6, <2>1, SendEffect DEF ServeExit
    <2> QED BY Zenon, <1>0, <1>6, <2>2 DEF ServeExit, Connected
<1>7. ASSUME NEW c \in Client, TakeOver(c)
      PROVE  Connected(d)'
    <2> PICK modes \in {<<>>, <<Replay(produced)>>} :
            LET o == [out EXCEPT ![c] = modes] IN
            IF current = None THEN out' = o /\ UNCHANGED done ELSE Send(current, Kicked, o)
        BY Zenon, <1>7 DEF TakeOver
    <2>1. /\ d # c /\ d # current => out'[d] = out[d] /\ done'[d] = done[d]
          /\ done[d] = "yes" => done'[d] = "yes"
        BY Zenon, <1>0 DEF Send, States, Queues, Singles
    <2>2. CASE d = c
        BY Zenon, <1>0, <1>7, <2>2 DEF TakeOver, Goto, Connected, States, Counts
    <2>3. CASE d # c
        BY Zenon, <1>0, <1>7, <2>1, <2>3 DEF TakeOver, Goto, Connected, States, Counts
    <2> QED BY Zenon, <2>2, <2>3
<1>8. ASSUME NEW c \in Client, Detach(c)
      PROVE  Connected(d)'
    BY Zenon, <1>0, <1>8, SessionAssumption DEF Detach, Goto, Connected, States, Counts
<1>9. ASSUME NEW c \in Client, WriteStop(c)
      PROVE  Connected(d)'
    BY Zenon, <1>0, <1>9 DEF WriteStop, Connected, States, Counts, Queues
<1>10. ASSUME NEW c \in Client, WriteFrame(c)
       PROVE  Connected(d)'
    <2>1. CASE d # c
        BY Zenon, <1>0, <1>10, <2>1 DEF WriteFrame, Connected, States, Counts, Queues
    <2>2. CASE d = c
        <3>1. Head(out[d]).type = "exit" => pump = "done" /\ shown[d] = produced
            <4> SUFFICES ASSUME Head(out[d]).type = "exit" PROVE pump = "done" /\ shown[d] = produced
                BY Zenon
            <4>1. Len(out[d]) > 0 /\ out[d][1].type = "exit" /\ out[d] \in Seq(Frame)
                BY <1>0, <1>10, <2>2 DEF WriteFrame, Queues
            <4>2. ~NoExit(out[d]) /\ Len(out[d]) \in Nat
                BY <4>1 DEF NoExit
            <4>3. Whole(out[d], shown[d], Pending(d), produced) /\ serve \notin {"wait", "exit"}
                BY Zenon, <1>10, <2>2, <4>2 DEF WriteFrame, Inv, Stream, Lost
            <4>4. Len(out[d]) = 1
                <5>1. \A i \in 1 .. Len(out[d]) : out[d][i].type = "exit" => i = Len(out[d])
                    BY Zenon, <4>3 DEF Whole
                <5>2. 1 \in 1 .. Len(out[d])
                    BY <4>1, <4>2
                <5> QED BY Zenon, <4>1, <5>1, <5>2
            <4>5. pump = "done" /\ pumpTo = None
                BY Zenon, <1>0, <4>3 DEF Serving, Singles
            <4>6. Pending(d) = 0 /\ Skip(out[d]) = 0 /\ Exiting(out[d]) = 1
                BY Zenon, <4>1, <4>4, <4>5, SessionAssumption DEF Pending, Skip, Exiting
            <4> QED
                BY <1>0, <4>3, <4>4, <4>5, <4>6 DEF Whole, Counts
        <3>2. writer[d] = "on" /\ UNCHANGED <<phase, current, pumpTo, want, pump, produced>>
            BY Zenon, <1>10, <2>2 DEF WriteFrame
        <3>3. told[d] = "nothing"
            BY Zenon, <1>0, <3>2 DEF Connected, States
        <3>4. CASE Head(out[d]).type = "exit"
            BY Zenon, <1>0, <1>10, <2>2, <3>1, <3>2, <3>4 DEF WriteFrame, Connected, States, Counts
        <3>5. CASE Head(out[d]).type = "kicked"
            BY <1>0, <1>10, <2>2, <3>2, <3>3, <3>5 DEF WriteFrame, Connected, States, Counts
        <3>6. CASE Head(out[d]).type \notin {"exit", "kicked"}
            BY Zenon, <1>0, <1>10, <2>2, <3>2, <3>3, <3>6 DEF WriteFrame, Connected, States
        <3> QED BY Zenon, <3>4, <3>5, <3>6
    <2> QED BY Zenon, <2>1, <2>2
<1>11. ASSUME NEW c \in Client,
              \/ Accept(c) \/ Refuse(c) \/ Redraw(c) \/ Nudge(c) \/ Resize(c) \/ ApplyResize(c)
              \/ ReadFrame(c) \/ WriteInput(c) \/ ReadError(c, "holder") \/ ReadError(c, "peer")
       PROVE  Connected(d)'
    <2>1. /\ UNCHANGED <<pump, pumpTo, produced, current, out, writer, shown, told>>
          /\ done[d] = "yes" => done'[d] = "yes"
          /\ d # c => phase'[d] = phase[d] /\ want'[d] = want[d]
        BY Zenon, <1>11, AsideSteps
    <2>2. CASE d # c
        BY Zenon, <1>0, <2>1, <2>2 DEF Connected
    <2>3. CASE d = c
        <3>1. CASE Accept(d) \/ Refuse(d)
            BY Zenon, <1>0, <2>1, <3>1 DEF Accept, Refuse, Goto, Connected, States
        <3>5. CASE Redraw(d)
            <4>1. /\ phase[d] = "redraw" /\ want'[d] = want[d] /\ phase'[d] \in {"nudge", "size"}
                  /\ phase'[d] = "nudge" => want[d] > 0
                BY <1>0, <3>5 DEF Redraw, Goto, States, Counts
            <4> QED BY Zenon, <1>0, <2>1, <4>1 DEF Connected
        <3>2. CASE Nudge(d) \/ Resize(d) \/ ApplyResize(d)
            BY Zenon, <1>0, <2>1, <3>2 DEF Nudge, Resize, ApplyResize, SetRows, SetTerm, Goto, Connected, States, Counts
        <3>3. CASE ReadFrame(d)
            BY Zenon, <1>0, <2>1, <3>3 DEF ReadFrame, Goto, Connected, States, Counts
        <3>4. CASE WriteInput(d) \/ ReadError(d, "holder") \/ ReadError(d, "peer")
            BY Zenon, <1>0, <2>1, <3>4 DEF WriteInput, ReadError, Goto, Connected, States, Counts
        <3> QED BY Zenon, <1>11, <2>3, <3>1, <3>2, <3>3, <3>4, <3>5
    <2> QED BY Zenon, <2>2, <2>3
<1> QED
    BY Zenon, <1>1, <1>2, <1>3, <1>4, <1>5, <1>6, <1>7, <1>8, <1>9, <1>10, <1>11
    DEF Next, ServeStep, ClientStep, Writer, Reader

LEMMA LateStep ==
    ASSUME Inv, [Next]_vars, NEW d \in Client
    PROVE  Late(d)'
<1>0. Singles /\ Counts /\ States /\ Connected(d) /\ Late(d)
    BY Zenon, Types DEF Inv
<1>1. CASE UNCHANGED vars
    BY Zenon, <1>0, <1>1 DEF vars, clientVars, Late
<1>2. CASE ProgramExit \/ PumpRead \/ PumpSend \/ PumpEOF
    BY Zenon, <1>0, <1>2 DEF ProgramExit, PumpRead, PumpSend, PumpEOF, clientVars, Late
<1>3. CASE ServeStep
    BY Zenon, <1>0, <1>3 DEF ServeStep, ServeEnd, ServeExit, ServeDrained, ServeCleanup, ServeGone, clientVars, Late
<1>4. ASSUME NEW c \in Client, TakeOver(c)
      PROVE  Late(d)'
    BY Zenon, <1>0, <1>4 DEF TakeOver, Goto, Late, States
<1>5. ASSUME NEW c \in Client, Detach(c)
      PROVE  Late(d)'
    BY <1>0, <1>5, SessionAssumption DEF Detach, Goto, Late, States, Counts
<1>6. ASSUME NEW c \in Client, Writer(c)
      PROVE  Late(d)'
    BY Zenon, <1>0, <1>6 DEF Writer, WriteFrame, WriteStop, Late
<1>7. ASSUME NEW c \in Client, Accept(c) \/ Refuse(c) \/ Redraw(c) \/ ReadFrame(c)
      PROVE  Late(d)'
    BY <1>0, <1>7 DEF Accept, Refuse, Redraw, ReadFrame, Goto, Late, States
<1>8. ASSUME NEW c \in Client, Nudge(c) \/ Resize(c) \/ ApplyResize(c)
      PROVE  Late(d)'
    BY Zenon, <1>0, <1>8 DEF Nudge, Resize, ApplyResize, SetRows, SetTerm, Goto, Late, States
<1>9. ASSUME NEW c \in Client, WriteInput(c) \/ ReadError(c, "holder") \/ ReadError(c, "peer")
      PROVE  Late(d)'
    BY <1>0, <1>9 DEF WriteInput, ReadError, Goto, Late, States, Counts
<1> QED
    BY Zenon, <1>1, <1>2, <1>3, <1>4, <1>5, <1>6, <1>7, <1>8, <1>9 DEF Next, ClientStep, Reader

------------------------------------------------------------------------------
(* Streams. *)

LEMMA StreamStep ==
    ASSUME Inv, [Next]_vars, NEW d \in Client
    PROVE  Stream(d)'
<1>0. Singles /\ Counts /\ States /\ out \in Queues /\ Serving /\ Connected(d) /\ Stream(d)
    BY Zenon, Types DEF Inv
<1>t. Singles' /\ Counts' /\ States'
    <2>1. TypeOK' <=> Singles' /\ Counts' /\ States' /\ (out \in Queues)'
        BY Types, PTL
    <2> QED BY Zenon, <2>1, TypeStep
<1>s. out[d] \in Seq(Frame) /\ Len(out[d]) \in Nat
    BY <1>0 DEF Queues
<1>1. CASE UNCHANGED vars \/ ProgramExit \/ PumpEOF \/ ServeEnd \/ ServeDrained \/ ServeCleanup \/ ServeGone
    <2>1. UNCHANGED <<out, shown, writer, done, current, produced, pumpTo>>
        BY Zenon, <1>1 DEF vars, clientVars, ProgramExit, PumpEOF, ServeEnd, ServeDrained, ServeCleanup, ServeGone
    <2>2. serve \notin {"wait", "exit"} => serve' \notin {"wait", "exit"}
        BY Zenon, <1>1 DEF vars, ProgramExit, PumpEOF, ServeEnd, ServeDrained, ServeCleanup, ServeGone
    <2> QED BY Zenon, <1>0, <1>t, <2>1, <2>2, StreamKept
<1>2. CASE PumpRead
    <2>1. UNCHANGED <<out, shown, writer, done, current, serve>> /\ produced' = produced + 1 /\ pumpTo' = current
        BY Zenon, <1>2 DEF PumpRead, clientVars
    <2>2. serve = "wait" /\ pumpTo = None
        BY Zenon, <1>0, <1>2 DEF PumpRead, Serving, Singles
    <2>3. d = current => Pending(d) = 0 /\ Pending(d)' = 1
        BY Zenon, <2>1, <2>2, SessionAssumption DEF Pending
    <2>4. d = current /\ Whole(out[d], shown[d], 0, produced) => Whole(out[d], shown[d], 1, produced + 1)
        <3>1. Skip(out[d]) \in {0, 1} /\ Exiting(out[d]) \in {0, 1} /\ shown[d] \in Nat /\ produced \in Nat
            BY Zenon, <1>0 DEF Skip, Exiting, Counts
        <3> QED BY <1>s, <3>1 DEF Whole
    <2> QED BY Zenon, <1>0, <2>1, <2>3, <2>4 DEF Stream
<1>3. CASE PumpSend
    <2>1. UNCHANGED <<shown, writer, current, serve, produced>> /\ pumpTo' = None
        BY Zenon, <1>3 DEF PumpSend
    <2>2. CASE d # pumpTo
        <3>1. out'[d] = out[d] /\ done'[d] = done[d]
            <4>1. CASE pumpTo = None
                BY Zenon, <1>3, <4>1 DEF PumpSend, Forward
            <4>2. CASE pumpTo # None
                <5>1. pumpTo \in Client /\ Data(produced) \in Frame /\ Send(pumpTo, Data(produced), out)
                    BY Zenon, <1>0, <1>3, <4>2, FrameTypes DEF PumpSend, Forward, Singles, Counts
                <5> QED BY Zenon, <1>0, <2>2, <5>1, SendEffect
            <4> QED BY Zenon, <4>1, <4>2
        <3>2. Pending(d)' = Pending(d)
            BY Zenon, <2>1, <2>2, SessionAssumption DEF Pending
        <3> QED BY Zenon, <1>0, <2>1, <3>1, <3>2 DEF Stream
    <2>3. CASE d = pumpTo /\ done'[d] = "no" /\ writer[d] = "on"
        <3> DEFINE f == Data(produced)
        <3>1. f \in Frame /\ f.type = "data" /\ f.chunk = produced /\ Send(d, f, out)
            BY Zenon, <1>0, <1>3, <2>3, FrameTypes, SessionAssumption DEF PumpSend, Forward, Singles, Counts, Data
        <3> HIDE DEF f
        <3>2. done[d] = "no" /\ out'[d] = Append(out[d], f)
            BY Zenon, <1>0, <2>3, <3>1, SendEffect
        <3>3. serve = "wait" /\ Pending(d) = 1 /\ Pending(d)' = 0 /\ produced \in Nat /\ shown[d] \in Nat
            BY Zenon, <1>0, <2>1, <2>3, SessionAssumption DEF Serving, Singles, Pending, Counts
        <3>4. Ordered(out[d], shown[d]) /\ (d = current => NoExit(out[d])) /\ (d # current => Lost(out[d]))
            BY Zenon, <1>0, <2>3, <3>2, <3>3 DEF Stream
        <3>5. CASE d = current
            <4>1. Whole(out[d], shown[d], 1, produced)
                BY Zenon, <1>0, <2>3, <3>2, <3>3, <3>5 DEF Stream
            <4>2. Exiting(out[d]) = 0 /\ Skip(out[d]) \in {0, 1}
                BY Zenon, <1>s, <3>1, <3>4, <3>5, Appended
            <4>3. f.chunk + Skip(out[d]) = shown[d] + Len(out[d]) + 1
                BY <1>s, <3>1, <3>3, <4>1, <4>2 DEF Whole
            <4>4. Ordered(Append(out[d], f), shown[d])
                BY Zenon, <1>s, <3>1, <3>3, <3>4, <4>3, AppendOrdered
            <4>5. Whole(Append(out[d], f), shown[d], 0, produced)
                BY Zenon, <1>s, <3>1, <3>3, <3>4, <3>5, <4>1, AppendWhole
            <4>6. NoExit(Append(out[d], f))
                BY Zenon, <1>s, <3>1, <3>4, <3>5, AppendNoExit
            <4> QED BY Zenon, <2>1, <3>2, <3>3, <3>5, <4>4, <4>5, <4>6 DEF Stream
        <3>6. CASE d # current
            <4>1. Ordered(Append(out[d], f), shown[d])
                BY Zenon, <1>s, <3>1, <3>3, <3>4, <3>6, AppendOrdered
            <4>2. Lost(Append(out[d], f))
                BY Zenon, <1>s, <3>1, <3>4, <3>6, AppendLost DEF Lost
            <4> QED BY Zenon, <2>1, <3>2, <3>6, <4>1, <4>2 DEF Stream
        <3> QED BY Zenon, <3>5, <3>6
    <2>4. CASE ~(done'[d] = "no" /\ writer[d] = "on")
        BY Zenon, <2>1, <2>4 DEF Stream
    <2> QED BY Zenon, <2>2, <2>3, <2>4
<1>4. CASE ServeExit
    <2>1. UNCHANGED <<shown, writer, current, produced, pumpTo>> /\ serve = "exit" /\ serve' = "drain"
        BY Zenon, <1>4 DEF ServeExit
    <2>2. current \in Client /\ Exit \in Frame /\ Exit.type = "exit" /\ Send(current, Exit, out)
        BY Zenon, <1>0, <1>4, FrameTypes DEF ServeExit, Serving, Singles, Exit
    <2>3. CASE d # current
        <3>1. out'[d] = out[d] /\ done'[d] = done[d]
            BY Zenon, <1>0, <2>2, <2>3, SendEffect
        <3> QED BY Zenon, <1>0, <1>t, <2>1, <3>1, StreamKept
    <2>4. CASE d = current /\ done'[d] = "no" /\ writer[d] = "on"
        <3>1. done[d] = "no" /\ out'[d] = Append(out[d], Exit)
            BY Zenon, <1>0, <2>2, <2>4, SendEffect
        <3>2. /\ Ordered(out[d], shown[d]) /\ Whole(out[d], shown[d], Pending(d), produced) /\ NoExit(out[d])
              /\ shown[d] \in Nat /\ produced \in Nat
            BY Zenon, <1>0, <2>1, <2>4, <3>1 DEF Stream, Counts
        <3>3. Pending(d)' = Pending(d) /\ Pending(d) \in {0, 1}
            BY Zenon, <2>1 DEF Pending
        <3>4. Ordered(Append(out[d], Exit), shown[d])
            BY Zenon, <1>s, <2>2, <3>2, AppendOrdered
        <3>5. Whole(Append(out[d], Exit), shown[d], Pending(d), produced)
            BY Zenon, <1>s, <2>2, <3>2, <3>3, AppendWhole
        <3> QED BY Zenon, <2>1, <2>4, <3>1, <3>3, <3>4, <3>5 DEF Stream
    <2>5. CASE ~(done'[d] = "no" /\ writer[d] = "on")
        BY Zenon, <2>1, <2>5 DEF Stream
    <2> QED BY Zenon, <2>3, <2>4, <2>5
<1>5. ASSUME NEW c \in Client, TakeOver(c)
      PROVE  Stream(d)'
    <2> PICK modes \in {<<>>, <<Replay(produced)>>} :
            LET o == [out EXCEPT ![c] = modes] IN
            IF current = None THEN out' = o /\ UNCHANGED done ELSE Send(current, Kicked, o)
        BY Zenon, <1>5 DEF TakeOver
    <2>1. /\ UNCHANGED <<pumpTo, produced, serve>> /\ current' = c
          /\ shown' = [shown EXCEPT ![c] = produced] /\ writer' = [writer EXCEPT ![c] = "on"]
        BY Zenon, <1>5 DEF TakeOver
    <2>2. c # current /\ c # pumpTo /\ phase[c] = "hello" /\ serve = "wait" /\ produced \in Nat
        BY Zenon, <1>0, <1>5 DEF TakeOver, Inv, Connected, Serving, Counts
    <2>3. CASE d = c
        <3>1. out'[d] = modes
            BY Zenon, <1>0, <2>2, <2>3 DEF Send, Singles, Queues
        <3>2. shown'[d] = produced /\ Pending(d)' = 0
            BY Zenon, <1>0, <2>1, <2>2, <2>3 DEF Counts, Pending
        <3>3. modes = <<>> \/ (Len(modes) = 1 /\ modes[1].type = "replay" /\ modes # <<>>)
            BY DEF Replay
        <3>4. Ordered(modes, produced) /\ Whole(modes, produced, 0, produced) /\ NoExit(modes)
            <4>1. CASE modes = <<>>
                BY <2>2, <4>1 DEF Ordered, Whole, NoExit, Skip, Exiting
            <4>2. CASE Len(modes) = 1 /\ modes[1].type = "replay" /\ modes # <<>>
                <5>1. Skip(modes) = 1 /\ Exiting(modes) = 0
                    BY Zenon, <4>2 DEF Skip, Exiting
                <5> QED BY <2>2, <4>2, <5>1 DEF Ordered, Whole, NoExit
            <4> QED BY Zenon, <3>3, <4>1, <4>2
        <3> QED BY Zenon, <2>1, <2>3, <3>1, <3>2, <3>4 DEF Stream
    <2>4. CASE d # c /\ d # current
        <3>1. out'[d] = out[d] /\ done'[d] = done[d]
            BY Zenon, <1>0, <2>4 DEF Send, Singles, States, Queues
        <3>2. shown'[d] = shown[d] /\ writer'[d] = writer[d]
            BY Zenon, <1>0, <2>1, <2>4 DEF Counts, States
        <3> QED BY Zenon, <1>0, <2>1, <2>4, <3>1, <3>2 DEF Stream
    <2>5. CASE d = current /\ done'[d] = "no" /\ writer[d] = "on"
        <3>1. done[d] = "no" /\ out'[d] = Append(out[d], Kicked)
            BY Zenon, <1>0, <2>2, <2>5, SessionAssumption DEF Send, States, Queues
        <3>2. Ordered(out[d], shown[d]) /\ NoExit(out[d]) /\ shown[d] \in Nat /\ shown'[d] = shown[d]
            BY Zenon, <1>0, <2>1, <2>2, <2>5, <3>1 DEF Stream, Counts
        <3>3. Kicked \in Frame /\ Kicked.type = "kicked"
            BY Zenon, FrameTypes DEF Kicked
        <3>4. Ordered(Append(out[d], Kicked), shown[d])
            BY Zenon, <1>s, <3>2, <3>3, AppendOrdered
        <3>5. Lost(Append(out[d], Kicked))
            BY Zenon, <1>s, <3>2, <3>3, AppendLost
        <3> QED BY Zenon, <2>1, <2>2, <2>5, <3>1, <3>2, <3>4, <3>5 DEF Stream
    <2>6. CASE d = current /\ ~(done'[d] = "no" /\ writer[d] = "on")
        BY Zenon, <1>0, <2>1, <2>2, <2>6 DEF Stream, States
    <2> QED BY Zenon, <2>3, <2>4, <2>5, <2>6
<1>6. ASSUME NEW c \in Client, Detach(c)
      PROVE  Stream(d)'
    <2>1. UNCHANGED <<out, shown, writer, done, produced, pumpTo, serve>> /\ done[c] = "yes"
        BY Zenon, <1>6 DEF Detach, Inv, Connected
    <2>2. current' = current \/ (current = c /\ current' = None)
        BY Zenon, <1>6 DEF Detach
    <2>3. CASE current' = current
        BY Zenon, <1>0, <1>t, <2>1, <2>3, StreamKept
    <2>4. CASE current = c /\ current' = None /\ d # c
        BY Zenon, <1>0, <2>1, <2>4, SessionAssumption DEF Stream
    <2>5. CASE d = c
        BY Zenon, <2>1, <2>5 DEF Stream
    <2> QED BY Zenon, <2>2, <2>3, <2>4, <2>5
<1>7. ASSUME NEW c \in Client, WriteStop(c)
      PROVE  Stream(d)'
    <2>1. CASE d = c
        BY Zenon, <1>0, <1>7, <2>1 DEF WriteStop, Stream, States
    <2>2. CASE d # c
        <3>1. /\ out'[d] = out[d] /\ shown'[d] = shown[d] /\ writer'[d] = writer[d] /\ done'[d] = done[d]
              /\ UNCHANGED <<current, produced, pumpTo, serve>>
            BY Zenon, <1>0, <1>7, <2>2 DEF WriteStop, States, Counts, Queues
        <3> QED BY Zenon, <1>0, <1>t, <3>1, StreamKept
    <2> QED BY Zenon, <2>1, <2>2
<1>8. ASSUME NEW c \in Client, WriteFrame(c)
      PROVE  Stream(d)'
    <2>0. UNCHANGED <<current, produced, pumpTo, serve>>
        BY Zenon, <1>8 DEF WriteFrame
    <2>1. CASE d # c
        <3>1. out'[d] = out[d] /\ shown'[d] = shown[d] /\ writer'[d] = writer[d] /\ done'[d] = done[d]
            BY Zenon, <1>0, <1>8, <2>1 DEF WriteFrame, States, Counts, Queues
        <3> QED BY Zenon, <1>0, <1>t, <2>0, <3>1, StreamKept
    <2>2. CASE d = c /\ Head(out[d]).type \in {"exit", "kicked"}
        BY Zenon, <1>0, <1>8, <2>2 DEF WriteFrame, Stream, States
    <2>3. CASE d = c /\ Head(out[d]).type \notin {"exit", "kicked"}
        <3>1. /\ done[d] = "no" /\ writer[d] = "on" /\ out[d] # <<>> /\ out'[d] = Tail(out[d])
              /\ shown'[d] = IF Head(out[d]).type = "data" THEN Head(out[d]).chunk ELSE shown[d]
            BY Zenon, <1>0, <1>8, <2>3 DEF WriteFrame, Counts, Queues
        <3>2. Head(out[d]) \in Frame
            BY Zenon, <1>s, <3>1, NextFrame
        <3>3. Head(out[d]).type \in {"data", "replay"} /\ shown[d] \in Nat /\ produced \in Nat
            BY Zenon, <1>0, <2>3, <3>2 DEF Frame, Counts
        <3>4. Pending(d)' = Pending(d) /\ Pending(d) \in {0, 1}
            BY Zenon, <2>0 DEF Pending
        <3>5. Ordered(out[d], shown[d])
            BY Zenon, <1>0, <3>1 DEF Stream
        <3>6. /\ Ordered(Tail(out[d]), shown'[d])
              /\ Lost(out[d]) => Lost(Tail(out[d]))
              /\ NoExit(out[d]) => NoExit(Tail(out[d]))
              /\ Whole(out[d], shown[d], Pending(d), produced) => Whole(Tail(out[d]), shown'[d], Pending(d), produced)
            BY Zenon, <1>s, <3>1, <3>3, <3>4, <3>5, Written
        <3> QED BY Zenon, <1>0, <2>0, <3>1, <3>4, <3>6 DEF Stream
    <2> QED BY Zenon, <2>1, <2>2, <2>3
<1>9. ASSUME NEW c \in Client,
             \/ Accept(c) \/ Refuse(c) \/ Redraw(c) \/ Nudge(c) \/ Resize(c) \/ ApplyResize(c)
             \/ ReadFrame(c) \/ WriteInput(c) \/ ReadError(c, "holder") \/ ReadError(c, "peer")
      PROVE  Stream(d)'
    <2>1. /\ UNCHANGED <<pumpTo, produced, serve, current, out, writer, shown>>
          /\ done[d] = "yes" => done'[d] = "yes"
        BY Zenon, <1>9, AsideSteps
    <2> QED BY Zenon, <1>0, <1>t, <2>1, StreamKept
<1> QED
    BY Zenon, <1>1, <1>2, <1>3, <1>4, <1>5, <1>6, <1>7, <1>8, <1>9
    DEF Next, ServeStep, ClientStep, Writer, Reader

------------------------------------------------------------------------------
(* The theorems. *)

LEMMA InvInit == Init => Inv
<1> SUFFICES ASSUME Init PROVE Inv
    BY Zenon
<1> USE SessionAssumption
<1>1. TypeOK
    <2>1. out \in Queues
        BY DEF Init, Queues
    <2>2. Singles /\ Counts /\ States
        BY Zenon DEF Init, Singles, Counts, States, Phases
    <2> QED BY Zenon, <2>1, <2>2, Types
<1>2. Serving
    BY Zenon DEF Init, Serving
<1>3. ASSUME NEW c \in Client PROVE Connected(c) /\ Late(c) /\ Stream(c)
    BY DEF Init, Connected, Late, Stream
<1> QED
    BY Zenon, <1>1, <1>2, <1>3 DEF Inv

LEMMA InvStep == ASSUME Inv, [Next]_vars PROVE Inv'
BY Zenon, TypeStep, ServingStep, ConnectedStep, LateStep, StreamStep DEF Inv

\* Every variable keeps its type; in particular no client's queue outgrows
\* clientQueue, which client.send checks before it appends.
THEOREM QueuesBounded == Spec => []TypeOK
<1>1. Inv => TypeOK
    BY Zenon DEF Inv
<1> QED BY <1>1, InvInit, InvStep, PTL DEF Spec

\* However clients attach, take over, fall behind and leave while the program
\* writes and exits: a client's output has no gap (attach, pump, client.send), who
\* is told of the exit has seen all output (Serve), and the entry is true.
THEOREM SessionAlwaysFaithful == Spec => []SessionFaithful
<1>1. Inv => SessionFaithful
    <2> SUFFICES ASSUME Inv PROVE SessionFaithful
        BY Zenon
    <2>0. Counts /\ States /\ out \in Queues
        BY Zenon, Types DEF Inv
    <2>1. OutputInOrder
        <3> SUFFICES ASSUME NEW c \in Client, done[c] = "no", out[c] # <<>>, Head(out[c]).type = "data"
                     PROVE  Head(out[c]).chunk = shown[c] + 1
            BY Zenon DEF OutputInOrder
        <3>1. writer[c] = "on" /\ Stream(c)
            BY Zenon, <2>0 DEF Inv, Connected, States
        <3>2. Ordered(out[c], shown[c])
            BY Zenon, <3>1 DEF Stream
        <3>3. Len(out[c]) > 0 /\ Head(out[c]) = out[c][1] /\ out[c][1] \in Frame /\ Len(out[c]) \in Nat
            BY <2>0 DEF Queues
        <3>4. Skip(out[c]) = 0 /\ out[c][1].chunk \in Nat
            BY Zenon, <3>3 DEF Skip, Frame
        <3>5. out[c][1].chunk + Skip(out[c]) = shown[c] + 1
            BY <3>2, <3>3 DEF Ordered
        <3> QED BY <3>3, <3>4, <3>5
    <2>2. ExitIsLast
        BY Zenon DEF ExitIsLast, Inv, Connected
    <2>3. EntryFaithful
        BY Zenon DEF EntryFaithful, Inv, Serving
    <2> QED BY Zenon, <2>1, <2>2, <2>3 DEF SessionFaithful
<1> QED BY <1>1, InvInit, InvStep, PTL DEF Spec

\* A client that was taken over gets at most the frame through that its readLoop
\* had checked before, whatever it had sent.
THEOREM OneLateFrame == Spec => []AtMostOneLateFrame
<1>1. Inv => AtMostOneLateFrame
    BY Zenon DEF Inv, Late, AtMostOneLateFrame
<1> QED BY <1>1, InvInit, InvStep, PTL DEF Spec
==============================================================================
