------------------------- MODULE LogFollowProofs ----------------------------
(***************************************************************************)
(* The broker log and its follower, for every value of the constants.      *)
(***************************************************************************)
EXTENDS MCBroker, TLAPS


\* The writer: the name leads to the newest file or nowhere, Write holds that
\* file, and events are stored in their order, the one being written after all.
LogTypes ==
    /\ content \in Seq(Seq(Nat)) /\ printed \in Seq(Nat) /\ event \in Nat /\ offset \in Nat
    /\ path \in {0, Len(content)} /\ old \in 0 .. Len(content) /\ f \in 0 .. Len(content)
    /\ wf \in {0, path} /\ (wpc \in {"size", "append"} => wf # 0) /\ (wpc = "rename" => wf = 0)
    /\ path # 0 => old < path

Sorted ==
    \A i, g \in Log!Files : \A j \in DOMAIN content[i], k \in DOMAIN content[g] :
        i < g \/ (i = g /\ j < k) => content[i][j] < content[g][k]

Unwritten ==
    \A i \in Log!Files : \A j \in DOMAIN content[i] :
        content[i][j] <= event /\ (wpc # "idle" => content[i][j] < event)

\* What is printed lies in files before the one the follower reads, or before its
\* offset there; between two files, before the one the name leads to.
Behind(i, j) == IF f = 0 THEN path = 0 \/ i < path ELSE i < f \/ (i = f /\ j <= offset)

Printed ==
    \A e \in Log!Events(printed) : \E i \in Log!Files : \E j \in DOMAIN content[i] :
        e = content[i][j] /\ Behind(i, j)

Follower ==
    /\ fpc \in {"old", "readOld"} => printed = <<>>
    /\ fpc = "old" => f = 0
    /\ fpc = "readOld" => f # 0 /\ (path = 0 \/ f < path)
    /\ fpc = "first" => f # 0 /\ offset = 0
    /\ fpc \in {"poll", "reopen", "first"} /\ f # 0 =>
          /\ offset <= Len(content[f])
          /\ \A j \in 1 .. offset : content[f][j] \in Log!Events(printed)

LogInv == LogTypes /\ Sorted /\ Unwritten /\ Printed /\ Follower /\ Log!FollowerInOrder

\* Reading on in a file from an offset: c from o on, after t.
Read(t, c, o) == t \o SubSeq(c, o + 1, Len(c))

LEMMA ReadOn ==
    ASSUME NEW t \in Seq(Nat), NEW c \in Seq(Nat), NEW o \in 0 .. Len(c)
    PROVE  /\ Read(t, c, o) \in Seq(Nat) /\ Len(t) \in Nat /\ Len(c) \in Nat
           /\ Len(Read(t, c, o)) = Len(t) + (Len(c) - o)
           /\ \A x \in 1 .. Len(t) : Read(t, c, o)[x] = t[x]
           /\ \A x \in 1 .. (Len(c) - o) : Read(t, c, o)[Len(t) + x] = c[o + x]
<1> DEFINE v == SubSeq(c, o + 1, Len(c))
<1>1. v \in Seq(Nat) /\ Len(c) \in Nat
    OBVIOUS
<1>2. Len(v) = Len(c) - o
    OBVIOUS
<1>3. \A x \in 1 .. (Len(c) - o) : v[x] = c[o + x]
    OBVIOUS
<1> HIDE DEF v
<1>4. t \o v \in Seq(Nat) /\ Len(t \o v) = Len(t) + Len(v) /\ Len(t) \in Nat
    BY <1>1
<1>5. \A x \in 1 .. Len(t) : (t \o v)[x] = t[x]
    BY <1>1
<1>6. \A x \in 1 .. Len(v) : (t \o v)[Len(t) + x] = v[x]
    BY <1>1
<1>7. Read(t, c, o) = t \o v
    BY Zenon DEF v, Read
<1> QED
    BY Zenon, <1>1, <1>2, <1>3, <1>4, <1>5, <1>6, <1>7

Increasing(s) == \A x, y \in DOMAIN s : x < y => s[x] < s[y]

\* Where an entry comes from.
LEMMA ReadFrom ==
    ASSUME NEW t \in Seq(Nat), NEW c \in Seq(Nat), NEW o \in 0 .. Len(c)
    PROVE  /\ \A x \in DOMAIN t : x \in DOMAIN Read(t, c, o) /\ Read(t, c, o)[x] = t[x]
           /\ \A x \in DOMAIN Read(t, c, o) : x \notin DOMAIN t =>
                  o + (x - Len(t)) \in (o + 1) .. Len(c) /\ Read(t, c, o)[x] = c[o + (x - Len(t))]
           /\ \A k \in (o + 1) .. Len(c) :
                  Len(t) + (k - o) \in DOMAIN Read(t, c, o) /\ Read(t, c, o)[Len(t) + (k - o)] = c[k]
<1>1. /\ Len(t) \in Nat /\ Len(c) \in Nat /\ Len(Read(t, c, o)) = Len(t) + (Len(c) - o)
      /\ \A x \in 1 .. Len(t) : Read(t, c, o)[x] = t[x]
      /\ \A x \in 1 .. (Len(c) - o) : Read(t, c, o)[Len(t) + x] = c[o + x]
    BY Zenon, ReadOn
<1>2. Read(t, c, o) \in Seq(Nat)
    BY Zenon, ReadOn
<1>3. DOMAIN t = 1 .. Len(t) /\ DOMAIN Read(t, c, o) = 1 .. (Len(t) + (Len(c) - o))
    BY <1>1, <1>2
<1> DEFINE lt == Len(t)
           lc == Len(c)
<1>4. lt \in Nat /\ lc \in Nat /\ o \in Nat /\ o <= lc
    OBVIOUS
<1> HIDE DEF lt, lc
<1>5. \A x \in 1 .. (lt + (lc - o)) : x \notin 1 .. lt =>
          x - lt \in 1 .. (lc - o) /\ lt + (x - lt) = x /\ o + (x - lt) \in (o + 1) .. lc
    BY <1>4
<1>6. \A k \in (o + 1) .. lc :
          k - o \in 1 .. (lc - o) /\ o + (k - o) = k /\ lt + (k - o) \in 1 .. (lt + (lc - o))
    BY <1>4
<1>7. \A x \in 1 .. lt : x \in 1 .. (lt + (lc - o))
    BY <1>4
<1> QED
    BY Zenon, <1>1, <1>3, <1>5, <1>6, <1>7 DEF lt, lc

LEMMA ReadEvents ==
    ASSUME NEW t \in Seq(Nat), NEW c \in Seq(Nat), NEW o \in 0 .. Len(c)
    PROVE  \A e : e \in Log!Events(Read(t, c, o)) <=>
                      e \in Log!Events(t) \/ \E k \in (o + 1) .. Len(c) : e = c[k]
<1>1. \A x \in DOMAIN t : x \in DOMAIN Read(t, c, o) /\ Read(t, c, o)[x] = t[x]
    BY Zenon, ReadFrom
<1>2. \A x \in DOMAIN Read(t, c, o) : x \notin DOMAIN t =>
          \E k \in (o + 1) .. Len(c) : Read(t, c, o)[x] = c[k]
    <2> SUFFICES ASSUME NEW x \in DOMAIN Read(t, c, o), x \notin DOMAIN t
                 PROVE  \E k \in (o + 1) .. Len(c) : Read(t, c, o)[x] = c[k]
        BY Zenon
    <2>1. o + (x - Len(t)) \in (o + 1) .. Len(c) /\ Read(t, c, o)[x] = c[o + (x - Len(t))]
        BY ReadFrom
    <2> QED
        BY Zenon, <2>1
<1>3. \A k \in (o + 1) .. Len(c) : \E x \in DOMAIN Read(t, c, o) : Read(t, c, o)[x] = c[k]
    BY Zenon, ReadFrom
<1> DEFINE u == Read(t, c, o)
           new == (o + 1) .. Len(c)
<1> HIDE DEF u, new
<1>4. ASSUME NEW e \in Log!Events(u) PROVE e \in Log!Events(t) \/ \E k \in new : e = c[k]
    <2>1. PICK x \in DOMAIN u : e = u[x]
        BY Zenon DEF Log!Events
    <2>2. CASE x \in DOMAIN t
        BY Zenon, <1>1, <2>1, <2>2 DEF Log!Events, u
    <2>3. CASE x \notin DOMAIN t
        BY <1>2, <2>1, <2>3, Zenon DEF u, new
    <2> QED
        BY Zenon, <2>2, <2>3
<1>5. ASSUME NEW e \in Log!Events(t) PROVE e \in Log!Events(u)
    BY Zenon, <1>1 DEF Log!Events, u
<1>6. ASSUME NEW k \in new PROVE c[k] \in Log!Events(u)
    BY Zenon, <1>3 DEF Log!Events, u, new
<1> QED
    BY <1>4, <1>5, <1>6, Zenon DEF u, new

LEMMA ReadSorted ==
    ASSUME NEW t \in Seq(Nat), NEW c \in Seq(Nat), NEW o \in 0 .. Len(c),
           Increasing(t), Increasing(c),
           \A x \in DOMAIN t, k \in (o + 1) .. Len(c) : t[x] < c[k]
    PROVE  Increasing(Read(t, c, o))
<1> SUFFICES ASSUME NEW x \in DOMAIN Read(t, c, o), NEW y \in DOMAIN Read(t, c, o), x < y
             PROVE  Read(t, c, o)[x] < Read(t, c, o)[y]
    BY Zenon DEF Increasing
<1>1. /\ Read(t, c, o) \in Seq(Nat) /\ DOMAIN t = 1 .. Len(t) /\ Len(t) \in Nat
      /\ Len(c) \in Nat /\ DOMAIN c = 1 .. Len(c)
    BY ReadOn
<1>2. x \in Nat \ {0} /\ y \in Nat \ {0} /\ o \in Nat
    BY <1>1
<1>3. CASE y \in DOMAIN t
    <2>1. x \in DOMAIN t
        BY <1>1, <1>2, <1>3
    <2>2. Read(t, c, o)[x] = t[x] /\ Read(t, c, o)[y] = t[y]
        BY Zenon, <1>3, <2>1, ReadFrom
    <2> QED
        BY Zenon, <1>3, <2>1, <2>2 DEF Increasing
<1>4. CASE x \in DOMAIN t /\ y \notin DOMAIN t
    <2> DEFINE k == o + (y - Len(t))
    <2>1. Read(t, c, o)[x] = t[x] /\ k \in (o + 1) .. Len(c) /\ Read(t, c, o)[y] = c[k]
        BY <1>4, ReadFrom
    <2> HIDE DEF k
    <2> QED
        BY Zenon, <1>4, <2>1
<1>5. CASE x \notin DOMAIN t /\ y \notin DOMAIN t
    <2> DEFINE k == o + (x - Len(t))
               m == o + (y - Len(t))
    <2>1. /\ k \in (o + 1) .. Len(c) /\ Read(t, c, o)[x] = c[k]
          /\ m \in (o + 1) .. Len(c) /\ Read(t, c, o)[y] = c[m]
        BY <1>5, ReadFrom
    <2>2. k < m
        BY <1>1, <1>2
    <2> HIDE DEF k, m
    <2>3. k \in DOMAIN c /\ m \in DOMAIN c
        BY <1>1, <1>2, <2>1
    <2> QED
        BY Zenon, <2>1, <2>2, <2>3 DEF Increasing
<1> QED
    BY Zenon, <1>3, <1>4, <1>5

\* The cells of the files, as numbers.
LEMMA Cells ==
    ASSUME LogTypes, NEW i \in Log!Files
    PROVE  /\ i \in Nat /\ Len(content) \in Nat /\ i <= Len(content) /\ content[i] \in Seq(Nat)
           /\ Len(content[i]) \in Nat /\ DOMAIN content[i] = 1 .. Len(content[i])
           /\ \A j \in DOMAIN content[i] : content[i][j] \in Nat
<1>1. content[i] \in Seq(Nat) /\ Len(content) \in Nat
    BY DEF LogTypes, Log!Files
<1> QED
    BY <1>1 DEF Log!Files

\* What is printed lies before the place o of the file g, and all of g up to o is.
Before(g, o) ==
    \A e \in Log!Events(printed) : \E i \in Log!Files : \E j \in DOMAIN content[i] :
        e = content[i][j] /\ (i < g \/ (i = g /\ j <= o))
Upto(g, o) == \A j \in 1 .. o : content[g][j] \in Log!Events(printed)

Prefixes ==
    \A i \in Log!Files : \A k, j \in DOMAIN content[i] :
        k < j /\ content[i][j] \in Log!Events(printed) => content[i][k] \in Log!Events(printed)

\* poll, in all its forms: what the follower has printed so far is before the
\* place it reads on from, and it reads to the end of the file.
LEMMA Reads ==
    ASSUME LogTypes, Sorted, Increasing(printed), Prefixes,
           NEW g \in Log!Files, NEW o \in 0 .. Len(content[g]), Before(g, o), Upto(g, o),
           content' = content, printed' = Read(printed, content[g], o)
    PROVE  /\ printed' \in Seq(Nat) /\ Increasing(printed)' /\ Prefixes'
           /\ Before(g, Len(content[g]))' /\ Upto(g, Len(content[g]))'
<1> DEFINE c == content[g]
           new == (o + 1) .. Len(c)
<1>1. /\ c \in Seq(Nat) /\ Len(c) \in Nat /\ DOMAIN c = 1 .. Len(c)
      /\ o \in Nat /\ g \in Nat /\ o <= Len(c)
    BY Cells
<1>2. printed \in Seq(Nat) /\ printed' = Read(printed, c, o) /\ o \in 0 .. Len(c)
    BY Zenon DEF LogTypes
<1>3. /\ \A k \in new : k \in DOMAIN c /\ k \in Nat /\ o < k
      /\ \A k \in 1 .. Len(c) : k \in 1 .. o \/ k \in new
    BY <1>1
<1> HIDE DEF c
<1>4. printed' \in Seq(Nat)
    BY <1>1, <1>2, ReadOn
<1>5. \A e : e \in Log!Events(printed') <=> e \in Log!Events(printed) \/ \E k \in new : e = c[k]
    BY <1>1, <1>2, ReadEvents
<1> HIDE DEF new
<1>6. Upto(g, Len(content[g]))'
    BY Zenon, <1>3, <1>5 DEF Upto, c
<1>7. Before(g, Len(content[g]))'
    <2>1. ASSUME NEW e \in Log!Events(printed)
          PROVE  \E i \in Log!Files : \E j \in DOMAIN content[i] :
                    e = content[i][j] /\ (i < g \/ (i = g /\ j <= Len(c)))
        <3>1. PICK i \in Log!Files : \E j \in DOMAIN content[i] :
                  e = content[i][j] /\ (i < g \/ (i = g /\ j <= o))
            BY Zenon DEF Before
        <3>2. PICK j \in DOMAIN content[i] : e = content[i][j] /\ (i < g \/ (i = g /\ j <= o))
            BY Zenon, <3>1
        <3>3. i = g => j <= Len(c)
            BY <1>1 DEF c
        <3> QED
            BY Zenon, <3>2, <3>3
    <2>2. ASSUME NEW k \in new
          PROVE  \E i \in Log!Files : \E j \in DOMAIN content[i] :
                    c[k] = content[i][j] /\ (i < g \/ (i = g /\ j <= Len(c)))
        <3>1. k \in DOMAIN content[g] /\ k <= Len(c) /\ c[k] = content[g][k]
            BY <1>1, <1>3 DEF c
        <3> QED
            BY Zenon, <3>1
    <2>3. Log!Files' = Log!Files
        BY Zenon DEF Log!Files
    <2> QED
        BY <1>5, <2>1, <2>2, <2>3 DEF Before, c
<1>8. Increasing(printed')
    <2>1. Increasing(c)
        BY Zenon DEF Sorted, Increasing, c
    <2>2. ASSUME NEW x \in DOMAIN printed, NEW k \in new PROVE printed[x] < c[k]
        <3>1. printed[x] \in Log!Events(printed)
            BY Zenon DEF Log!Events
        <3>5. PICK i \in Log!Files : \E j \in DOMAIN content[i] :
                  printed[x] = content[i][j] /\ (i < g \/ (i = g /\ j <= o))
            BY Zenon, <3>1 DEF Before
        <3>2. PICK j \in DOMAIN content[i] : printed[x] = content[i][j] /\ (i < g \/ (i = g /\ j <= o))
            BY Zenon, <3>5
        <3>3. k \in DOMAIN content[g] /\ o < k /\ k \in Nat
            BY Zenon, <1>3 DEF c
        <3>6. j \in Nat
            BY Cells
        <3>4. i < g \/ (i = g /\ j < k)
            BY <1>1, <3>2, <3>3, <3>6
        <3> QED
            BY Zenon, <3>2, <3>3, <3>4 DEF Sorted, c
    <2> QED
        BY Zenon, <1>1, <1>2, <2>1, <2>2, ReadSorted DEF new
<1>9. ASSUME NEW i \in Log!Files, NEW k \in DOMAIN content[i], NEW j \in DOMAIN content[i], k < j,
             content[i][j] \in Log!Events(printed')
      PROVE  content[i][k] \in Log!Events(printed')
    <2>1. CASE i = g
        BY Zenon, <1>1, <1>6, <2>1 DEF c, Upto
    <2>2. CASE i # g
        <3>1. ASSUME NEW m \in new PROVE content[i][j] # c[m]
            <4>1. m \in DOMAIN content[g] /\ i \in Nat
                BY Zenon, <1>3, Cells DEF c
            <4>2. i < g \/ g < i
                BY <1>1, <2>2, <4>1
            <4>3. content[i][j] < content[g][m] \/ content[g][m] < content[i][j]
                BY Zenon, <4>1, <4>2 DEF Sorted
            <4>4. content[i][j] \in Nat
                BY Zenon, Cells
            <4> QED
                BY <4>3, <4>4 DEF c
        <3>2. content[i][j] \in Log!Events(printed)
            BY Zenon, <1>5, <1>9, <3>1
        <3>3. content[i][k] \in Log!Events(printed)
            BY Zenon, <1>9, <3>2 DEF Prefixes
        <3> QED
            BY Zenon, <1>5, <3>3
    <2> QED
        BY Zenon, <2>1, <2>2
<1>10. Prefixes'
    <2>1. Log!Files' = Log!Files
        BY Zenon DEF Log!Files
    <2> QED
        BY Zenon, <1>9, <2>1 DEF Prefixes
<1> QED
    BY Zenon, <1>4, <1>6, <1>7, <1>8, <1>10 DEF Increasing

LEMMA LogInit == Log!Init => LogInv
BY DEF Log!Init, LogInv, LogTypes, Sorted, Unwritten, Printed, Follower, Log!FollowerInOrder,
   Log!Files, Log!Events

\* A step of the writer keeps every event where it is, and adds none that the
\* follower has printed already.
Grows ==
    /\ \A i \in Log!Files : i \in Log!Files' /\ \A j \in DOMAIN content[i] :
           j \in DOMAIN content'[i] /\ content'[i][j] = content[i][j]
    /\ \A i \in Log!Files' : \A j \in DOMAIN content'[i] :
           content'[i][j] \in Log!Events(printed) => i \in Log!Files /\ j \in DOMAIN content[i]

Moves == path' = path \/ path' = 0 \/ (path = 0 /\ \A i \in Log!Files : i < path')

LEMMA WriterMoves ==
    ASSUME LogInv, LogTypes', Grows, Moves, UNCHANGED Log!reader
    PROVE  Printed' /\ Follower' /\ Log!FollowerInOrder'
<1> USE DEF Log!reader
<1>1. Printed'
    <2> SUFFICES ASSUME NEW e \in Log!Events(printed)
                 PROVE  \E i \in Log!Files' : \E j \in DOMAIN content'[i] :
                            e = content'[i][j] /\ Behind(i, j)'
        BY Zenon DEF Printed
    <2>1. PICK i \in Log!Files : \E j \in DOMAIN content[i] : e = content[i][j] /\ Behind(i, j)
        BY Zenon DEF LogInv, Printed
    <2>2. PICK j \in DOMAIN content[i] : e = content[i][j] /\ Behind(i, j)
        BY Zenon, <2>1
    <2>3. Behind(i, j)'
        BY Zenon, <2>2 DEF Behind, Moves
    <2>4. i \in Log!Files' /\ j \in DOMAIN content'[i] /\ e = content'[i][j]
        BY Zenon, <2>2 DEF Grows
    <2> QED
        BY Zenon, <2>3, <2>4
<1>2. Follower'
    <2>1. fpc = "readOld" => path' = 0 \/ f < path'
        <3>1. f # 0 => f \in Log!Files
            BY DEF LogInv, LogTypes, Log!Files
        <3> QED
            BY <3>1 DEF LogInv, Follower, Moves
    <2>2. ASSUME fpc \in {"poll", "reopen", "first"}, f # 0
          PROVE  /\ offset <= Len(content'[f])
                 /\ \A j \in 1 .. offset : content'[f][j] \in Log!Events(printed)
        <3>0. f \in Log!Files /\ offset \in Nat
            BY <2>2 DEF LogInv, LogTypes, Log!Files
        <3>1. /\ f \in Log!Files /\ offset \in Nat /\ offset <= Len(content[f])
              /\ \A j \in 1 .. offset : content[f][j] \in Log!Events(printed)
            BY <2>2, <3>0, Zenon DEF LogInv, Follower
        <3>2. DOMAIN content[f] = 1 .. Len(content[f]) /\ Len(content[f]) \in Nat
            BY Zenon, <3>1, Cells DEF LogInv
        <3>3. f \in Log!Files' /\ \A j \in DOMAIN content[f] :
                  j \in DOMAIN content'[f] /\ content'[f][j] = content[f][j]
            BY Zenon, <3>1 DEF Grows
        <3>4. DOMAIN content'[f] = 1 .. Len(content'[f]) /\ Len(content'[f]) \in Nat
            <4>1. content'[f] \in Seq(Nat)
                BY <3>3 DEF LogTypes, Log!Files
            <4> QED
                BY <4>1
        <3>5. \A j \in 1 .. offset : j \in DOMAIN content[f]
            BY <3>1, <3>2
        <3>6. offset <= Len(content'[f])
            <4>1. offset = 0 \/ offset \in DOMAIN content'[f]
                BY <3>1, <3>2, <3>3
            <4> QED
                BY <3>1, <3>4, <4>1
        <3> QED
            BY Zenon, <3>1, <3>3, <3>5, <3>6
    <2> QED
        BY Zenon, <2>1, <2>2 DEF LogInv, Follower
<1>3. Log!FollowerInOrder'
    <2>1. ASSUME NEW i \in Log!Files', NEW k \in DOMAIN content'[i], NEW j \in DOMAIN content'[i],
                 k < j, content'[i][j] \in Log!Events(printed)
          PROVE  content'[i][k] \in Log!Events(printed)
        <3>1. i \in Log!Files /\ j \in DOMAIN content[i]
            BY Zenon, <2>1 DEF Grows
        <3>2. content'[i] \in Seq(Nat)
            BY DEF LogTypes, Log!Files
        <3>3. k \in DOMAIN content[i]
            BY <2>1, <3>1, <3>2, Cells DEF LogInv
        <3>4. content'[i][j] = content[i][j] /\ content'[i][k] = content[i][k]
            BY Zenon, <3>1, <3>3 DEF Grows
        <3> QED
            BY Zenon, <2>1, <3>1, <3>3, <3>4 DEF LogInv, Log!FollowerInOrder
    <2> QED
        BY Zenon, <2>1 DEF LogInv, Log!FollowerInOrder
<1> QED
    BY Zenon, <1>1, <1>2, <1>3

\* What a step of the follower leaves alone.
LEMMA FilesRest ==
    ASSUME LogInv, UNCHANGED <<Log!dir, Log!writer>>
    PROVE  /\ Sorted' /\ Unwritten' /\ Log!Files' = Log!Files
           /\ printed' = printed => Log!FollowerInOrder'
<1>1. UNCHANGED <<content, event, wpc>> /\ Log!Files' = Log!Files
    BY Zenon DEF Log!dir, Log!writer, Log!Files
<1>2. Sorted'
    BY <1>1 DEF LogInv, Sorted
<1>3. Unwritten'
    BY Zenon, <1>1 DEF LogInv, Unwritten
<1>4. printed' = printed => Log!FollowerInOrder'
    BY Zenon, <1>1 DEF LogInv, Log!FollowerInOrder
<1> QED
    BY Zenon, <1>1, <1>2, <1>3, <1>4

\* Write up to and after the event: no file changes.
LEMMA WriterRests ==
    ASSUME LogInv, content' = content, UNCHANGED Log!reader,
           Log!Begin \/ Log!CheckSize \/ Log!Rename \/ Log!Fail \/ Log!Close
    PROVE  LogInv'
<1>1. LogTypes'
    <2> USE DEF LogInv, LogTypes, Log!reader, Log!dir
    <2>1. CASE Log!Begin
        BY <2>1 DEF Log!Begin
    <2>2. CASE Log!CheckSize
        BY Zenon, <2>2 DEF Log!CheckSize
    <2>3. CASE Log!Rename
        BY <2>3 DEF Log!Rename
    <2>4. CASE Log!Fail \/ Log!Close
        BY Zenon, <2>4 DEF Log!Fail, Log!Close
    <2> QED
        BY Zenon, <2>1, <2>2, <2>3, <2>4
<1>2. Sorted' /\ Log!Files' = Log!Files
    BY DEF LogInv, Sorted, Log!Files
<1>3. Unwritten'
    <2> SUFFICES ASSUME NEW i \in Log!Files, NEW j \in DOMAIN content[i]
                 PROVE  content[i][j] <= event' /\ (wpc' # "idle" => content[i][j] < event')
        BY Zenon, <1>2 DEF Unwritten
    <2>1. content[i][j] \in Nat /\ event \in Nat
        BY Zenon, Cells DEF LogInv, LogTypes
    <2>2. content[i][j] <= event /\ (wpc # "idle" => content[i][j] < event)
        BY Zenon DEF LogInv, Unwritten
    <2>3. event' = event + 1 \/ (event' = event /\ (wpc' = "idle" \/ wpc # "idle"))
        BY Zenon DEF Log!Begin, Log!CheckSize, Log!Rename, Log!Fail, Log!Close
    <2> QED
        BY <2>1, <2>2, <2>3
<1>4. Grows
    BY Zenon, <1>2 DEF Grows
<1>5. Moves
    BY Zenon DEF Moves, Log!dir, Log!Begin, Log!CheckSize, Log!Rename, Log!Fail, Log!Close
<1>6. Printed' /\ Follower' /\ Log!FollowerInOrder'
    BY Zenon, <1>1, <1>4, <1>5, WriterMoves
<1> QED
    BY Zenon, <1>1, <1>2, <1>3, <1>6 DEF LogInv

\* open makes a file: empty, and newer than all others.
LEMMA WriterOpens ==
    ASSUME LogInv, Log!Open PROVE LogInv'
<1>1. UNCHANGED Log!reader /\ event' = event /\ wpc = "open" /\ wpc' = "size"
    BY Zenon DEF Log!Open
<1>2. CASE path # 0 /\ wf' = path /\ UNCHANGED Log!dir
    <2>1. LogTypes'
        BY Zenon, <1>1, <1>2 DEF LogInv, LogTypes, Log!reader, Log!dir
    <2>2. Sorted' /\ Grows /\ Moves
        BY <1>1, <1>2 DEF LogInv, Sorted, Grows, Moves, Log!Files, Log!dir
    <2>3. Unwritten'
        BY Zenon, <1>1, <1>2 DEF LogInv, Unwritten, Log!Files, Log!dir
    <2> QED
        BY Zenon, <1>1, <2>1, <2>2, <2>3, WriterMoves DEF LogInv
<1>3. CASE /\ path = 0 /\ content' = Append(content, <<>>)
           /\ path' = Len(content') /\ wf' = path' /\ UNCHANGED old
    <2> DEFINE top == Len(content) + 1
    <2>1. /\ content \in Seq(Seq(Nat)) /\ Len(content) \in Nat /\ <<>> \in Seq(Nat)
        BY DEF LogInv, LogTypes
    <2>2. /\ content' \in Seq(Seq(Nat)) /\ Len(content') = top
          /\ content'[top] = <<>> /\ \A i \in 1 .. Len(content) : content'[i] = content[i]
        BY <1>3, <2>1
    <2>3. /\ \A i \in Log!Files' : i \in Log!Files \/ i = top
          /\ \A i \in Log!Files : i \in Log!Files' /\ content'[i] = content[i]
          /\ DOMAIN content'[top] = {} /\ \A i \in Log!Files : i < path'
        BY <1>3, <2>1, <2>2 DEF Log!Files
    <2>4. LogTypes'
        BY <1>1, <1>3, <2>1, <2>2 DEF LogInv, LogTypes, Log!reader
    <2> HIDE DEF top
    <2>5. Sorted'
        BY Zenon, <2>3 DEF LogInv, Sorted
    <2>6. Unwritten'
        BY Zenon, <1>1, <2>3 DEF LogInv, Unwritten
    <2>7. Grows /\ Moves
        BY Zenon, <1>3, <2>3 DEF Grows, Moves
    <2> QED
        BY Zenon, <1>1, <2>4, <2>5, <2>6, <2>7, WriterMoves DEF LogInv
<1> QED
    BY Zenon, <1>2, <1>3 DEF Log!Open

\* The event goes to the end of the newest file.
LEMMA WriterAppends ==
    ASSUME LogInv, Log!AppendEvent PROVE LogInv'
<1>1. /\ UNCHANGED Log!reader /\ event' = event /\ path' = path /\ old' = old /\ wf' = wf
      /\ wpc = "append" /\ wpc' = "idle" /\ content' = [content EXCEPT ![wf] = Append(@, event)]
    BY Zenon DEF Log!AppendEvent
<1>2. /\ content \in Seq(Seq(Nat)) /\ Len(content) \in Nat /\ event \in Nat
      /\ wf \in Log!Files /\ wf = Len(content) /\ content[wf] \in Seq(Nat)
    BY <1>1 DEF LogInv, LogTypes, Log!Files
<1> DEFINE c == content[wf]
           end == Len(c) + 1
<1>3. /\ Append(c, event) \in Seq(Nat) /\ Len(Append(c, event)) = end /\ Append(c, event)[end] = event
      /\ DOMAIN c = 1 .. Len(c) /\ Len(c) \in Nat /\ DOMAIN Append(c, event) = 1 .. end
      /\ \A j \in 1 .. Len(c) : Append(c, event)[j] = c[j]
    BY <1>2
<1>4. /\ content' \in Seq(Seq(Nat)) /\ Len(content') = Len(content)
      /\ content'[wf] = Append(c, event) /\ \A i \in Log!Files : i # wf => content'[i] = content[i]
    <2> HIDE DEF c, end
    <2> QED
        BY <1>1, <1>2, <1>3 DEF Log!Files, c
<1>5. /\ Log!Files' = Log!Files
      /\ \A i \in Log!Files : i \in Nat /\ (i = wf \/ i < wf)
    BY <1>2, <1>4 DEF Log!Files
<1>6. \A i \in Log!Files : \A j \in DOMAIN content'[i] :
          \/ j \in DOMAIN content[i] /\ content'[i][j] = content[i][j] /\ content[i][j] < event
          \/ i = wf /\ j = end /\ content'[i][j] = event
    <2>1. \A j \in 1 .. end : j \in 1 .. Len(c) \/ j = end
        BY <1>3
    <2>2. \A i \in Log!Files : \A j \in DOMAIN content[i] : content[i][j] < event
        BY Zenon, <1>1 DEF LogInv, Unwritten
    <2> HIDE DEF end
    <2>3. \A j \in DOMAIN content'[wf] :
              \/ (j \in DOMAIN content[wf] /\ content'[wf][j] = content[wf][j])
              \/ (j = end /\ content'[wf][j] = event)
        BY Zenon, <1>3, <1>4, <2>1
    <2> HIDE DEF c
    <2> QED
        BY Zenon, <1>4, <2>2, <2>3
<1>7. \A i \in Log!Files : \A j \in DOMAIN content[i] :
          j \in DOMAIN content'[i] /\ content'[i][j] = content[i][j]
    <2>1. \A j \in DOMAIN content[wf] : j \in DOMAIN content'[wf] /\ content'[wf][j] = content[wf][j]
        BY <1>3, <1>4
    <2> HIDE DEF c, end
    <2> QED
        BY Zenon, <1>4, <2>1
<1>8. \A j \in DOMAIN c : j < end /\ ~(end < j)
    BY <1>3
<1>9. end \in Nat /\ ~(end < end)
    BY <1>3
<1> HIDE DEF c, end
<1>10. LogTypes'
    BY Zenon, <1>1, <1>2, <1>4 DEF LogInv, LogTypes, Log!reader
<1>11. Sorted'
    <2> SUFFICES ASSUME NEW i \in Log!Files, NEW g \in Log!Files,
                        NEW j \in DOMAIN content'[i], NEW k \in DOMAIN content'[g],
                        i < g \/ (i = g /\ j < k)
                 PROVE  content'[i][j] < content'[g][k]
        BY Zenon, <1>5 DEF Sorted
    <2>1. CASE j \in DOMAIN content[i] /\ k \in DOMAIN content[g]
        BY Zenon, <1>7, <2>1 DEF LogInv, Sorted
    <2>2. CASE k \notin DOMAIN content[g] /\ j \in DOMAIN content[i]
        BY Zenon, <1>6, <2>2
    <2>3. CASE j \notin DOMAIN content[i]
        <3>1. i = wf /\ j = end
            BY Zenon, <1>6, <2>3
        <3>2. g = wf /\ j < k
            BY <1>2, <1>5, <3>1
        <3>3. k \in DOMAIN c \/ k = end
            BY Zenon, <1>6, <3>2 DEF c
        <3> QED
            BY Zenon, <1>8, <1>9, <3>1, <3>2, <3>3
    <2> QED
        BY Zenon, <2>1, <2>2, <2>3
<1>12. Unwritten'
    BY <1>1, <1>2, <1>5, <1>6, Cells DEF LogInv, Unwritten
<1>13. Grows
    <2>1. event \notin Log!Events(printed)
        <3>1. \A i \in Log!Files : \A j \in DOMAIN content[i] : content[i][j] < event
            BY Zenon, <1>1 DEF LogInv, Unwritten
        <3>2. \A i \in Log!Files : \A j \in DOMAIN content[i] : content[i][j] # event
            BY <1>2, <3>1
        <3> QED
            BY Zenon, <3>2 DEF LogInv, Printed
    <2> QED
        BY <1>5, <1>6, <1>7, <2>1 DEF Grows
<1> QED
    BY Zenon, <1>1, <1>10, <1>11, <1>12, <1>13, WriterMoves DEF LogInv, Moves

\* What the follower's place says of the printed events, in terms of Before and
\* Upto: it reads a file on, or turns to a newer one.
LEMMA Placed ==
    ASSUME LogInv, f # 0, fpc \in {"poll", "first"}
    PROVE  f \in Log!Files /\ offset \in 0 .. Len(content[f]) /\ Before(f, offset) /\ Upto(f, offset)
<1>1. f \in Log!Files
    BY DEF LogInv, LogTypes, Log!Files
<1>2. Len(content[f]) \in Nat
    BY Zenon, <1>1, Cells DEF LogInv
<1>3. offset \in 0 .. Len(content[f]) /\ Upto(f, offset)
    BY <1>2 DEF LogInv, LogTypes, Follower, Upto
<1>4. Before(f, offset)
    BY Zenon DEF LogInv, Printed, Behind, Before
<1> QED
    BY Zenon, <1>1, <1>3, <1>4

LEMMA InOrder == Log!FollowerInOrder <=> Increasing(printed) /\ Prefixes
BY Zenon DEF Log!FollowerInOrder, Increasing, Prefixes

\* poll: the rest of the open file is printed.
LEMMA FollowerReads ==
    ASSUME LogInv, f # 0, fpc \in {"poll", "first"}, fpc' \in {"poll", "reopen"},
           UNCHANGED <<Log!dir, Log!writer, f>>,
           printed' = Read(printed, content[f], offset), offset' = Len(content[f])
    PROVE  LogInv'
<1>1. f \in Log!Files /\ offset \in 0 .. Len(content[f]) /\ Before(f, offset) /\ Upto(f, offset)
    BY Zenon, Placed
<1>2. content' = content /\ Increasing(printed) /\ Prefixes /\ LogTypes /\ Sorted
    BY Zenon, InOrder DEF LogInv, Log!dir
<1>3. /\ printed' \in Seq(Nat) /\ Increasing(printed)' /\ Prefixes'
      /\ Before(f, Len(content[f]))' /\ Upto(f, Len(content[f]))'
    BY Zenon, <1>1, <1>2, Reads
<1>4. Len(content[f]) \in Nat
    BY Zenon, <1>1, <1>2, Cells
<1>5. LogTypes'
    BY Zenon, <1>2, <1>3, <1>4 DEF LogTypes, Log!dir, Log!writer
<1>6. Sorted' /\ Unwritten'
    BY Zenon, FilesRest
<1>7. Printed'
    BY <1>2, <1>3 DEF Printed, Before, Behind
<1>8. Follower'
    BY <1>2, <1>3, <1>4 DEF Follower, Upto
<1>9. Log!FollowerInOrder'
    BY Zenon, <1>3 DEF Log!FollowerInOrder, Increasing, Prefixes
<1> QED
    BY Zenon, <1>5, <1>6, <1>7, <1>8, <1>9 DEF LogInv

\* The first follower prints path.1 and closes it.
LEMMA FollowerReadsOld ==
    ASSUME LogInv, fpc = "readOld", fpc' = "reopen", f' = 0,
           UNCHANGED <<Log!dir, Log!writer, offset>>, printed' = Read(printed, content[f], 0)
    PROVE  LogInv'
<1>1. f # 0 /\ (path = 0 \/ f < path) /\ printed = <<>>
    BY Zenon DEF LogInv, Follower
<1>2. f \in Log!Files
    BY <1>1 DEF LogInv, LogTypes, Log!Files
<1>3. content' = content /\ Increasing(printed) /\ Prefixes /\ LogTypes /\ Sorted
    BY Zenon, InOrder DEF LogInv, Log!dir
<1>4. Len(content[f]) \in Nat
    BY Zenon, <1>2, <1>3, Cells
<1>5. 0 \in 0 .. Len(content[f]) /\ Before(f, 0) /\ Upto(f, 0)
    BY <1>1, <1>4 DEF Before, Upto, Log!Events
<1>6. PICK g \in Log!Files : g = f
    BY Zenon, <1>2
<1>7. /\ printed' \in Seq(Nat) /\ Increasing(printed)' /\ Prefixes' /\ Before(g, Len(content[g]))'
    <2>1. /\ 0 \in 0 .. Len(content[g]) /\ Before(g, 0) /\ Upto(g, 0)
          /\ printed' = Read(printed, content[g], 0)
        BY Zenon, <1>5, <1>6
    <2> QED
        BY Zenon, <1>3, <2>1, Reads
<1>8. LogTypes'
    BY <1>3, <1>7 DEF LogTypes, Log!dir, Log!writer
<1>9. Sorted' /\ Unwritten'
    BY Zenon, FilesRest
<1>10. Printed'
    <2> SUFFICES ASSUME NEW e \in Log!Events(printed')
                 PROVE  \E i \in Log!Files' : \E j \in DOMAIN content'[i] :
                            e = content'[i][j] /\ Behind(i, j)'
        BY Zenon DEF Printed
    <2>1. PICK i \in Log!Files' : \E j \in DOMAIN content'[i] : e = content'[i][j] /\ i <= g
        <3>1. g \in Nat /\ \A i \in Log!Files' : i \in Nat
            BY DEF Log!Files
        <3> QED
            BY <1>7, <3>1 DEF Before
    <2>2. i \in Nat /\ g \in Nat /\ path \in Nat
        BY <1>3 DEF Log!Files, LogTypes
    <2>3. path' = path /\ (path = 0 \/ i < path)
        BY <1>1, <1>6, <2>1, <2>2 DEF Log!dir
    <2> QED
        BY Zenon, <2>1, <2>3 DEF Behind
<1>11. Follower'
    BY Zenon DEF Follower
<1>12. Log!FollowerInOrder'
    BY Zenon, <1>7 DEF Log!FollowerInOrder, Increasing, Prefixes
<1> QED
    BY Zenon, <1>8, <1>9, <1>10, <1>11, <1>12 DEF LogInv

\* The name is looked up: path.1 at the start, then path again and again.
LEMMA FollowerOpens ==
    ASSUME LogInv, Log!OpenOld \/ Log!Reopen PROVE LogInv'
<1>1. UNCHANGED <<Log!dir, Log!writer, printed>> /\ fpc \in {"old", "reopen"}
    BY Zenon DEF Log!OpenOld, Log!Reopen
<1>2. Sorted' /\ Unwritten' /\ Log!FollowerInOrder' /\ Log!Files' = Log!Files
    BY Zenon, <1>1, FilesRest
<1>3. LogTypes'
    BY <1>1 DEF LogInv, LogTypes, Log!dir, Log!writer, Log!OpenOld, Log!Reopen
<1>4. CASE Log!OpenOld
    <2>1. printed = <<>> /\ Log!Events(printed) = {} /\ f' = old
        BY <1>4 DEF LogInv, Follower, Log!OpenOld, Log!Events
    <2>2. Printed'
        BY Zenon, <1>1, <2>1 DEF Printed
    <2>3. Follower'
        BY Zenon, <1>1, <1>4, <2>1 DEF LogInv, LogTypes, Follower, Log!dir, Log!OpenOld
    <2> QED
        BY Zenon, <1>2, <1>3, <2>2, <2>3 DEF LogInv
<1>5. CASE Log!Reopen /\ path \in {0, f}
    <2>1. f' = f /\ offset' = offset /\ fpc' = "poll" /\ fpc = "reopen"
        BY Zenon, <1>5 DEF Log!Reopen
    <2>2. Printed'
        BY Zenon, <1>1, <2>1 DEF LogInv, Printed, Behind, Log!Files, Log!dir
    <2>3. Follower'
        BY Zenon, <1>1, <2>1 DEF LogInv, Follower, Log!dir
    <2> QED
        BY Zenon, <1>2, <1>3, <2>2, <2>3 DEF LogInv
<1>6. CASE Log!Reopen /\ path \notin {0, f}
    <2>1. f' = path /\ offset' = 0 /\ fpc' = "first" /\ path # 0
        BY Zenon, <1>6 DEF Log!Reopen
    <2>2. Printed'
        <3>1. ASSUME NEW i \in Log!Files, NEW j \in DOMAIN content[i], Behind(i, j)
              PROVE  Behind(i, j)'
            <4>1. i \in Nat /\ f \in Nat /\ path \in Nat /\ f <= path
                BY <1>6 DEF LogInv, LogTypes, Log!Files
            <4>2. i < path
                BY <1>6, <3>1, <4>1 DEF Behind
            <4> QED
                BY Zenon, <2>1, <4>2 DEF Behind
        <3> QED
            BY Zenon, <1>1, <1>2, <3>1 DEF LogInv, Printed, Log!dir
    <2>3. Follower'
        <3>1. Len(content'[f']) \in Nat
            <4>1. path \in Log!Files
                BY <1>6 DEF LogInv, LogTypes, Log!Files
            <4> QED
                BY Zenon, <1>1, <2>1, <4>1, Cells DEF LogInv, Log!dir
        <3> QED
            BY <1>1, <2>1, <3>1 DEF Follower, Log!dir
    <2> QED
        BY Zenon, <1>2, <1>3, <2>2, <2>3 DEF LogInv
<1> QED
    BY Zenon, <1>4, <1>5, <1>6

LEMMA LogStep == LogInv /\ [Log!Next]_(Log!vars) => LogInv'
<1> SUFFICES ASSUME LogInv, [Log!Next]_(Log!vars) PROVE LogInv'
    BY Zenon
<1>1. CASE Log!Begin \/ Log!CheckSize \/ Log!Rename \/ Log!Fail \/ Log!Close
    <2>1. content' = content /\ UNCHANGED Log!reader
        BY Zenon, <1>1 DEF Log!Begin, Log!CheckSize, Log!Rename, Log!Fail, Log!Close, Log!dir
    <2> QED
        BY Zenon, <1>1, <2>1, WriterRests
<1>2. CASE Log!Open
    BY Zenon, <1>2, WriterOpens
<1>3. CASE Log!AppendEvent
    BY Zenon, <1>3, WriterAppends
<1>4. CASE Log!OpenOld \/ Log!Reopen
    BY Zenon, <1>4, FollowerOpens
<1>5. ASSUME f # 0, NEW o \in 0 .. Len(content[f])
      PROVE  printed \o Log!Lines(f, o) = Read(printed, content[f], o)
    <2>1. f \in Log!Files
        BY <1>5 DEF LogInv, LogTypes, Log!Files
    <2>2. Len(content[f]) \in Nat
        BY Zenon, <2>1, Cells DEF LogInv
    <2>3. ~(Len(content[f]) < o)
        BY <2>2
    <2>4. Log!Lines(f, o) = SubSeq(content[f], o + 1, Len(content[f]))
        BY <2>3, Zenon DEF Log!Lines
    <2> QED
        BY <2>4, Zenon DEF Read
<1>6. ASSUME f # 0 PROVE 0 \in 0 .. Len(content[f])
    <2>1. f \in Log!Files
        BY <1>6 DEF LogInv, LogTypes, Log!Files
    <2>2. Len(content[f]) \in Nat
        BY Zenon, <2>1, Cells DEF LogInv
    <2> QED
        BY <2>2
<1>7. CASE Log!ReadOld
    <2>1. f # 0
        BY Zenon, <1>7 DEF Log!ReadOld, LogInv, Follower
    <2>2. printed' = Read(printed, content[f], 0)
        BY Zenon, <1>5, <1>6, <1>7, <2>1 DEF Log!ReadOld
    <2> QED
        BY Zenon, <1>7, <2>2, FollowerReadsOld DEF Log!ReadOld
<1>8. CASE Log!Poll /\ f = 0
    <2>1. UNCHANGED <<Log!dir, Log!writer, f, printed, offset>> /\ fpc = "poll" /\ fpc' = "reopen"
        BY Zenon, <1>8 DEF Log!Poll
    <2>2. Sorted' /\ Unwritten' /\ Log!FollowerInOrder'
        BY Zenon, <2>1, FilesRest
    <2>4. LogTypes'
        BY Zenon, <2>1 DEF LogInv, LogTypes, Log!dir, Log!writer
    <2>3. Printed' /\ Follower'
        BY Zenon, <1>8, <2>1 DEF LogInv, Printed, Behind, Follower, Log!Files, Log!dir
    <2> QED
        BY Zenon, <2>2, <2>3, <2>4 DEF LogInv
<1>9. CASE Log!Poll /\ f # 0
    <2>1. offset \in 0 .. Len(content[f])
        BY Zenon, <1>9, Placed DEF Log!Poll
    <2>2. printed' = Read(printed, content[f], offset) /\ offset' = Len(content[f])
        BY Zenon, <1>5, <1>9, <2>1 DEF Log!Poll
    <2> QED
        BY Zenon, <1>9, <2>2, FollowerReads DEF Log!Poll
<1>10. CASE Log!ReadFirst
    <2>1. f # 0 /\ offset = 0
        BY Zenon, <1>10 DEF Log!ReadFirst, LogInv, Follower
    <2>2. printed' = Read(printed, content[f], offset) /\ offset' = Len(content[f])
        BY Zenon, <1>5, <1>6, <1>10, <2>1 DEF Log!ReadFirst
    <2> QED
        BY Zenon, <1>10, <2>1, <2>2, FollowerReads DEF Log!ReadFirst
<1>11. CASE UNCHANGED Log!vars
    <2>1. UNCHANGED <<Log!dir, Log!writer, Log!reader>>
        BY Zenon, <1>11 DEF Log!vars
    <2>2. LogTypes'
        BY <2>1, Zenon DEF LogInv, LogTypes, Log!dir, Log!writer, Log!reader
    <2>3. Sorted' /\ Unwritten' /\ Log!FollowerInOrder'
        BY Zenon, <2>1, FilesRest DEF Log!reader
    <2>4. Printed' /\ Follower'
        BY <2>1, Zenon DEF LogInv, Printed, Behind, Follower, Log!Files, Log!dir, Log!reader
    <2> QED
        BY Zenon, <2>2, <2>3, <2>4 DEF LogInv
<1> QED
    BY Zenon, <1>1, <1>2, <1>3, <1>4, <1>7, <1>8, <1>9, <1>10, <1>11 DEF Log!Next

\* tailLog: whatever rotations, failed rotations and restarts of the broker fall
\* between the steps of poll, the events are printed in the order of the Writes,
\* none twice, and of every file a prefix.
THEOREM FollowerAlwaysInOrder == Log!Spec => []FollowerInOrder
<1>1. LogInv => FollowerInOrder
    BY Zenon DEF LogInv, FollowerInOrder
<1> QED
    BY <1>1, LogInit, LogStep, PTL DEF Log!Spec
==============================================================================
