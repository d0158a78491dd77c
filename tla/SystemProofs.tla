------------------------------- MODULE SystemProofs -------------------------------
(***************************************************************************)
(* The commands of a user are run in the order they were issued, the count *)
(* of active commands covers the outstanding ones, and a DUMPLOG comes     *)
(* after the commands before it: for any number of commands, workers and   *)
(* faults, and any bounds on the buffers.                                  *)
(***************************************************************************)
EXTENDS SystemTypes, SumsAndRows

-----------------------------------------------------------------------------
(***************************************************************************)
(* The way of the commands to a worker is a row: what has been run, what   *)
(* the worker holds, its queue, the buffers of the manager, its queue.     *)
(***************************************************************************)
OneOf(x) == IF x = None THEN << >> ELSE <<x>>

Seconds(s) == [i \in DOMAIN s |-> s[i][2]]

Places == 1..10

Line(w) ==
    [k \in Places |->
        IF k = 1 THEN ran ELSE
        IF k = 2 THEN batch[w] ELSE
        IF k = 3 THEN buffer[w] ELSE
        IF k = 4 THEN OneOf(incoming[w]) ELSE
        IF k = 5 THEN OneOf(unacked[w]) ELSE
        IF k = 6 THEN queue[w] ELSE
        IF k = 7 THEN Seconds(publish_buffer) ELSE
        IF k = 8 THEN send_buffer ELSE
        IF k = 9 THEN communication ELSE queue["frontend"]]

(***************************************************************************)
(* The commands that only this worker runs, and the order they keep on     *)
(* their way.  A DUMPLOG and the commands of other workers, which are in   *)
(* the manager's buffers as well, may stand anywhere.                      *)
(***************************************************************************)
Mine(w) == {c \in Commands \ Dumplogs : WorkerOf[c] = w}

NotAfter(w) ==
    {p \in Commands \X Commands :
        p[1] \in Mine(w) /\ p[2] \in Mine(w) => Position(p[1]) <= Position(p[2])}

(***************************************************************************)
(* What has been published may be anywhere, but a worker only gets its own *)
(* commands and DUMPLOGs.                                                  *)
(***************************************************************************)
Allowed(w) ==
    [k \in Places |-> IF k \in 2..6 THEN ToSet(submitted) \cap (Mine(w) \cup Dumplogs)
                                   ELSE ToSet(submitted)]

LineOK(w) == Arranged(Line(w), NotAfter(w), Allowed(w))

-----------------------------------------------------------------------------
(* The places of a row are numbers.                                        *)
LEMMA PlacesType == Places \in SUBSET Int
BY DEF Places

(* The names of the workers' queues are names of their own.                *)
LEMMA QueueNames ==
    /\ {"frontend", "confirm"} \subseteq Queues /\ "frontend" # "confirm"
    /\ \A w \in Workers : w \in Queues /\ w # "frontend" /\ w # "confirm"
<1>1. {"frontend", "confirm"} \subseteq Queues /\ "frontend" # "confirm"
  BY DEF Queues
<1>2. \A w \in Workers : w \in Queues
  BY DEF Queues
<1>3. "confirm" \notin Workers /\ "frontend" \notin Workers
  BY NamesAssumption
<1>. QED
  BY <1>1, <1>2, <1>3

(* The places of the row.                                                  *)
LEMMA LineAt ==
    \A w : /\ Line(w)[1] = ran /\ Line(w)[2] = batch[w]
           /\ Line(w)[3] = buffer[w] /\ Line(w)[4] = OneOf(incoming[w])
           /\ Line(w)[5] = OneOf(unacked[w]) /\ Line(w)[6] = queue[w]
           /\ Line(w)[7] = Seconds(publish_buffer) /\ Line(w)[8] = send_buffer
           /\ Line(w)[9] = communication /\ Line(w)[10] = queue["frontend"]
BY DEF Line, Places

(* So they are after a step.                                               *)
LEMMA LineAtNext ==
    \A w : /\ Line(w)'[1] = ran' /\ Line(w)'[2] = batch'[w]
           /\ Line(w)'[3] = buffer'[w] /\ Line(w)'[4] = OneOf(incoming'[w])
           /\ Line(w)'[5] = OneOf(unacked'[w]) /\ Line(w)'[6] = queue'[w]
           /\ Line(w)'[7] = Seconds(publish_buffer') /\ Line(w)'[8] = send_buffer'
           /\ Line(w)'[9] = communication' /\ Line(w)'[10] = queue'["frontend"]
BY DEF Line, OneOf, Seconds, Places

(* The commands of the publisher's buffer.                                 *)
LEMMA SecondsType ==
    ASSUME NEW s \in Seq(Workers \X Commands)
    PROVE  /\ Seconds(s) \in Seq(Commands) /\ Len(Seconds(s)) = Len(s)
           /\ \A i \in 1..Len(s) : Seconds(s)[i] = s[i][2]
<1>1. DOMAIN s = 1..Len(s) /\ Len(s) \in Nat /\ \A i \in 1..Len(s) : s[i] \in Workers \X Commands
  OBVIOUS
<1>2. Seconds(s) = [i \in 1..Len(s) |-> s[i][2]]
  BY <1>1 DEF Seconds
<1>3. \A i \in 1..Len(s) : s[i][2] \in Commands
  BY <1>1
<1>4. Seconds(s) \in [1..Len(s) -> Commands]
  BY <1>2, <1>3
<1>. QED
  BY <1>1, <1>2, <1>4

(* The row consists of sequences of commands.                              *)
LEMMA LineType == Typed => \A w \in Workers : Line(w) \in [Places -> Seq(Commands)]
<1>. SUFFICES ASSUME Typed, NEW w \in Workers
              PROVE  Line(w) \in [Places -> Seq(Commands)]
  OBVIOUS
<1>. USE DEF Typed, TypeOK, BrokerTypeOK, ManagerTypeOK, WorkerTypeOK, CommandsOnly
<1>1. Seconds(publish_buffer) \in Seq(Commands)
  BY SecondsType
<1>2. OneOf(incoming[w]) \in Seq(Commands) /\ OneOf(unacked[w]) \in Seq(Commands)
  BY DEF OneOf
<1>3. queue[w] \in Seq(Commands) /\ queue["frontend"] \in Seq(Commands)
  <2>1. w \in Queues \ {"confirm"} /\ "frontend" \in Queues \ {"confirm"}
    BY QueueNames
  <2>. QED
    BY <2>1
<1>4. /\ ran \in Seq(Commands) /\ batch[w] \in Seq(Commands) /\ buffer[w] \in Seq(Commands)
      /\ send_buffer \in Seq(Commands) /\ communication \in Seq(Commands)
  OBVIOUS
<1>. QED
  BY <1>1, <1>2, <1>3, <1>4 DEF Line

(* It does after a step.                                                   *)
LEMMA LineTypeNext ==
    Typed' => (\A w \in Workers : Line(w) \in [Places -> Seq(Commands)])'
BY LineType, PTL

(* The publisher's buffer as a sequence of commands, when it grows and     *)
(* when its head is taken.                                                 *)
LEMMA SecondsAppend ==
    ASSUME NEW s \in Seq(Workers \X Commands), NEW w \in Workers, NEW c \in Commands
    PROVE  Seconds(Append(s, <<w, c>>)) = Append(Seconds(s), c)
<1>. DEFINE a == Append(s, <<w, c>>)
            b == Append(Seconds(s), c)
<1>1. /\ a \in Seq(Workers \X Commands) /\ Len(a) = Len(s) + 1 /\ Len(s) \in Nat
      /\ \A i \in 1..Len(s) : a[i] = s[i]
      /\ a[Len(s) + 1] = <<w, c>>
  OBVIOUS
<1>2. /\ Seconds(s) \in Seq(Commands) /\ Len(Seconds(s)) = Len(s)
      /\ \A i \in 1..Len(s) : Seconds(s)[i] = s[i][2]
  BY SecondsType
<1>3. /\ b \in Seq(Commands) /\ Len(b) = Len(s) + 1
      /\ \A i \in 1..Len(s) : b[i] = s[i][2]
      /\ b[Len(s) + 1] = c
  BY <1>2, <1>1
<1>. HIDE DEF a, b
<1>4. /\ Seconds(a) \in Seq(Commands) /\ Len(Seconds(a)) = Len(s) + 1
      /\ \A i \in 1..Len(s) + 1 : Seconds(a)[i] = a[i][2]
  BY <1>1, SecondsType
<1>5. \A i \in 1..Len(s) + 1 : Seconds(a)[i] = b[i]
  BY <1>1, <1>3, <1>4
<1>. QED
  BY <1>3, <1>4, <1>5 DEF a, b

(* The second parts of a list that loses its head.                         *)
LEMMA SecondsTail ==
    ASSUME NEW s \in Seq(Workers \X Commands), s # << >>
    PROVE  /\ Seconds(s) # << >> /\ Head(Seconds(s)) = Head(s)[2]
           /\ Seconds(Tail(s)) = Tail(Seconds(s))
<1>1. /\ Tail(s) \in Seq(Workers \X Commands) /\ Len(Tail(s)) = Len(s) - 1 /\ Len(s) \in Nat \ {0}
      /\ \A i \in 1..(Len(s) - 1) : Tail(s)[i] = s[i + 1]
      /\ Head(s) = s[1]
  OBVIOUS
<1>2. /\ Seconds(s) \in Seq(Commands) /\ Len(Seconds(s)) = Len(s)
      /\ \A i \in 1..Len(s) : Seconds(s)[i] = s[i][2]
  BY SecondsType
<1>3. Seconds(s) # << >> /\ Head(Seconds(s)) = s[1][2]
  BY <1>1, <1>2
<1>4. /\ Tail(Seconds(s)) \in Seq(Commands) /\ Len(Tail(Seconds(s))) = Len(s) - 1
      /\ \A i \in 1..(Len(s) - 1) : Tail(Seconds(s))[i] = s[i + 1][2]
  BY <1>1, <1>2, <1>3
<1>. DEFINE t == Tail(s)
<1>. HIDE DEF t
<1>5. /\ Seconds(t) \in Seq(Commands) /\ Len(Seconds(t)) = Len(t)
      /\ \A i \in 1..Len(t) : Seconds(t)[i] = t[i][2]
  BY <1>1, SecondsType DEF t
<1>6. \A i \in 1..(Len(s) - 1) : Seconds(t)[i] = Tail(Seconds(s))[i]
  BY <1>1, <1>4, <1>5 DEF t
<1>7. Seconds(t) = Tail(Seconds(s))
  <2>1. Len(Seconds(t)) = Len(Tail(Seconds(s)))
    BY <1>1, <1>4, <1>5 DEF t
  <2>. QED
    BY <2>1, <1>4, <1>5, <1>6
<1>. QED
  BY <1>1, <1>3, <1>7 DEF t

-----------------------------------------------------------------------------
(***************************************************************************)
(* No command is published twice: one that is asked for has no answer yet, *)
(* and the next ones of the workload file are not among those published.   *)
(***************************************************************************)
Once == IsInjective(submitted)

NotYet ==
    /\ asking # None => answer[asking] = None
    /\ \A c \in Web \cap ToSet(submitted) : answer[c] # None \/ (asking = c /\ asked)
    /\ \A i \in 1..Len(Workload) : i > posted => Workload[i] \notin ToSet(submitted)

(* The position of a command among those published.                        *)
LEMMA PositionOf ==
    ASSUME Typed, NEW c \in ToSet(submitted)
    PROVE  Position(c) \in 1..Len(submitted) /\ submitted[Position(c)] = c
<1>1. submitted \in Seq(Commands)
  BY DEF Typed, TypeOK, FrontendTypeOK
<1>2. \E i \in DOMAIN submitted : submitted[i] = c
  BY <1>1, ToSetOf
<1>3. Position(c) \in DOMAIN submitted /\ submitted[Position(c)] = c
  BY <1>2 DEF Position
<1>. QED
  BY <1>1, <1>3

(* One that is published keeps its position, and the next one comes after. *)
LEMMA PositionsKept ==
    ASSUME Typed, Once, NEW c \in Commands, c \notin ToSet(submitted),
           submitted' = Append(submitted, c)
    PROVE  /\ Once' /\ ToSet(submitted)' = ToSet(submitted) \cup {c}
           /\ \A x \in ToSet(submitted) : Position(x)' = Position(x)
           /\ \A x \in ToSet(submitted) : Position(x) < Position(c)'
           /\ Position(c)' \in Int
<1>. DEFINE s == submitted
            t == submitted'
            n == Len(submitted)
<1>1. /\ s \in Seq(Commands) /\ t \in Seq(Commands) /\ n \in Nat
      /\ DOMAIN s = 1..n /\ DOMAIN t = 1..(n + 1)
      /\ \A i \in 1..n : t[i] = s[i]
      /\ t[n + 1] = c
  BY DEF Typed, TypeOK, FrontendTypeOK
<1>2. ToSet(s) = {s[i] : i \in 1..n} /\ ToSet(t) = ToSet(s) \cup {c}
  BY <1>1, ToSetOf, AppendToSet
<1>3. \A i \in 1..n : s[i] # c
  BY <1>2
<1>4. \A i, j \in 1..n : s[i] = s[j] => i = j
  BY <1>1 DEF Once, IsInjective
<1>5. \A i, j \in 1..(n + 1) : t[i] = t[j] => i = j
  BY <1>1, <1>3, <1>4
<1>6. \A x \in ToSet(t) : Position(x)' \in 1..(n + 1) /\ t[Position(x)'] = x
  <2>1. ASSUME NEW x \in ToSet(t) PROVE Position(x)' \in DOMAIN t /\ t[Position(x)'] = x
    <3>1. \E i \in DOMAIN t : t[i] = x
      BY <1>1, <1>2
    <3>. QED
      BY <3>1 DEF Position
  <2>. QED
    BY <2>1, <1>1
<1>7. \A x \in ToSet(s) : Position(x) \in 1..n /\ s[Position(x)] = x
  BY PositionOf
<1>8. Position(c)' = n + 1
  BY <1>1, <1>2, <1>5, <1>6
<1>9. ASSUME NEW x \in ToSet(s) PROVE Position(x)' = Position(x)
  <2>1. Position(x) \in 1..(n + 1) /\ t[Position(x)] = x
    BY <1>1, <1>7
  <2>. QED
    BY <2>1, <1>2, <1>5, <1>6
<1>10. Once'
  BY <1>1, <1>5 DEF Once, IsInjective
<1>. QED
  BY <1>1, <1>2, <1>7, <1>8, <1>9, <1>10

-----------------------------------------------------------------------------
(***************************************************************************)
(* The steps of a row, for that of a worker: nothing is published.         *)
(***************************************************************************)

(* The relation and the sets depend on what has been published only.       *)
LEMMA SameOrder ==
    ASSUME UNCHANGED submitted
    PROVE  \A w : NotAfter(w)' = NotAfter(w) /\ Allowed(w)' = Allowed(w)
BY DEF NotAfter, Allowed, Position, Mine

(* The worker's row loses elements, or nothing.                            *)
LEMMA LineParts ==
    ASSUME Typed, Typed', NEW w \in Workers, LineOK(w), UNCHANGED submitted,
           \A k \in Places : PieceOf(Line(w)'[k], Line(w)[k])
    PROVE  LineOK(w)'
<1>1. Line(w) \in [Places -> Seq(Commands)] /\ Line(w)' \in [Places -> Seq(Commands)]
  BY LineType, LineTypeNext
<1>2. Arranged(Line(w)', NotAfter(w), Allowed(w))
  BY <1>1, ArrangedParts DEF LineOK
<1>. QED
  BY <1>2, SameOrder DEF LineOK

(* The row stays as it is.                                                 *)
LEMMA LineSame ==
    ASSUME Typed, Typed', NEW w \in Workers, LineOK(w), UNCHANGED submitted,
           Besides(Line(w), Line(w)', {})
    PROVE  LineOK(w)'
<1>1. Line(w) \in [Places -> Seq(Commands)]
  BY LineType
<1>2. \A k \in Places : PieceOf(Line(w)'[k], Line(w)[k])
  BY <1>1, SamePiece DEF Besides
<1>. QED
  BY <1>2, LineParts

(* A head moves on.                                                        *)
LEMMA LineMove ==
    ASSUME Typed, Typed', NEW w \in Workers, LineOK(w), UNCHANGED submitted,
           NEW p \in Places, NEW q \in Places, MovedHead(Line(w), Line(w)', p, q),
           Head(Line(w)[q]) \in Allowed(w)[p]
    PROVE  LineOK(w)'
<1>1. Line(w) \in [Places -> Seq(Commands)] /\ Line(w)' \in [Places -> Seq(Commands)]
  BY LineType, LineTypeNext
<1>2. Arranged(Line(w)', NotAfter(w), Allowed(w))
  BY <1>1, PlacesType, ArrangedMove DEF LineOK
<1>. QED
  BY <1>2, SameOrder DEF LineOK

(* A whole sequence moves on.                                              *)
LEMMA LineMoveAll ==
    ASSUME Typed, Typed', NEW w \in Workers, LineOK(w), UNCHANGED submitted,
           NEW p \in Places, NEW q \in Places, MovedAll(Line(w), Line(w)', p, q),
           Allowed(w)[q] \subseteq Allowed(w)[p]
    PROVE  LineOK(w)'
<1>1. Line(w) \in [Places -> Seq(Commands)] /\ Line(w)' \in [Places -> Seq(Commands)]
  BY LineType, LineTypeNext
<1>2. Arranged(Line(w)', NotAfter(w), Allowed(w))
  BY <1>1, PlacesType, ArrangedMoveAll DEF LineOK
<1>. QED
  BY <1>2, SameOrder DEF LineOK

(* A command of another worker is run.                                     *)
LEMMA LineOther ==
    ASSUME Typed, Typed', NEW w \in Workers, LineOK(w), UNCHANGED submitted,
           NEW c \in Commands, c \in ToSet(submitted), c \notin Mine(w),
           Joined(Line(w), Line(w)', 1, c)
    PROVE  LineOK(w)'
<1>1. Line(w) \in [Places -> Seq(Commands)] /\ Line(w)' \in [Places -> Seq(Commands)]
  BY LineType, LineTypeNext
<1>2. c \in Allowed(w)[1] /\ 1 \in Places
  BY DEF Allowed, Places
<1>3. \A x \in Commands : <<x, c>> \in NotAfter(w) /\ <<c, x>> \in NotAfter(w)
  BY DEF NotAfter
<1>4. \A k \in Places : ToSet(Line(w)[k]) \subseteq Commands
  BY <1>1, ToSetType
<1>5. MayJoin(Line(w), NotAfter(w), 1, c)
  BY <1>1, <1>3, <1>4 DEF MayJoin
<1>6. Arranged(Line(w)', NotAfter(w), Allowed(w))
  BY <1>1, <1>2, <1>5, PlacesType, ArrangedAppend DEF LineOK
<1>. QED
  BY <1>6, SameOrder DEF LineOK

(* A command is delivered and has to be acknowledged.                      *)
LEMMA LineCopied ==
    ASSUME Typed, Typed', NEW w \in Workers, LineOK(w), UNCHANGED submitted,
           Copied(Line(w), Line(w)', 4, 5, 6)
    PROVE  LineOK(w)'
<1>1. Line(w) \in [Places -> Seq(Commands)] /\ Line(w)' \in [Places -> Seq(Commands)]
  BY LineType, LineTypeNext
<1>2. 4 \in Places /\ 5 \in Places /\ 6 \in Places
  BY DEF Places
<1>. DEFINE h == Head(Line(w)[6])
<1>3. h \in ToSet(Line(w)[6]) /\ h \in Commands
  <2>1. Line(w)[6] \in Seq(Commands) /\ Line(w)[6] # << >>
    BY <1>1, <1>2 DEF Copied
  <2>2. Sorted(Line(w)[6], NotAfter(w))
    BY <1>1, <1>2 DEF LineOK, Arranged
  <2>. QED
    BY <2>1, <2>2, TailSorted
<1>4. h \in Allowed(w)[4] \cap Allowed(w)[5]
  <2>1. h \in Allowed(w)[6]
    BY <1>1, <1>2, <1>3 DEF LineOK, Arranged
  <2>. QED
    BY <2>1, <1>2 DEF Allowed
<1>5. <<h, h>> \in NotAfter(w)
  <2>1. h \in ToSet(submitted)
    BY <1>2, <1>4 DEF Allowed
  <2>2. Position(h) <= Position(h)
    BY <2>1, PositionOf
  <2>. QED
    BY <2>2, <1>3 DEF NotAfter
<1>. DEFINE L == Line(w)
            F == Allowed(w)
            R == NotAfter(w)
<1>6. Head(L[6]) \in F[4] \cap F[5] /\ <<Head(L[6]), Head(L[6])>> \in R
  BY <1>4, <1>5
<1>. HIDE DEF h, L, F, R
<1>7. PICK p \in Places, q \in Places, r \in Places : p = 4 /\ q = 5 /\ r = 6
  BY <1>2
<1>8. /\ L \in [Places -> Seq(Commands)] /\ Line(w)' \in [Places -> Seq(Commands)]
      /\ Arranged(L, R, F) /\ Copied(L, Line(w)', p, q, r)
      /\ Head(L[r]) \in F[p] \cap F[q] /\ <<Head(L[r]), Head(L[r])>> \in R
  BY <1>1, <1>6, <1>7 DEF LineOK, L, F, R
<1>9. Arranged(Line(w)', R, F)
  BY <1>8, PlacesType, ArrangedDeliver
<1>. QED
  BY <1>9, SameOrder DEF LineOK, F, R

(* What was not acknowledged goes back to the queue, and more may be lost. *)
LEMMA LinePutBack ==
    ASSUME Typed, Typed', NEW w \in Workers, LineOK(w), UNCHANGED submitted,
           NEW M \in [Places -> Seq(Commands)], PutBack(Line(w), M, 5, 6),
           \A k \in Places : PieceOf(Line(w)'[k], M[k])
    PROVE  LineOK(w)'
<1>1. Line(w) \in [Places -> Seq(Commands)] /\ Line(w)' \in [Places -> Seq(Commands)]
  BY LineType, LineTypeNext
<1>2. 5 \in Places /\ 6 \in Places /\ Allowed(w)[5] \subseteq Allowed(w)[6]
  BY DEF Places, Allowed
<1>3. Arranged(M, NotAfter(w), Allowed(w))
  BY <1>1, <1>2, PlacesType, ArrangedBack DEF LineOK
<1>4. Arranged(Line(w)', NotAfter(w), Allowed(w))
  BY <1>1, <1>3, PlacesType, ArrangedParts
<1>. QED
  BY <1>4, SameOrder DEF LineOK

(* A command is published, and reaches the queue of the manager or not.    *)
LEMMA LineSubmits ==
    ASSUME Typed, Typed', Once, NEW w \in Workers, LineOK(w),
           NEW c \in Commands, c \notin ToSet(submitted), submitted' = Append(submitted, c),
           Besides(Line(w), Line(w)', {}) \/ Joined(Line(w), Line(w)', 10, c)
    PROVE  LineOK(w)'
<1>. DEFINE T == ToSet(submitted)
            Q == NotAfter(w)'
            G == Allowed(w)'
<1>1. Line(w) \in [Places -> Seq(Commands)] /\ Line(w)' \in [Places -> Seq(Commands)]
  BY LineType, LineTypeNext
<1>2. /\ ToSet(submitted') = T \cup {c}
      /\ \A x \in T : Position(x)' = Position(x) /\ Position(x) < Position(c)'
      /\ \A x \in T : Position(x) \in Int
      /\ Position(c)' \in Int
  BY PositionsKept, PositionOf
<1>3. \A k \in Places : Allowed(w)[k] \subseteq G[k] \cap T
  BY <1>2 DEF Allowed
<1>4. \A k, l \in Places : \A x \in Allowed(w)[k], y \in Allowed(w)[l] :
         <<x, y>> \in NotAfter(w) => <<x, y>> \in Q
  <2>1. \A x \in T, y \in T : <<x, y>> \in NotAfter(w) => <<x, y>> \in Q
    BY <1>2 DEF NotAfter, Mine
  <2>. QED
    BY <1>3, <2>1
<1>5. \A k \in Places : ToSet(Line(w)[k]) \subseteq T
  BY <1>1, <1>3 DEF LineOK, Arranged
<1>6. T \subseteq Commands
  BY ToSetType DEF Typed, TypeOK, FrontendTypeOK
<1>7. \A x \in T : <<x, c>> \in Q
  BY <1>2, <1>6 DEF NotAfter, Mine
<1>8. c \in G[10] /\ 10 \in Places /\ \A k \in Places : k <= 10
  BY <1>2 DEF Allowed, Places
<1>. HIDE DEF T, Q, G
<1>9. Arranged(Line(w), Q, G)
  BY <1>1, <1>3, <1>4, PlacesType, ArrangedWeaker DEF LineOK
<1>10. CASE Besides(Line(w), Line(w)', {})
  <2>1. \A k \in Places : PieceOf(Line(w)'[k], Line(w)[k])
    BY <1>1, <1>10, SamePiece DEF Besides
  <2>. QED
    BY <1>1, <1>9, <2>1, PlacesType, ArrangedParts DEF LineOK, Q, G
<1>11. CASE Joined(Line(w), Line(w)', 10, c)
  <2>0. PICK p \in Places : p = 10
    BY <1>8
  <2>1. c \in G[p] /\ Joined(Line(w), Line(w)', p, c)
    BY <1>8, <1>11, <2>0
  <2>2. MayJoin(Line(w), Q, p, c)
    <3>1. DOMAIN Line(w) = Places /\ \A k \in Places : k <= p /\ ~(p < k)
      BY <1>1, <1>8, <2>0, PlacesType
    <3>. QED
      BY <1>5, <1>7, <3>1 DEF MayJoin
  <2>3. Arranged(Line(w)', Q, G)
    BY <1>1, <1>9, <2>1, <2>2, PlacesType, ArrangedAppend
  <2>. QED
    BY <2>3 DEF LineOK, Q, G
<1>. QED
  BY <1>10, <1>11

-----------------------------------------------------------------------------
(* Most actions leave most places of a row alone.                          *)
LEMMA OtherPlaces ==
    ASSUME NEW w, NEW K,
           1 \in K \/ ran' = ran, 2 \in K \/ batch'[w] = batch[w],
           3 \in K \/ buffer'[w] = buffer[w], 4 \in K \/ incoming'[w] = incoming[w],
           5 \in K \/ unacked'[w] = unacked[w], 6 \in K \/ queue'[w] = queue[w],
           7 \in K \/ publish_buffer' = publish_buffer,
           8 \in K \/ send_buffer' = send_buffer,
           9 \in K \/ communication' = communication,
           10 \in K \/ queue'["frontend"] = queue["frontend"]
    PROVE  Besides(Line(w), Line(w)', K)
<1>1. ASSUME NEW k \in Places \ K PROVE Line(w)'[k] = Line(w)[k]
  BY <1>1, LineAt, LineAtNext DEF Places
<1>. QED
  BY <1>1 DEF Besides, Line

(* Where it does not, every sequence is a piece of what it was.             *)
LEMMA PartsBesides ==
    ASSUME Typed, NEW w \in Workers, NEW K, Besides(Line(w), Line(w)', K),
           \A k \in K : PieceOf(Line(w)'[k], Line(w)[k])
    PROVE  \A k \in Places : PieceOf(Line(w)'[k], Line(w)[k])
<1>1. Line(w) \in [Places -> Seq(Commands)]
  BY LineType
<1>. QED
  BY <1>1, SamePiece DEF Besides

(* What a worker is sent is its own, or a DUMPLOG.                         *)
Sent == \A e \in ToSet(publish_buffer) : e[2] \in Mine(e[1]) \cup Dumplogs

Lines == \A w \in Workers : LineOK(w)

(* A head is a command that may be at its place.                           *)
LEMMA HeadAllowed ==
    ASSUME Typed, NEW w \in Workers, LineOK(w), NEW q \in Places, Line(w)[q] # << >>
    PROVE  /\ Line(w)[q] \in Seq(Commands)
           /\ Head(Line(w)[q]) \in Commands
           /\ Head(Line(w)[q]) \in ToSet(Line(w)[q])
           /\ Head(Line(w)[q]) \in Allowed(w)[q]
           /\ Head(Line(w)[q]) \in ToSet(submitted)
<1>1. Line(w) \in [Places -> Seq(Commands)]
  BY LineType
<1>2. Line(w)[q] \in Seq(Commands)
  BY <1>1
<1>3. Sorted(Line(w)[q], NotAfter(w)) /\ ToSet(Line(w)[q]) \subseteq Allowed(w)[q]
  BY <1>1 DEF LineOK, Arranged
<1>4. Head(Line(w)[q]) \in ToSet(Line(w)[q])
  BY <1>2, <1>3, TailSorted
<1>5. Allowed(w)[q] \subseteq ToSet(submitted)
  BY DEF Allowed
<1>. QED
  BY <1>2, <1>3, <1>4, <1>5

(* A row that only hands on a head.                                        *)
LEMMA ConsumeLines ==
    ASSUME Typed, Typed', Lines, InTheManager(Consume)
    PROVE  Lines'
<1>. SUFFICES ASSUME NEW w \in Workers PROVE LineOK(w)'
  BY DEF Lines
<1>. USE DEF InTheManager, Consume, worker, frontend
<1>1. LineOK(w) /\ UNCHANGED submitted /\ 9 \in Places /\ 10 \in Places
  BY DEF Lines, Places
<1>2. queue' = [queue EXCEPT !["frontend"] = Tail(queue["frontend"])]
  BY DEF Delivered
<1>3. queue'[w] = queue[w] /\ queue'["frontend"] = Tail(queue["frontend"])
  BY <1>2, QueueNames DEF Typed, TypeOK, BrokerTypeOK
<1>4. Besides(Line(w), Line(w)', {9, 10})
  BY <1>3, OtherPlaces
<1>5. MovedHead(Line(w), Line(w)', 9, 10)
  BY <1>3, <1>4, LineAt, LineAtNext, SMTT(30) DEF MovedHead
<1>6. Head(Line(w)[10]) \in Allowed(w)[9]
  <2>1. Head(Line(w)[10]) \in ToSet(submitted)
    BY <1>1, LineAt, HeadAllowed
  <2>. QED
    BY <1>1, <2>1 DEF Allowed
<1>. QED
  BY <1>1, <1>5, <1>6, LineMove

(* balance() takes the head of the send buffer.                            *)
LEMMA BalanceLines ==
    ASSUME Typed, Typed', Lines, InTheManager(Balance)
    PROVE  Lines'
<1>. SUFFICES ASSUME NEW w \in Workers PROVE LineOK(w)'
  BY DEF Lines
<1>. USE DEF InTheManager, Balance, worker, frontend, broker
<1>1. LineOK(w) /\ UNCHANGED submitted /\ 8 \in Places /\ 9 \in Places
  BY DEF Lines, Places
<1>4. Besides(Line(w), Line(w)', {8, 9})
  BY OtherPlaces
<1>5. MovedAll(Line(w), Line(w)', 8, 9)
  BY <1>4, LineAt, LineAtNext DEF MovedAll
<1>6. Allowed(w)[9] \subseteq Allowed(w)[8]
  BY <1>1 DEF Allowed
<1>. QED
  BY <1>1, <1>5, <1>6, LineMoveAll

(* balance() hands a command to the publisher, for its worker.             *)
LEMMA ForwardLines ==
    ASSUME Typed, Typed', Lines, Sent, InTheManager(ForwardDumplog \/ Forward)
    PROVE  Lines' /\ Sent'
<1>. USE DEF InTheManager, worker, frontend, broker
<1>. DEFINE c == Head(send_buffer)
<1>1. PICK x \in Workers :
        /\ send_buffer # << >> /\ publish_buffer' = Append(publish_buffer, <<x, c>>)
        /\ send_buffer' = Tail(send_buffer)
        /\ UNCHANGED <<ran, batch, buffer, incoming, unacked, queue, communication, submitted>>
        /\ c \in Mine(x) \cup Dumplogs
  <2>1. c \in Commands
    BY DEF ForwardDumplog, Forward, Typed, TypeOK, ManagerTypeOK
  <2>2. CASE ForwardDumplog
    <3>1. Worker0 \in Workers
      BY CommandsAssumption
    <3>. QED
      BY <3>1, <2>2 DEF ForwardDumplog
  <2>3. CASE Forward
    <3>1. WorkerOf[c] \in Workers
      BY <2>1, RoutingAssumption
    <3>2. c \in Mine(WorkerOf[c])
      BY <2>1, <2>3 DEF Forward, Mine
    <3>. QED
      BY <3>1, <3>2, <2>3 DEF Forward, Route
  <2>. QED
    BY <2>2, <2>3
<1>2. c \in Commands /\ publish_buffer \in Seq(Workers \X Commands)
  BY <1>1 DEF Typed, TypeOK, ManagerTypeOK
<1>3. Seconds(publish_buffer') = Append(Seconds(publish_buffer), c)
  BY <1>1, <1>2, SecondsAppend
<1>4. ASSUME NEW w \in Workers PROVE LineOK(w)'
  <2>1. LineOK(w) /\ 7 \in Places /\ 8 \in Places
    BY DEF Lines, Places
  <2>2. Besides(Line(w), Line(w)', {7, 8})
    BY <1>1, OtherPlaces
  <2>a. Line(w)[7] = Seconds(publish_buffer) /\ Line(w)[8] = send_buffer
    BY LineAt
  <2>b. Line(w)'[7] = Seconds(publish_buffer') /\ Line(w)'[8] = send_buffer'
    BY LineAtNext
  <2>3. MovedHead(Line(w), Line(w)', 7, 8)
    BY <1>1, <1>3, <2>2, <2>a, <2>b DEF MovedHead
  <2>4. Head(Line(w)[8]) \in Allowed(w)[7]
    <3>1. Head(Line(w)[8]) \in ToSet(submitted)
      BY <1>1, <2>1, <2>a, HeadAllowed
    <3>. QED
      BY <2>1, <3>1 DEF Allowed
  <2>. QED
    BY <1>1, <2>1, <2>3, <2>4, LineMove
<1>5. Sent'
  <2>0. <<x, c>> \in Workers \X Commands
    BY <1>2
  <2>1. ToSet(publish_buffer') = ToSet(publish_buffer) \cup {<<x, c>>}
    BY <1>1, <1>2, <2>0, AppendToSet, SMTT(30)
  <2>. QED
    BY <2>1, <1>1 DEF Sent, Mine
<1>. QED
  BY <1>4, <1>5 DEF Lines

(* A command reaches the queue of its worker, or is lost.                  *)
LEMMA PublishLines ==
    ASSUME Typed, Typed', Lines, Sent, InTheManager(PublishCommand)
    PROVE  Lines' /\ Sent'
<1>. USE DEF InTheManager, worker, frontend, PublishCommand
<1>. DEFINE x == Head(publish_buffer)[1]
            c == Head(publish_buffer)[2]
<1>1. /\ publish_buffer \in Seq(Workers \X Commands) /\ publish_buffer # << >>
      /\ publish_buffer' = Tail(publish_buffer)
      /\ x \in Workers /\ c \in Commands /\ Head(publish_buffer) = <<x, c>>
  BY DEF Typed, TypeOK, ManagerTypeOK
<1>2. /\ Seconds(publish_buffer') = Tail(Seconds(publish_buffer))
      /\ Head(Seconds(publish_buffer)) = c /\ Seconds(publish_buffer) # << >>
  BY <1>1, SecondsTail
<1>3. \A e \in ToSet(publish_buffer') : e \in ToSet(publish_buffer)
  BY <1>1, HeadTailIn
<1>4. <<x, c>> \in ToSet(publish_buffer)
  BY <1>1, HeadTailIn
<1>5. Sent'
  BY <1>3 DEF Sent, Mine
<1>6. c \in Mine(x) \cup Dumplogs
  BY <1>4 DEF Sent
<1>7. \/ queue' = [queue EXCEPT ![x] = Append(queue[x], c)]
      \/ queue' = queue
  BY DEF Published
<1>8. ASSUME NEW w \in Workers PROVE LineOK(w)'
  <2>1. LineOK(w) /\ UNCHANGED submitted /\ 6 \in Places /\ 7 \in Places
    BY DEF Lines, Places
  <2>2. CASE w = x /\ queue' = [queue EXCEPT ![x] = Append(queue[x], c)]
    <3>1. queue'[w] = Append(queue[w], c) /\ queue'["frontend"] = queue["frontend"]
      BY <2>2, QueueNames DEF Typed, TypeOK, BrokerTypeOK
    <3>2. Besides(Line(w), Line(w)', {6, 7})
      BY <3>1, OtherPlaces
    <3>a. Line(w)[6] = queue[w] /\ Line(w)[7] = Seconds(publish_buffer)
      BY LineAt
    <3>b. Line(w)'[6] = queue'[w] /\ Line(w)'[7] = Seconds(publish_buffer')
      BY LineAtNext
    <3>3. MovedHead(Line(w), Line(w)', 6, 7)
      BY <1>2, <3>1, <3>2, <3>a, <3>b DEF MovedHead
    <3>4. c \in ToSet(submitted)
      BY <1>2, <2>1, LineAt, HeadAllowed
    <3>5. Head(Line(w)[7]) \in Allowed(w)[6]
      BY <1>2, <1>6, <2>1, <2>2, <3>4, LineAt DEF Allowed
    <3>. QED
      BY <2>1, <3>3, <3>5, LineMove
  <2>3. CASE queue'[w] = queue[w]
    <3>1. queue'["frontend"] = queue["frontend"]
      BY <1>1, <1>7, QueueNames DEF Typed, TypeOK, BrokerTypeOK
    <3>2. Besides(Line(w), Line(w)', {7})
      BY <2>3, <3>1, OtherPlaces
    <3>a. Line(w)[7] = Seconds(publish_buffer) /\ Line(w)'[7] = Seconds(publish_buffer')
      BY LineAt, LineAtNext
    <3>b. Seconds(publish_buffer) \in Seq(Commands)
      BY <1>1, SecondsType
    <3>3. PieceOf(Line(w)'[7], Line(w)[7])
      BY <1>2, <3>a, <3>b, TailPiece
    <3>. QED
      BY <2>1, <3>2, <3>3, LineParts, PartsBesides
  <2>. QED
    BY <1>1, <1>7, <2>2, <2>3, QueueNames DEF Typed, TypeOK, BrokerTypeOK
<1>. QED
  BY <1>5, <1>8 DEF Lines

(* Nothing on the way moves.                                               *)
LEMMA QuietLines ==
    ASSUME Typed, Typed', Lines, Sent,
           UNCHANGED <<ran, batch, buffer, incoming, unacked, publish_buffer, send_buffer,
                       communication, submitted>>,
           \A q \in Queues \ {"confirm"} : queue'[q] = queue[q]
    PROVE  Lines' /\ Sent'
<1>1. ASSUME NEW w \in Workers PROVE LineOK(w)'
  <2>1. queue'[w] = queue[w] /\ queue'["frontend"] = queue["frontend"]
    BY QueueNames
  <2>2. Besides(Line(w), Line(w)', {})
    BY <2>1, OtherPlaces
  <2>. QED
    BY <2>2, LineSame DEF Lines
<1>2. Sent'
  BY DEF Sent, Mine
<1>. QED
  BY <1>1, <1>2 DEF Lines

-----------------------------------------------------------------------------
(* What a worker does leaves the rows of the others alone, unless it runs  *)
(* a command.                                                              *)
LEMMA OtherWorkers ==
    ASSUME Typed, Typed', Lines, NEW w \in Workers,
           UNCHANGED <<ran, publish_buffer, send_buffer, communication, submitted>>,
           queue'["frontend"] = queue["frontend"],
           \A x \in Workers \ {w} :
               /\ batch'[x] = batch[x] /\ buffer'[x] = buffer[x]
               /\ incoming'[x] = incoming[x] /\ unacked'[x] = unacked[x]
               /\ queue'[x] = queue[x]
    PROVE  \A x \in Workers \ {w} : LineOK(x)'
<1>. SUFFICES ASSUME NEW x \in Workers \ {w} PROVE LineOK(x)'
  OBVIOUS
<1>1. Besides(Line(x), Line(x)', {})
  BY OtherPlaces
<1>. QED
  BY <1>1, LineSame DEF Lines

(* The broker delivers a command to a worker.                              *)
LEMMA DeliverLines ==
    ASSUME Typed, Typed', Lines, NEW w \in Workers, InAWorker(Deliver(w))
    PROVE  Lines'
<1>. USE DEF InAWorker, Deliver, manager, frontend
<1>1. LineOK(w) /\ UNCHANGED submitted
  BY DEF Lines
<1>2. queue' = [queue EXCEPT ![w] = Tail(queue[w])]
  BY DEF Delivered
<1>. USE DEF Typed, TypeOK, BrokerTypeOK, WorkerTypeOK
<1>3. /\ queue'[w] = Tail(queue[w]) /\ queue'["frontend"] = queue["frontend"]
      /\ \A x \in Workers \ {w} : queue'[x] = queue[x]
  BY <1>2, QueueNames
<1>4. Head(queue[w]) \in Commands
  <2>1. queue[w] \in Seq(Commands) /\ queue[w] # << >>
    BY QueueNames DEF CommandsOnly
  <2>. QED
    BY <2>1
<1>5. /\ incoming'[w] = Head(queue[w]) /\ unacked'[w] = Head(queue[w])
      /\ \A x \in Workers \ {w} : incoming'[x] = incoming[x] /\ unacked'[x] = unacked[x]
  BY DEF CommandsOnly
<1>6. \A x \in Workers \ {w} : LineOK(x)'
  BY <1>3, <1>5, OtherWorkers
<1>7. LineOK(w)'
  <2>1. Besides(Line(w), Line(w)', {4, 5, 6})
    BY <1>3, OtherPlaces
  <2>2. /\ OneOf(incoming[w]) = << >> /\ OneOf(unacked[w]) = << >>
        /\ OneOf(incoming'[w]) = <<Head(queue[w])>>
        /\ OneOf(unacked'[w]) = <<Head(queue[w])>>
    BY <1>4, <1>5, NamesAssumption DEF OneOf
  <2>3. /\ Line(w)[4] = << >> /\ Line(w)[5] = << >> /\ Line(w)[6] = queue[w]
        /\ Line(w)'[4] = <<Head(queue[w])>> /\ Line(w)'[5] = <<Head(queue[w])>>
        /\ Line(w)'[6] = Tail(queue[w])
    BY <1>3, <2>2, LineAt, LineAtNext
  <2>4. Copied(Line(w), Line(w)', 4, 5, 6)
    BY <2>1, <2>3 DEF Copied
  <2>. QED
    BY <1>1, <2>4, LineCopied
<1>. QED
  BY <1>6, <1>7 DEF Lines

(* The callback of a worker appends the command to its buffer.             *)
LEMMA CallbackLines ==
    ASSUME Typed, Typed', Lines, NEW w \in Workers, InAWorker(QueueCallback(w))
    PROVE  Lines'
<1>. USE DEF InAWorker, QueueCallback, manager, frontend, broker
<1>1. LineOK(w) /\ UNCHANGED submitted /\ 3 \in Places /\ 4 \in Places
  BY DEF Lines, Places
<1>2. /\ incoming'[w] = None /\ buffer'[w] = Append(buffer[w], incoming[w])
      /\ \A x \in Workers \ {w} : incoming'[x] = incoming[x] /\ buffer'[x] = buffer[x]
  BY DEF Typed, TypeOK, WorkerTypeOK
<1>3. \A x \in Workers \ {w} : LineOK(x)'
  BY <1>2, OtherWorkers
<1>4. LineOK(w)'
  <2>1. Besides(Line(w), Line(w)', {3, 4})
    BY <1>2, OtherPlaces
  <2>2. OneOf(incoming[w]) = <<incoming[w]>> /\ OneOf(incoming'[w]) = << >>
    BY <1>2 DEF OneOf
  <2>3. /\ Line(w)[3] = buffer[w] /\ Line(w)[4] = <<incoming[w]>>
        /\ Line(w)'[3] = Append(buffer[w], incoming[w]) /\ Line(w)'[4] = << >>
    BY <1>2, <2>2, LineAt, LineAtNext
  <2>4. MovedHead(Line(w), Line(w)', 3, 4)
    BY <2>1, <2>3 DEF MovedHead
  <2>5. Head(Line(w)[4]) \in Allowed(w)[3]
    <3>0. Line(w)[4] # << >>
      BY <2>3
    <3>1. Head(Line(w)[4]) \in Allowed(w)[4]
      BY <1>1, <3>0, HeadAllowed
    <3>. QED
      BY <3>1, <1>1 DEF Allowed
  <2>. QED
    BY <1>1, <2>4, <2>5, LineMove
<1>. QED
  BY <1>3, <1>4 DEF Lines

(* The acknowledgement of a command arrives, or never does.                *)
LEMMA AckLines ==
    ASSUME Typed, Typed', Lines, NEW w \in Workers, InAWorker(AckArrives(w) \/ NeverArrives(w))
    PROVE  Lines'
<1>. USE DEF InAWorker, AckArrives, NeverArrives, manager, frontend, worker, broker
<1>1. LineOK(w) /\ UNCHANGED submitted
  BY DEF Lines
<1>2. /\ \A x \in Workers \ {w} : incoming'[x] = incoming[x] /\ unacked'[x] = unacked[x]
      /\ incoming'[w] \in {incoming[w], None} /\ unacked'[w] \in {unacked[w], None}
  BY DEF Typed, TypeOK, WorkerTypeOK, BrokerTypeOK
<1>3. \A x \in Workers \ {w} : LineOK(x)'
  BY <1>2, OtherWorkers
<1>4. LineOK(w)'
  <2>1. Besides(Line(w), Line(w)', {4, 5})
    BY OtherPlaces
  <2>2. /\ OneOf(incoming'[w]) \in {OneOf(incoming[w]), << >>}
        /\ OneOf(unacked'[w]) \in {OneOf(unacked[w]), << >>}
    BY <1>2 DEF OneOf
  <2>3. /\ Line(w)'[4] \in {Line(w)[4], << >>} /\ Line(w)'[5] \in {Line(w)[5], << >>}
    BY <2>2, LineAt, LineAtNext
  <2>4. Line(w)[4] \in Seq(Commands) /\ Line(w)[5] \in Seq(Commands)
    BY LineType, SMTT(30) DEF Places
  <2>5. PieceOf(Line(w)'[4], Line(w)[4]) /\ PieceOf(Line(w)'[5], Line(w)[5])
    BY <2>3, <2>4, SamePiece, EmptyPiece
  <2>. QED
    BY <1>1, <2>1, <2>5, LineParts, PartsBesides
<1>. QED
  BY <1>3, <1>4 DEF Lines

(* The main loop of a worker takes its buffer.                             *)
LEMMA TakeLines ==
    ASSUME Typed, Typed', Lines, NEW w \in Workers, InAWorker(TakeBuffer(w))
    PROVE  Lines'
<1>. USE DEF InAWorker, TakeBuffer, Cleared, manager, frontend, broker
<1>1. LineOK(w) /\ UNCHANGED submitted /\ 2 \in Places /\ 3 \in Places
  BY DEF Lines, Places
<1>2. /\ batch'[w] = buffer[w] /\ buffer'[w] = << >>
      /\ \A x \in Workers \ {w} : batch'[x] = batch[x] /\ buffer'[x] = buffer[x]
  BY DEF Typed, TypeOK, WorkerTypeOK
<1>3. \A x \in Workers \ {w} : LineOK(x)'
  BY <1>2, OtherWorkers
<1>4. LineOK(w)'
  <2>1. Besides(Line(w), Line(w)', {2, 3})
    BY OtherPlaces
  <2>2. MovedAll(Line(w), Line(w)', 2, 3)
    BY <1>2, <2>1, LineAt, LineAtNext DEF MovedAll
  <2>3. Allowed(w)[3] \subseteq Allowed(w)[2]
    BY <1>1 DEF Allowed
  <2>. QED
    BY <1>1, <2>2, <2>3, LineMoveAll
<1>. QED
  BY <1>3, <1>4 DEF Lines

(* A worker runs the first command of its batch.                           *)
LEMMA RunLines ==
    ASSUME Typed, Typed', Lines, NEW w \in Workers, batch[w] # << >>,
           ran' = Append(ran, Head(batch[w])),
           batch' = [batch EXCEPT ![w] = Tail(batch[w])] \/ batch' = [batch EXCEPT ![w] = << >>],
           UNCHANGED <<queue, unacked, publish_buffer, send_buffer, communication, submitted>>,
           UNCHANGED <<buffer, incoming>>
    PROVE  Lines'
<1>. DEFINE c == Head(batch[w])
<1>1. LineOK(w) /\ 1 \in Places /\ 2 \in Places
  BY DEF Lines, Places
<1>2. /\ \A x \in Workers \ {w} : batch'[x] = batch[x]
      /\ batch'[w] = Tail(batch[w]) \/ batch'[w] = << >>
  BY DEF Typed, TypeOK, WorkerTypeOK
<1>a. Line(w)[1] = ran /\ Line(w)[2] = batch[w]
  BY LineAt
<1>3. /\ c \in Commands /\ c \in ToSet(submitted) /\ c \in Allowed(w)[2]
  BY <1>1, <1>a, HeadAllowed
<1>4. c \in Mine(w) \cup Dumplogs
  BY <1>1, <1>3 DEF Allowed
<1>5. ASSUME NEW x \in Workers \ {w} PROVE LineOK(x)'
  <2>1. c \notin Mine(x)
    BY <1>4 DEF Mine
  <2>2. Besides(Line(x), Line(x)', {1})
    BY <1>2, OtherPlaces
  <2>3. Line(x)[1] = ran /\ Line(x)'[1] = ran'
    BY LineAt, LineAtNext
  <2>4. Joined(Line(x), Line(x)', 1, c)
    BY <2>2, <2>3 DEF Joined
  <2>. QED
    BY <1>3, <2>1, <2>4, LineOther DEF Lines
<1>6. LineOK(w)'
  <2>1. Besides(Line(w), Line(w)', {1, 2})
    BY OtherPlaces
  <2>. DEFINE L == Line(w)
              M == [L EXCEPT ![1] = Append(ran, c), ![2] = Tail(batch[w])]
  <2>2. L \in [Places -> Seq(Commands)] /\ Line(w)' \in [Places -> Seq(Commands)]
    BY LineType, LineTypeNext
  <2>3. M \in [Places -> Seq(Commands)]
    <3>1. ran \in Seq(Commands) /\ batch[w] \in Seq(Commands)
      BY DEF Typed, TypeOK, WorkerTypeOK
    <3>2. Append(ran, c) \in Seq(Commands) /\ Tail(batch[w]) \in Seq(Commands)
      BY <3>1, <1>3
    <3>. QED
      BY <2>2, <3>2
  <2>4. M[1] = Append(ran, c) /\ M[2] = Tail(batch[w]) /\ Besides(L, M, {1, 2})
    BY <2>2, <1>1 DEF Besides
  <2>. HIDE DEF M
  <2>5. MovedHead(L, M, 1, 2)
    BY <2>4, <1>a DEF MovedHead
  <2>6. Head(L[2]) \in Allowed(w)[1]
    BY <1>3, <1>a, <1>1 DEF Allowed
  <2>7. Arranged(M, NotAfter(w), Allowed(w))
    BY <1>1, <2>2, <2>3, <2>5, <2>6, PlacesType, ArrangedMove DEF LineOK
  <2>8. /\ Line(w)'[1] = M[1]
        /\ Line(w)'[2] = M[2] \/ Line(w)'[2] = << >>
        /\ \A k \in Places \ {1, 2} : Line(w)'[k] = M[k]
    BY <1>2, <2>1, <2>2, <2>4, LineAtNext DEF Besides
  <2>9. \A k \in Places : PieceOf(Line(w)'[k], M[k])
    BY <2>3, <2>8, SamePiece, EmptyPiece
  <2>10. Arranged(Line(w)', NotAfter(w), Allowed(w))
    BY <2>2, <2>3, <2>7, <2>9, PlacesType, ArrangedParts
  <2>. QED
    BY <2>10, SameOrder DEF LineOK
<1>. QED
  BY <1>5, <1>6 DEF Lines

(* The main loop of a worker ends with its batch.                          *)
LEMMA MainEndsLines ==
    ASSUME Typed, Typed', Lines, NEW w \in Workers, InAWorker(MainEnds(w))
    PROVE  Lines'
<1>. USE DEF InAWorker, MainEnds, manager, frontend
<1>1. CASE ran' = Append(ran, Head(batch[w]))
  BY <1>1, RunLines
<1>2. CASE ran' = ran
  <2>1. /\ batch'[w] = << >> /\ \A x \in Workers \ {w} : batch'[x] = batch[x]
    BY DEF Typed, TypeOK, WorkerTypeOK
  <2>2. \A x \in Workers \ {w} : LineOK(x)'
    BY <1>2, <2>1, OtherWorkers
  <2>3. Besides(Line(w), Line(w)', {2})
    BY <1>2, OtherPlaces
  <2>4. PieceOf(Line(w)'[2], Line(w)[2])
    BY <2>1, LineAtNext, EmptyPiece
  <2>5. LineOK(w)'
    BY <2>3, <2>4, LineParts, PartsBesides DEF Lines
  <2>. QED
    BY <2>2, <2>5 DEF Lines
<1>. QED
  BY <1>1, <1>2

(* What was not acknowledged is put back, and the rest may be lost.        *)
LEMMA RequeuedLines ==
    ASSUME Typed, Typed', Lines, NEW w \in Workers, Requeued(w),
           UNCHANGED <<ran, publish_buffer, send_buffer, communication, submitted>>,
           \A x \in Workers \ {w} :
               batch'[x] = batch[x] /\ buffer'[x] = buffer[x] /\ incoming'[x] = incoming[x],
           batch'[w] \in {batch[w], << >>}, buffer'[w] \in {buffer[w], << >>},
           incoming'[w] \in {incoming[w], None}
    PROVE  Lines'
<1>1. /\ unacked'[w] = None
      /\ \A x \in Workers \ {w} : unacked'[x] = unacked[x] /\ queue'[x] = queue[x]
      /\ queue'["frontend"] = queue["frontend"]
      /\ queue'[w] = IF unacked[w] = None THEN queue[w] ELSE <<unacked[w]>> \o queue[w]
  BY QueueNames DEF Requeued, Typed, TypeOK, BrokerTypeOK
<1>2. \A x \in Workers \ {w} : LineOK(x)'
  BY <1>1, OtherWorkers
<1>3. queue[w] \in Seq(Commands) /\ OneOf(unacked[w]) \in Seq(Commands)
  BY QueueNames DEF Typed, CommandsOnly, OneOf
<1>. DEFINE v == OneOf(unacked[w]) \o queue[w]
<1>4. queue'[w] = v /\ v \in Seq(Commands)
  <2>1. CASE unacked[w] = None
    <3>1. OneOf(unacked[w]) = << >>
      BY <2>1 DEF OneOf
    <3>2. << >> \o queue[w] = queue[w]
      BY <1>3
    <3>. QED
      BY <2>1, <3>1, <3>2, <1>1, <1>3
  <2>2. CASE unacked[w] # None
    <3>1. OneOf(unacked[w]) = <<unacked[w]>>
      BY <2>2 DEF OneOf
    <3>2. queue'[w] = v
      BY <2>2, <3>1, <1>1
    <3>. QED
      BY <3>2, <1>3
  <2>. QED
    BY <2>1, <2>2
<1>. HIDE DEF v
<1>5. LineOK(w)'
  <2>1. Besides(Line(w), Line(w)', {2, 3, 4, 5, 6})
    BY <1>1, OtherPlaces
  <2>. DEFINE L == Line(w)
              M == [L EXCEPT ![5] = << >>, ![6] = v]
  <2>2. L \in [Places -> Seq(Commands)] /\ Line(w)' \in [Places -> Seq(Commands)]
    BY LineType, LineTypeNext
  <2>a. L[5] = OneOf(unacked[w]) /\ L[6] = queue[w]
    BY LineAt
  <2>. HIDE DEF L
  <2>3. 5 \in Places /\ 6 \in Places /\ {2, 3, 4} \subseteq Places \ {5, 6}
    BY DEF Places
  <2>4. M \in [Places -> Seq(Commands)]
    <3>1. << >> \in Seq(Commands)
      OBVIOUS
    <3>. QED
      BY <2>2, <1>4, <3>1
  <2>5. M[5] = << >> /\ M[6] = v /\ \A k \in Places \ {5, 6} : M[k] = L[k]
    BY <2>2, <2>3
  <2>. HIDE DEF M
  <2>6. PutBack(L, M, 5, 6)
    BY <2>2, <2>5, <2>a DEF PutBack, Besides, v
  <2>7. /\ Line(w)'[5] = M[5] /\ Line(w)'[6] = M[6]
    BY <1>1, <1>4, <2>5, LineAtNext DEF OneOf
  <2>8. /\ Line(w)'[2] \in {L[2], << >>} /\ Line(w)'[3] \in {L[3], << >>}
        /\ Line(w)'[4] \in {L[4], << >>}
    <3>1. /\ L[2] = batch[w] /\ L[3] = buffer[w] /\ L[4] = OneOf(incoming[w])
          /\ Line(w)'[2] = batch'[w] /\ Line(w)'[3] = buffer'[w]
          /\ Line(w)'[4] = OneOf(incoming'[w])
      BY LineAt, LineAtNext DEF L
    <3>2. OneOf(incoming'[w]) \in {OneOf(incoming[w]), << >>}
      BY DEF OneOf
    <3>. QED
      BY <3>1, <3>2
  <2>9. ASSUME NEW k \in Places PROVE PieceOf(Line(w)'[k], M[k])
    <3>1. M[k] \in Seq(Commands)
      BY <2>4
    <3>2. Line(w)'[k] = M[k] \/ Line(w)'[k] = << >>
      <4>1. CASE k \in {2, 3, 4}
        BY <4>1, <2>3, <2>5, <2>8
      <4>2. CASE k \in {5, 6}
        BY <4>2, <2>7
      <4>3. CASE k \notin {2, 3, 4, 5, 6}
        BY <4>3, <2>1, <2>2, <2>5 DEF Besides, L
      <4>. QED
        BY <4>1, <4>2, <4>3
    <3>. QED
      BY <3>1, <3>2, SamePiece, EmptyPiece
  <2>. QED
    BY <2>4, <2>6, <2>9, LinePutBack DEF Lines, L
<1>. QED
  BY <1>2, <1>5 DEF Lines

(* The threads of a worker move commands on, or lose them.                 *)
LEMMA WorkerLines ==
    ASSUME Typed, Typed', Lines, Sent, NEW w \in Workers,
           InAWorker(WorkerThreads(w) \/ Notify(w) \/ Stops(w))
    PROVE  Lines' /\ Sent'
<1>1. Sent'
  BY DEF InAWorker, manager, Sent, Mine
<1>2. CASE InAWorker(Deliver(w))
  BY <1>1, <1>2, DeliverLines
<1>3. CASE InAWorker(QueueCallback(w))
  BY <1>1, <1>3, CallbackLines
<1>4. CASE InAWorker(AckArrives(w) \/ NeverArrives(w))
  BY <1>1, <1>4, AckLines
<1>5. CASE InAWorker(TakeBuffer(w))
  BY <1>1, <1>5, TakeLines
<1>6. CASE InAWorker(HandleCommand(w))
  <2>1. Lines'
    BY <1>6, RunLines DEF InAWorker, HandleCommand, manager, frontend, broker
  <2>. QED
    BY <1>1, <2>1
<1>7. CASE InAWorker(Notify(w))
  BY <1>7, QuietLines DEF InAWorker, Notify, manager, frontend, broker
<1>8. CASE InAWorker(WorkerDies(w))
  <2>1. Lines'
    BY <1>8, RequeuedLines
    DEF InAWorker, WorkerDies, manager, frontend, Typed, TypeOK, WorkerTypeOK
  <2>. QED
    BY <1>1, <2>1
<1>9. CASE InAWorker(MainEnds(w))
  BY <1>1, <1>9, MainEndsLines
<1>. QED
  BY <1>2, <1>3, <1>4, <1>5, <1>6, <1>7, <1>8, <1>9 DEF InAWorker, WorkerThreads, Stops

(* So do the threads of the manager.                                       *)
LEMMA ManagerLines ==
    ASSUME Typed, Typed', Lines, Sent, InTheManager(ManagerStep)
    PROVE  Lines' /\ Sent'
<1>1. CASE InTheManager(Consume)
  <2>1. Sent'
    BY <1>1 DEF InTheManager, Consume, Sent, Mine
  <2>. QED
    BY <1>1, <2>1, ConsumeLines
<1>2. CASE InTheManager(Balance)
  <2>1. Sent'
    BY <1>2 DEF InTheManager, Balance, Sent, Mine
  <2>. QED
    BY <1>2, <2>1, BalanceLines
<1>3. CASE InTheManager(ForwardDumplog \/ Forward)
  BY <1>3, ForwardLines
<1>4. CASE InTheManager(NoSuchWorker)
  BY <1>4, QuietLines DEF InTheManager, NoSuchWorker, worker, frontend, broker
<1>5. CASE InTheManager(PublishCommand)
  BY <1>5, PublishLines
<1>6. CASE InTheManager(OnReceive)
  <2>1. \A q \in Queues \ {"confirm"} : queue'[q] = queue[q]
    BY <1>6 DEF InTheManager, OnReceive, Delivered, Typed, TypeOK, BrokerTypeOK
  <2>. QED
    BY <1>6, <2>1, QuietLines DEF InTheManager, OnReceive, worker, frontend
<1>. QED
  BY <1>1, <1>2, <1>3, <1>4, <1>5, <1>6 DEF InTheManager, ManagerStep, BalancerStep

(* A response is no command, and moves none.                               *)
LEMMA RespondLines ==
    ASSUME Typed, Typed', Lines, Sent, NEW w \in Workers, Respond(w)
    PROVE  Lines' /\ Sent'
<1>1. \A q \in Queues \ {"confirm"} : queue'[q] = queue[q]
  BY DEF Respond, PublishResponse, Published, Typed, TypeOK, BrokerTypeOK
<1>. QED
  BY <1>1, QuietLines DEF Respond, PublishResponse, manager

(* A connection breaks, or one is made again.                              *)
LEMMA ConnectionLines ==
    ASSUME Typed, Typed', Lines, Sent,
           \/ \E q \in Queues : ConsumerBack(q)
           \/ \E p \in Publishers : PublisherBack(p)
           \/ OfAConnection(Breaks)
    PROVE  Lines' /\ Sent'
<1>0. UNCHANGED <<manager, worker, frontend>>
  BY DEF ConsumerBack, PublisherBack, OfAConnection
<1>1. CASE UNCHANGED <<queue, unacked>>
  BY <1>0, <1>1, QuietLines DEF manager, worker, frontend
<1>2. CASE \E w \in Workers : BreakConsumer(w)
  <2>1. PICK w \in Workers : BreakConsumer(w)
    BY <1>2
  <2>2. Lines'
    BY <1>0, <2>1, RequeuedLines DEF BreakConsumer, manager, worker, frontend
  <2>3. Sent'
    BY <1>0 DEF manager, Sent, Mine
  <2>. QED
    BY <2>2, <2>3
<1>3. CASE \E q \in Queues : \E n \in 0..Len(queue[q]) : BreakAutoAck(q, n)
  <2>1. PICK q \in Queues : \E n \in 0..Len(queue[q]) : BreakAutoAck(q, n)
    BY <1>3
  <2>2. PICK n \in 0..Len(queue[q]) : BreakAutoAck(q, n)
    BY <2>1
  <2>3. q \in {"frontend", "confirm"} /\ UNCHANGED unacked
    BY <2>2 DEF BreakAutoAck
  <2>4. queue' = [queue EXCEPT ![q] = SubSeq(queue[q], n + 1, Len(queue[q]))]
    BY <2>2 DEF BreakAutoAck
  <2>5. /\ \A x \in Queues \ {q} : queue'[x] = queue[x]
        /\ queue'[q] = SubSeq(queue[q], n + 1, Len(queue[q]))
    BY <2>4 DEF Typed, TypeOK, BrokerTypeOK
  <2>6. CASE q = "confirm"
    BY <1>0, <2>3, <2>5, <2>6, QuietLines DEF manager, worker, frontend
  <2>7. CASE q = "frontend"
    <3>1. queue["frontend"] \in Seq(Commands)
      BY QueueNames DEF Typed, CommandsOnly
    <3>2. PieceOf(queue'["frontend"], queue["frontend"])
      BY <2>5, <2>7, <3>1, SuffixPiece
    <3>3. ASSUME NEW w \in Workers PROVE LineOK(w)'
      <4>1. queue'[w] = queue[w]
        BY <2>5, <2>7, QueueNames
      <4>2. Besides(Line(w), Line(w)', {10})
        BY <1>0, <2>3, <4>1, OtherPlaces DEF manager, worker
      <4>3. PieceOf(Line(w)'[10], Line(w)[10])
        BY <3>2, LineAt, LineAtNext
      <4>. QED
        BY <1>0, <4>2, <4>3, LineParts, PartsBesides DEF Lines, frontend
    <3>4. Sent'
      BY <1>0 DEF manager, Sent, Mine
    <3>. QED
      BY <3>3, <3>4 DEF Lines
  <2>. QED
    BY <2>3, <2>6, <2>7
<1>. QED
  BY <1>1, <1>2, <1>3
  DEF ConsumerBack, PublisherBack, OfAConnection, Connect, OnChannelClosed,
      ReconnectPublisher, Breaks, BreakPublisher

(* The manager starts again: what it held is lost.                         *)
LEMMA RestartLines ==
    ASSUME Typed, Typed', Lines, Sent, Restarts
    PROVE  Lines' /\ Sent'
<1>1. PICK n \in 0..Len(queue["frontend"]) :
          \E k \in 0..Len(queue["confirm"]) : ManagerRestarts(alive, n, k)
  BY DEF Restarts
<1>2. PICK k \in 0..Len(queue["confirm"]) : ManagerRestarts(alive, n, k)
  BY <1>1
<1>3. WorkersRestart /\ UNCHANGED frontend
  BY DEF Restarts
<1>4. /\ communication' = << >> /\ send_buffer' = << >> /\ publish_buffer' = << >>
      /\ UNCHANGED unacked
  BY <1>2 DEF ManagerRestarts
<1>5. /\ \A w \in Workers : queue'[w] = queue[w]
      /\ queue'["frontend"] = SubSeq(queue["frontend"], n + 1, Len(queue["frontend"]))
  BY <1>2, QueueNames DEF ManagerRestarts, Typed, TypeOK, BrokerTypeOK
<1>6. PieceOf(queue'["frontend"], queue["frontend"])
  <2>1. queue["frontend"] \in Seq(Commands)
    BY QueueNames DEF Typed, CommandsOnly
  <2>. QED
    BY <1>5, <2>1, SuffixPiece
<1>7. ASSUME NEW w \in Workers PROVE LineOK(w)'
  <2>1. Besides(Line(w), Line(w)', {7, 8, 9, 10})
    BY <1>3, <1>4, <1>5, OtherPlaces DEF WorkersRestart
  <2>2. /\ Line(w)'[7] = << >> /\ Line(w)'[8] = << >> /\ Line(w)'[9] = << >>
        /\ PieceOf(Line(w)'[10], Line(w)[10])
    BY <1>4, <1>6, LineAt, LineAtNext DEF Seconds
  <2>3. \A x \in {7, 8, 9, 10} : PieceOf(Line(w)'[x], Line(w)[x])
    BY <2>2, EmptyPiece
  <2>. QED
    BY <1>3, <2>1, <2>3, LineParts, PartsBesides DEF Lines, frontend
<1>8. Sent'
  BY <1>4, EmptySorted DEF Sent, Mine
<1>. QED
  BY <1>7, <1>8 DEF Lines

-----------------------------------------------------------------------------
(* A command is published that was not before.                             *)
LEMMA SubmitLines ==
    ASSUME Typed, Typed', Once, Lines, Sent, NEW c \in Commands, c \notin ToSet(submitted),
           submitted' = Append(submitted, c), Published("frontend", c),
           UNCHANGED <<unacked, manager, worker>>
    PROVE  Lines' /\ Sent'
<1>1. ASSUME NEW w \in Workers PROVE LineOK(w)'
  <2>1. \/ queue' = queue
        \/ queue' = [queue EXCEPT !["frontend"] = Append(queue["frontend"], c)]
    BY DEF Published
  <2>2. queue'[w] = queue[w]
    BY <2>1, QueueNames DEF Typed, TypeOK, BrokerTypeOK
  <2>3. queue'["frontend"] \in {queue["frontend"], Append(queue["frontend"], c)}
    BY <2>1, QueueNames DEF Typed, TypeOK, BrokerTypeOK
  <2>4. Besides(Line(w), Line(w)', {10})
    BY <2>2, OtherPlaces DEF manager, worker
  <2>a. Line(w)[10] = queue["frontend"] /\ Line(w)'[10] = queue'["frontend"]
    BY LineAt, LineAtNext
  <2>5. Besides(Line(w), Line(w)', {}) \/ Joined(Line(w), Line(w)', 10, c)
    BY <2>3, <2>4, <2>a DEF Besides, Joined
  <2>. QED
    BY <2>5, LineSubmits DEF Lines
<1>2. Sent'
  BY DEF manager, Sent, Mine
<1>. QED
  BY <1>1, <1>2 DEF Lines

(* A request and a line of the workload file are published once.           *)
LEMMA FrontendLines ==
    ASSUME Typed, Typed', Once, NotYet, Lines, Sent, InTheFrontend(FrontendStep)
    PROVE  Once' /\ NotYet' /\ Lines' /\ Sent'
<1>0. UNCHANGED <<manager, worker>>
  BY DEF InTheFrontend
<1>1. CASE PublishRequest
  <2>1. /\ asking \in Web /\ asking \in Commands
        /\ asked' = TRUE /\ UNCHANGED <<asking, answer, posted, unacked>>
        /\ submitted' = Append(submitted, asking) /\ Published("frontend", asking)
    BY <1>1, WebAssumption DEF PublishRequest, Typed, TypeOK, FrontendTypeOK
  <2>2. asking \notin ToSet(submitted)
    BY <1>1, <2>1 DEF PublishRequest, NotYet
  <2>3. Once' /\ ToSet(submitted)' = ToSet(submitted) \cup {asking}
    BY <2>1, <2>2, PositionsKept
  <2>4. Lines' /\ Sent'
    BY <1>0, <2>1, <2>2, SubmitLines
  <2>5. asking \notin {Workload[i] : i \in 1..Len(Workload)}
    BY <2>1, WorkloadAssumption
  <2>6. NotYet'
    BY <2>1, <2>3, <2>5 DEF NotYet
  <2>. QED
    BY <2>3, <2>4, <2>6
<1>2. CASE Post
  <2>. DEFINE c == Workload[posted + 1]
  <2>1. /\ posted + 1 \in 1..Len(Workload) /\ posted \in Nat /\ posted' = posted + 1
        /\ UNCHANGED <<asking, asked, answer, unacked>>
        /\ submitted' = Append(submitted, c) /\ Published("frontend", c)
    BY <1>2, WorkloadAssumption DEF Post, Typed, TypeOK, FrontendTypeOK
  <2>2. c \in Commands \ Web
    BY <2>1, WorkloadAssumption
  <2>3. c \notin ToSet(submitted)
    BY <2>1 DEF NotYet
  <2>4. \A i \in 1..Len(Workload) : i > posted + 1 => Workload[i] # c
    BY <2>1, WorkloadAssumption DEF IsInjective
  <2>. HIDE DEF c
  <2>5. Once' /\ ToSet(submitted)' = ToSet(submitted) \cup {c}
    BY <2>1, <2>2, <2>3, PositionsKept
  <2>6. Lines' /\ Sent'
    BY <1>0, <2>1, <2>2, <2>3, SubmitLines
  <2>7. NotYet'
    BY <2>1, <2>2, <2>4, <2>5 DEF NotYet
  <2>. QED
    BY <2>5, <2>6, <2>7
<1>3. CASE GetAnswer
  <2>1. Lines' /\ Sent'
    BY <1>0, <1>3, QuietLines DEF GetAnswer, manager, worker, broker
  <2>2. Once'
    BY <1>3 DEF GetAnswer, Once, IsInjective
  <2>3. Head(reply_queue) # None
    BY <1>3, NamesAssumption DEF GetAnswer, Typed, TypeOK, FrontendTypeOK, Messages
  <2>4. NotYet'
    BY <1>3, <2>3, NamesAssumption DEF GetAnswer, NotYet, Typed, TypeOK, FrontendTypeOK
  <2>. QED
    BY <2>1, <2>2, <2>4
<1>4. CASE \E c \in Web : Ask(c)
  <2>1. Lines' /\ Sent'
    BY <1>0, <1>4, QuietLines DEF Ask, manager, worker, broker
  <2>2. Once'
    BY <1>4 DEF Ask, Once, IsInjective
  <2>3. NotYet'
    BY <1>4, NamesAssumption, WebAssumption DEF Ask, NotYet
  <2>. QED
    BY <2>1, <2>2, <2>3
<1>. QED
  BY <1>1, <1>2, <1>3, <1>4 DEF InTheFrontend, FrontendStep

-----------------------------------------------------------------------------
(***************************************************************************)
(* The invariant: all commands are somewhere on the row of their worker,   *)
(* in the order of their publication.                                      *)
(***************************************************************************)
OnTheWay == Once /\ NotYet /\ Lines /\ Sent

(* Nothing is on the way in the beginning.                                 *)
LEMMA OnTheWayInit == Init => OnTheWay
<1>. SUFFICES ASSUME Init PROVE OnTheWay
  OBVIOUS
<1>. USE DEF Init, BrokerInit, ManagerInit, WorkerInit, FrontendInit, Nothing
<1>1. Once
  BY DEF Once, IsInjective
<1>2. NotYet
  BY EmptySorted DEF NotYet
<1>3. ASSUME NEW w \in Workers PROVE LineOK(w)
  <2>1. \A k \in Places : Line(w)[k] = << >>
    <3>1. /\ ran = << >> /\ batch[w] = << >> /\ buffer[w] = << >> /\ queue[w] = << >>
          /\ send_buffer = << >> /\ communication = << >> /\ queue["frontend"] = << >>
      BY QueueNames
    <3>2. OneOf(incoming[w]) = << >> /\ OneOf(unacked[w]) = << >>
      BY DEF OneOf
    <3>3. Seconds(publish_buffer) = << >>
      BY DEF Seconds
    <3>. QED
      BY <3>1, <3>2, <3>3, LineAt DEF Places
  <2>2. DOMAIN Line(w) = Places
    BY DEF Line
  <2>. QED
    BY <2>1, <2>2, EmptySorted DEF LineOK, Arranged
<1>4. Sent
  BY EmptySorted DEF Sent
<1>. QED
  BY <1>1, <1>2, <1>3, <1>4 DEF OnTheWay, Lines

(* Every step keeps the order of the commands on their way.                *)
LEMMA OnTheWayNext == Typed /\ Typed' /\ OnTheWay /\ [Next]_vars => OnTheWay'
<1>. SUFFICES ASSUME Typed, Typed', OnTheWay, [Next]_vars PROVE OnTheWay'
  OBVIOUS
<1>. USE DEF OnTheWay
<1>1. CASE UNCHANGED frontend
  <2>1. Once' /\ NotYet'
    BY <1>1 DEF frontend, Once, NotYet, IsInjective
  <2>2. ASSUME Lines' /\ Sent' PROVE OnTheWay'
    BY <2>1, <2>2
  <2>3. CASE UNCHANGED vars
    BY <2>2, <2>3, QuietLines DEF vars
  <2>4. CASE InTheManager(ManagerStep)
    BY <2>2, <2>4, ManagerLines
  <2>p. CASE InTheManager(CannotParse)
    BY <2>2, <2>p, CannotParseIs, QuietLines DEF worker, frontend
  <2>5. CASE \E w \in Workers : InAWorker(WorkerThreads(w) \/ Notify(w) \/ Stops(w))
    BY <2>2, <2>5, WorkerLines
  <2>6. CASE \E w \in Workers : Respond(w)
    BY <2>2, <2>6, RespondLines
  <2>7. CASE \/ \E q \in Queues : ConsumerBack(q)
             \/ \E p \in Publishers : PublisherBack(p)
             \/ OfAConnection(Breaks)
    BY <2>2, <2>7, ConnectionLines
  <2>8. CASE Restarts
    BY <2>2, <2>8, RestartLines
  <2>9. CASE InTheFrontend(FrontendStep)
    BY <2>9, FrontendLines
  <2>. QED
    BY <2>3, <2>4, <2>p, <2>5, <2>6, <2>7, <2>8, <2>9 DEF Next
<1>2. CASE InTheFrontend(FrontendStep)
  BY <1>2, FrontendLines
<1>3. CASE \E w \in Workers : Respond(w)
  <2>1. Lines' /\ Sent'
    BY <1>3, RespondLines
  <2>2. Once' /\ NotYet'
    BY <1>3 DEF Respond, Once, NotYet, IsInjective
  <2>. QED
    BY <2>1, <2>2
<1>. QED
  BY <1>1, <1>2, <1>3
  DEF Next, vars, frontend, InTheManager, InAWorker, ConsumerBack, PublisherBack,
      OfAConnection, Restarts

(* The commands are on the rows of their workers, in order, at all times.  *)
THEOREM OnTheWayHolds == Spec => []OnTheWay
<1>1. Init /\ []Typed /\ [][Next]_vars => []OnTheWay
  BY OnTheWayInit, OnTheWayNext, PTL
<1>. QED
  BY <1>1, TypedHolds, PTL DEF Spec

(***************************************************************************)
(* The commands of one user are run in the order in which they were        *)
(* issued, for any number of workers, users and commands and with any      *)
(* faults: the hash of the user id sends them all through the same         *)
(* buffers, and what is delivered again comes back in front of what came   *)
(* later.                                                                  *)
(***************************************************************************)
THEOREM CommandsInOrder == Spec => []InOrder
<1>1. Typed /\ OnTheWay => InOrder
  <2>. SUFFICES ASSUME Typed, OnTheWay, NEW i \in DOMAIN ran, NEW j \in DOMAIN ran, i < j,
                       UserOf[ran[i]] = UserOf[ran[j]],
                       {ran[i], ran[j]} \cap Dumplogs = {}
                PROVE  Position(ran[i]) <= Position(ran[j])
    BY DEF InOrder
  <2>1. ran \in Seq(Commands) /\ i \in 1..Len(ran) /\ j \in 1..Len(ran)
    BY DEF Typed, TypeOK, WorkerTypeOK
  <2>2. ran[i] \in Commands /\ ran[j] \in Commands
    BY <2>1
  <2>. DEFINE w == WorkerOf[ran[i]]
  <2>3. w \in Workers /\ WorkerOf[ran[j]] = w
    BY <2>2, RoutingAssumption, SameUserSameWorker
  <2>4. ran[i] \in Mine(w) /\ ran[j] \in Mine(w)
    BY <2>2, <2>3 DEF Mine
  <2>5. Sorted(ran, NotAfter(w))
    <3>1. LineOK(w) /\ 1 \in DOMAIN Line(w) /\ Line(w)[1] = ran
      BY <2>3, LineAt DEF OnTheWay, Lines, Line, Places
    <3>. QED
      BY <3>1 DEF LineOK, Arranged
  <2>6. <<ran[i], ran[j]>> \in NotAfter(w)
    BY <2>1, <2>5 DEF Sorted
  <2>. QED
    BY <2>4, <2>6 DEF NotAfter
<1>. QED
  BY <1>1, TypedHolds, OnTheWayHolds, PTL

-----------------------------------------------------------------------------
(***************************************************************************)
(* The row of the manager: what balance() has handed on, the two buffers   *)
(* before it, and the queue.  A command passes through it once.            *)
(***************************************************************************)
Stages == 1..4

ManagerLine ==
    [k \in Stages |->
        IF k = 1 THEN balanced ELSE
        IF k = 2 THEN send_buffer ELSE
        IF k = 3 THEN communication ELSE queue["frontend"]]

Earlier == {p \in Commands \X Commands : Position(p[1]) < Position(p[2])}

Submitted == [k \in Stages |-> ToSet(submitted)]

ManagerLineOK == Arranged(ManagerLine, Earlier, Submitted)

(* The stages are four numbers.                                            *)
LEMMA StagesType ==
    Stages \in SUBSET Int /\ 1 \in Stages /\ 2 \in Stages /\ 3 \in Stages /\ 4 \in Stages
BY DEF Stages

(* What is at each stage.                                                  *)
LEMMA StageAt ==
    /\ DOMAIN ManagerLine = Stages
    /\ ManagerLine[1] = balanced /\ ManagerLine[2] = send_buffer
    /\ ManagerLine[3] = communication /\ ManagerLine[4] = queue["frontend"]
BY DEF ManagerLine, Stages

(* ... and what is there after a step.                                     *)
LEMMA StageAtNext ==
    /\ ManagerLine'[1] = balanced' /\ ManagerLine'[2] = send_buffer'
    /\ ManagerLine'[3] = communication' /\ ManagerLine'[4] = queue'["frontend"]
BY DEF ManagerLine, Stages

(* At each stage are commands.                                             *)
LEMMA StageType == Typed => ManagerLine \in [Stages -> Seq(Commands)]
<1>. SUFFICES ASSUME Typed PROVE ManagerLine \in [Stages -> Seq(Commands)]
  OBVIOUS
<1>1. /\ balanced \in Seq(Commands) /\ send_buffer \in Seq(Commands)
      /\ communication \in Seq(Commands) /\ queue["frontend"] \in Seq(Commands)
  BY QueueNames DEF Typed, TypeOK, ManagerTypeOK, CommandsOnly
<1>. QED
  BY <1>1 DEF ManagerLine

(* ... also after a step.                                                  *)
LEMMA StageTypeNext == Typed' => (ManagerLine \in [Stages -> Seq(Commands)])'
BY StageType, PTL

(* The places that an action leaves alone.                                 *)
LEMMA OtherStages ==
    ASSUME NEW K,
           1 \in K \/ balanced' = balanced, 2 \in K \/ send_buffer' = send_buffer,
           3 \in K \/ communication' = communication,
           4 \in K \/ queue'["frontend"] = queue["frontend"]
    PROVE  Besides(ManagerLine, ManagerLine', K)
<1>1. ASSUME NEW k \in Stages \ K PROVE ManagerLine'[k] = ManagerLine[k]
  BY <1>1, StageAt, StageAtNext DEF Stages
<1>. QED
  BY <1>1 DEF Besides, ManagerLine

(* Without a new submission the order of the commands is the same.         *)
LEMMA SameStages ==
    ASSUME UNCHANGED submitted PROVE Earlier' = Earlier /\ Submitted' = Submitted
BY DEF Earlier, Submitted, Position

(* The manager's row loses elements, or nothing.                           *)
LEMMA StageParts ==
    ASSUME Typed, Typed', ManagerLineOK, UNCHANGED submitted, NEW K,
           Besides(ManagerLine, ManagerLine', K),
           \A k \in K : PieceOf(ManagerLine'[k], ManagerLine[k])
    PROVE  ManagerLineOK'
<1>1. /\ ManagerLine \in [Stages -> Seq(Commands)] /\ ManagerLine' \in [Stages -> Seq(Commands)]
  BY StageType, StageTypeNext
<1>2. \A k \in Stages : PieceOf(ManagerLine'[k], ManagerLine[k])
  BY <1>1, SamePiece DEF Besides
<1>3. Arranged(ManagerLine', Earlier, Submitted)
  BY <1>1, <1>2, StagesType, ArrangedParts DEF ManagerLineOK
<1>. QED
  BY <1>3, SameStages DEF ManagerLineOK

(* A head of it moves on, or a whole buffer.                               *)
LEMMA StageMoves ==
    ASSUME Typed, Typed', ManagerLineOK, UNCHANGED submitted,
           NEW p \in Stages, NEW q \in Stages,
           \/ MovedHead(ManagerLine, ManagerLine', p, q)
           \/ MovedAll(ManagerLine, ManagerLine', p, q)
    PROVE  ManagerLineOK'
<1>1. /\ ManagerLine \in [Stages -> Seq(Commands)] /\ ManagerLine' \in [Stages -> Seq(Commands)]
  BY StageType, StageTypeNext
<1>2. Submitted[q] \subseteq Submitted[p]
  BY DEF Submitted
<1>3. CASE MovedHead(ManagerLine, ManagerLine', p, q)
  <2>1. ManagerLine[q] # << >> /\ ManagerLine[q] \in Seq(Commands)
    BY <1>1, <1>3 DEF MovedHead
  <2>2. Head(ManagerLine[q]) \in ToSet(ManagerLine[q])
    BY <2>1, HeadTailIn
  <2>3. Head(ManagerLine[q]) \in Submitted[p]
    BY <1>1, <1>2, <2>2 DEF ManagerLineOK, Arranged
  <2>4. Arranged(ManagerLine', Earlier, Submitted)
    BY <1>1, <1>3, <2>3, StagesType, ArrangedMove DEF ManagerLineOK
  <2>. QED
    BY <2>4, SameStages DEF ManagerLineOK
<1>4. CASE MovedAll(ManagerLine, ManagerLine', p, q)
  <2>1. Arranged(ManagerLine', Earlier, Submitted)
    BY <1>1, <1>2, <1>4, StagesType, ArrangedMoveAll DEF ManagerLineOK
  <2>. QED
    BY <2>1, SameStages DEF ManagerLineOK
<1>. QED
  BY <1>3, <1>4

(* A command that is published comes after all others.                     *)
LEMMA StageSubmits ==
    ASSUME Typed, Typed', Once, ManagerLineOK,
           NEW c \in Commands, c \notin ToSet(submitted), submitted' = Append(submitted, c),
           \/ Besides(ManagerLine, ManagerLine', {})
           \/ Joined(ManagerLine, ManagerLine', 4, c)
    PROVE  ManagerLineOK'
<1>. DEFINE T == ToSet(submitted)
            L == ManagerLine
            M == ManagerLine'
            Q == Earlier'
            G == Submitted'
<1>1. L \in [Stages -> Seq(Commands)] /\ M \in [Stages -> Seq(Commands)]
  BY StageType, StageTypeNext
<1>2. /\ ToSet(submitted') = T \cup {c}
      /\ \A x \in T : Position(x)' = Position(x) /\ Position(x) < Position(c)'
  BY PositionsKept
<1>3. \A k \in Stages : Submitted[k] = T /\ Submitted[k] \subseteq G[k]
  BY <1>2 DEF Submitted
<1>4. \A k, l \in Stages : \A x \in Submitted[k], y \in Submitted[l] :
         <<x, y>> \in Earlier => <<x, y>> \in Q
  BY <1>2, <1>3 DEF Earlier
<1>5. \A k \in Stages : ToSet(L[k]) \subseteq T
  BY <1>1, <1>3 DEF ManagerLineOK, Arranged
<1>6. T \subseteq Commands
  BY ToSetType DEF Typed, TypeOK, FrontendTypeOK
<1>7. \A x \in T : <<x, c>> \in Q
  BY <1>2, <1>6 DEF Earlier
<1>8. PICK p \in Stages : p = 4
  BY StagesType
<1>9. c \in G[p] /\ \A k \in Stages : k <= p /\ ~(p < k)
  BY <1>2, <1>8 DEF Submitted, Stages
<1>10. Arranged(L, Earlier, Submitted)
  BY DEF ManagerLineOK
<1>. HIDE DEF T, L, M, Q, G
<1>11. Arranged(L, Q, G)
  BY <1>1, <1>3, <1>4, <1>10, StagesType, ArrangedWeaker
<1>12. CASE Besides(L, M, {})
  <2>1. \A k \in Stages : PieceOf(M[k], L[k])
    BY <1>1, <1>12, SamePiece DEF Besides
  <2>2. Arranged(M, Q, G)
    BY <1>1, <1>11, <2>1, StagesType, ArrangedParts
  <2>. QED
    BY <2>2 DEF ManagerLineOK, M, Q, G
<1>13. CASE Joined(L, M, 4, c)
  <2>1. MayJoin(L, Q, p, c)
    BY <1>1, <1>5, <1>7, <1>9 DEF MayJoin
  <2>2. Arranged(M, Q, G)
    BY <1>1, <1>8, <1>9, <1>11, <1>13, <2>1, StagesType, ArrangedAppend
  <2>. QED
    BY <2>2 DEF ManagerLineOK, M, Q, G
<1>. QED
  BY <1>12, <1>13 DEF L, M

-----------------------------------------------------------------------------
(***************************************************************************)
(* What is counted has been handed on, and is no DUMPLOG.                  *)
(***************************************************************************)
Outstanding ==
    /\ outstanding \subseteq ToSet(balanced) \ Dumplogs
    /\ IsFiniteSet(outstanding)

Counts == ManagerLineOK /\ Outstanding /\ CountCovers

(* Nothing is handed on, counted or confirmed.                             *)
LEMMA QuietCounts ==
    ASSUME Typed, Typed', Counts,
           UNCHANGED <<balanced, send_buffer, communication, active_commands, outstanding,
                       extras, submitted>>,
           queue'["frontend"] = queue["frontend"]
    PROVE  Counts'
<1>1. Besides(ManagerLine, ManagerLine', {})
  BY OtherStages
<1>2. ManagerLineOK'
  BY <1>1, StageParts DEF Counts
<1>3. Outstanding' /\ CountCovers'
  BY DEF Counts, Outstanding, CountCovers
<1>. QED
  BY <1>2, <1>3 DEF Counts

(* The numbers of a set that grows by one, and that shrinks by one.        *)
LEMMA OneAdded ==
    ASSUME NEW S, IsFiniteSet(S), NEW c, c \notin S
    PROVE  /\ IsFiniteSet(S \cup {c}) /\ Cardinality(S) \in Nat
           /\ Cardinality(S \cup {c}) = Cardinality(S) + 1
BY FS_AddElement, FS_CardinalityType

(* ... and of one that loses one.                                          *)
LEMMA OneRemoved ==
    ASSUME NEW S, IsFiniteSet(S), NEW c
    PROVE  /\ IsFiniteSet(S \ {c})
           /\ Cardinality(S) \in Nat /\ Cardinality(S \ {c}) \in Nat
           /\ Cardinality(S \ {c}) = IF c \in S THEN Cardinality(S) - 1 ELSE Cardinality(S)
BY FS_RemoveElement, FS_CardinalityType

(* The head of the send buffer has not been handed on before.              *)
LEMMA HeadIsNew ==
    ASSUME Typed, ManagerLineOK, send_buffer # << >>
    PROVE  Head(send_buffer) \in Commands /\ Head(send_buffer) \notin ToSet(balanced)
<1>1. ManagerLine \in [Stages -> Seq(Commands)] /\ send_buffer \in Seq(Commands)
  BY StageType DEF Typed, TypeOK, ManagerTypeOK
<1>2. Head(send_buffer) \in ToSet(send_buffer) /\ Head(send_buffer) \in Commands
  BY <1>1, HeadTailIn
<1>3. \A x \in ToSet(balanced) : <<x, Head(send_buffer)>> \in Earlier
  <2>1. 1 \in Stages /\ 2 \in Stages /\ 1 < 2
    BY DEF Stages
  <2>2. \A k, l \in Stages : \A x \in ToSet(ManagerLine[k]), y \in ToSet(ManagerLine[l]) :
            k < l => <<x, y>> \in Earlier
    BY <1>1, StagesType, ArrangedAt DEF ManagerLineOK
  <2>3. \A x \in ToSet(ManagerLine[1]), y \in ToSet(ManagerLine[2]) : <<x, y>> \in Earlier
    BY <2>1, <2>2
  <2>. QED
    BY <1>2, <2>3, StageAt
<1>4. Head(send_buffer) \in ToSet(submitted)
  BY <1>1, <1>2, StagesType, StageAt DEF ManagerLineOK, Arranged, Submitted
<1>5. Position(Head(send_buffer)) \in Int
  BY <1>4, PositionOf
<1>6. <<Head(send_buffer), Head(send_buffer)>> \notin Earlier
  BY <1>5 DEF Earlier
<1>. QED
  BY <1>2, <1>3, <1>6

(* The steps of the manager keep the count.                                *)
LEMMA ManagerCounts ==
    ASSUME Typed, Typed', Counts, InTheManager(ManagerStep)
    PROVE  Counts'
<1>u. UNCHANGED submitted
  BY DEF InTheManager, frontend
<1>m. ManagerLineOK
  BY DEF Counts
<1>1. CASE Consume
  <2>. USE <1>1 DEF Consume
  <2>1. queue'["frontend"] = Tail(queue["frontend"])
    BY QueueNames DEF Delivered, Typed, TypeOK, BrokerTypeOK
  <2>2. Besides(ManagerLine, ManagerLine', {3, 4})
    BY OtherStages
  <2>3. MovedHead(ManagerLine, ManagerLine', 3, 4)
    BY <2>1, <2>2, StageAt, StageAtNext DEF MovedHead
  <2>4. ManagerLineOK'
    BY <1>u, <1>m, <2>3, StagesType, StageMoves
  <2>5. Outstanding' /\ CountCovers'
    BY DEF Counts, Outstanding, CountCovers
  <2>. QED
    BY <2>4, <2>5 DEF Counts
<1>2. CASE Balance
  <2>. USE <1>2 DEF Balance
  <2>1. Besides(ManagerLine, ManagerLine', {2, 3})
    BY OtherStages DEF broker
  <2>2. MovedAll(ManagerLine, ManagerLine', 2, 3)
    BY <2>1, StageAt, StageAtNext DEF MovedAll
  <2>3. ManagerLineOK'
    BY <1>u, <1>m, <2>2, StagesType, StageMoves
  <2>4. Outstanding' /\ CountCovers'
    BY DEF Counts, Outstanding, CountCovers
  <2>. QED
    BY <2>3, <2>4 DEF Counts
<1>3. CASE ForwardDumplog \/ Forward
  <2>. DEFINE c == Head(send_buffer)
  <2>1. /\ send_buffer # << >> /\ send_buffer' = Tail(send_buffer)
        /\ balanced' = Append(balanced, c) /\ UNCHANGED <<queue, communication, extras>>
    BY <1>3 DEF ForwardDumplog, Forward, broker
  <2>2. c \in Commands /\ c \notin ToSet(balanced) /\ balanced \in Seq(Commands)
    BY <1>m, <2>1, HeadIsNew DEF Typed, TypeOK, ManagerTypeOK
  <2>3. ToSet(balanced') = ToSet(balanced) \cup {c}
    BY <2>1, <2>2, AppendToSet
  <2>4. Besides(ManagerLine, ManagerLine', {1, 2})
    BY <2>1, OtherStages
  <2>5. MovedHead(ManagerLine, ManagerLine', 1, 2)
    BY <2>1, <2>4, StageAt, StageAtNext DEF MovedHead
  <2>6. ManagerLineOK'
    BY <1>u, <1>m, <2>5, StagesType, StageMoves
  <2>. HIDE DEF c
  <2>7. Outstanding /\ CountCovers
    BY DEF Counts
  <2>8. CASE ForwardDumplog
    <3>1. UNCHANGED <<outstanding, active_commands>>
      BY <2>8 DEF ForwardDumplog
    <3>. QED
      BY <2>1, <2>3, <2>6, <2>7, <3>1 DEF Counts, Outstanding, CountCovers
  <2>9. CASE Forward
    <3>1. /\ c \notin Dumplogs /\ outstanding' = outstanding \cup {c}
          /\ active_commands' = active_commands + 1
      BY <2>9 DEF Forward, Counted, c
    <3>2. c \notin outstanding
      BY <2>2, <2>7 DEF Outstanding
    <3>3. /\ IsFiniteSet(outstanding') /\ Cardinality(outstanding) \in Nat
          /\ Cardinality(outstanding') = Cardinality(outstanding) + 1
      BY <2>7, <3>1, <3>2, OneAdded DEF Outstanding
    <3>4. Outstanding'
      BY <2>3, <2>7, <3>1, <3>3 DEF Outstanding
    <3>5. CountCovers'
      BY <2>1, <2>7, <3>1, <3>3 DEF CountCovers, Typed, TypeOK, ManagerTypeOK
    <3>. QED
      BY <2>6, <3>4, <3>5 DEF Counts
  <2>. QED
    BY <1>3, <2>8, <2>9
<1>4. CASE NoSuchWorker \/ PublishCommand
  <2>1. queue'["frontend"] = queue["frontend"]
    <3>1. CASE NoSuchWorker
      BY <3>1 DEF NoSuchWorker, broker
    <3>2. CASE PublishCommand
      <4>1. Head(publish_buffer)[1] \in Workers
        BY <3>2 DEF PublishCommand, Typed, TypeOK, ManagerTypeOK
      <4>. QED
        BY <3>2, <4>1, QueueNames
        DEF PublishCommand, Published, Typed, TypeOK, BrokerTypeOK
    <3>. QED
      BY <1>4, <3>1, <3>2
  <2>. QED
    BY <1>4, <1>u, <2>1, QuietCounts DEF NoSuchWorker, PublishCommand
<1>5. CASE OnReceive
  <2>. DEFINE m == Head(queue["confirm"])
  <2>1. /\ outstanding' = outstanding \ {m}
        /\ extras' = IF m \in outstanding THEN extras ELSE extras + 1
        /\ active_commands' = IF active_commands > 0 THEN active_commands - 1 ELSE active_commands
        /\ UNCHANGED <<balanced, send_buffer, communication>>
    BY <1>5 DEF OnReceive, Decremented
  <2>2. queue'["frontend"] = queue["frontend"]
    BY <1>5, QueueNames DEF OnReceive, Delivered, Typed, TypeOK, BrokerTypeOK
  <2>3. Besides(ManagerLine, ManagerLine', {})
    BY <2>1, <2>2, OtherStages
  <2>4. ManagerLineOK'
    BY <1>u, <1>m, <2>3, StageParts
  <2>. HIDE DEF m
  <2>5. Outstanding /\ CountCovers
    BY DEF Counts
  <2>6. /\ IsFiniteSet(outstanding')
        /\ Cardinality(outstanding) \in Nat /\ Cardinality(outstanding') \in Nat
        /\ Cardinality(outstanding') = IF m \in outstanding THEN Cardinality(outstanding) - 1
                                       ELSE Cardinality(outstanding)
    BY <2>1, <2>5, OneRemoved DEF Outstanding
  <2>7. Outstanding'
    BY <2>1, <2>5, <2>6 DEF Outstanding
  <2>8. CountCovers'
    BY <2>1, <2>5, <2>6 DEF CountCovers, Typed, TypeOK, ManagerTypeOK
  <2>. QED
    BY <2>4, <2>7, <2>8 DEF Counts
<1>. QED
  BY <1>1, <1>2, <1>3, <1>4, <1>5 DEF InTheManager, ManagerStep, BalancerStep

(* So do all other steps.                                                  *)
LEMMA CountsNext ==
    ASSUME Typed, Typed', Once, NotYet, Counts, [Next]_vars
    PROVE  Counts'
<1>1. CASE InTheManager(ManagerStep)
  BY <1>1, ManagerCounts
<1>2. CASE \E w \in Workers : InAWorker(WorkerThreads(w) \/ Notify(w) \/ Stops(w))
  <2>1. PICK w \in Workers : InAWorker(WorkerThreads(w) \/ Notify(w) \/ Stops(w))
    BY <1>2
  <2>2. queue'["frontend"] = queue["frontend"]
    BY <2>1, QueueNames
    DEF InAWorker, WorkerThreads, Stops, Deliver, Delivered, QueueCallback, AckArrives,
        NeverArrives, TakeBuffer, HandleCommand, Notify, WorkerDies, Requeued, MainEnds,
        broker, Typed, TypeOK, BrokerTypeOK
  <2>. QED
    BY <2>1, <2>2, QuietCounts DEF InAWorker, manager, frontend
<1>3. CASE \E w \in Workers : Respond(w)
  <2>1. queue'["frontend"] = queue["frontend"]
    BY <1>3, QueueNames DEF Respond, PublishResponse, Published, Typed, TypeOK, BrokerTypeOK
  <2>. QED
    BY <1>3, <2>1, QuietCounts DEF Respond, manager
<1>4. CASE InTheFrontend(FrontendStep)
  <2>1. UNCHANGED <<balanced, send_buffer, communication, active_commands, outstanding, extras>>
    BY <1>4 DEF InTheFrontend, manager
  <2>2. CASE GetAnswer \/ \E c \in Web : Ask(c)
    BY <2>1, <2>2, QuietCounts DEF GetAnswer, Ask, broker
  <2>3. ASSUME NEW c \in Commands, c \notin ToSet(submitted),
               submitted' = Append(submitted, c), Published("frontend", c)
        PROVE  Counts'
    <3>1. queue'["frontend"] \in {queue["frontend"], Append(queue["frontend"], c)}
      BY <2>3, QueueNames DEF Published, Typed, TypeOK, BrokerTypeOK
    <3>2. Besides(ManagerLine, ManagerLine', {4})
      BY <2>1, OtherStages
    <3>3. \/ Besides(ManagerLine, ManagerLine', {})
          \/ Joined(ManagerLine, ManagerLine', 4, c)
      BY <3>1, <3>2, StageAt, StageAtNext DEF Besides, Joined
    <3>4. ManagerLineOK'
      BY <2>3, <3>3, StageSubmits DEF Counts
    <3>5. Outstanding' /\ CountCovers'
      BY <2>1 DEF Counts, Outstanding, CountCovers
    <3>. QED
      BY <3>4, <3>5 DEF Counts
  <2>4. CASE PublishRequest
    <3>1. asking \in Commands /\ asking \in Web
      BY <2>4, WebAssumption DEF PublishRequest, Typed, TypeOK, FrontendTypeOK
    <3>2. asking \notin ToSet(submitted)
      BY <2>4, <3>1 DEF PublishRequest, NotYet
    <3>. QED
      BY <2>4, <3>1, <3>2, <2>3 DEF PublishRequest
  <2>5. CASE Post
    <3>1. posted + 1 \in 1..Len(Workload) /\ posted + 1 > posted
      BY <2>5, WorkloadAssumption DEF Post, Typed, TypeOK, FrontendTypeOK
    <3>2. Workload[posted + 1] \in Commands
      BY <3>1, WorkloadAssumption
    <3>3. Workload[posted + 1] \notin ToSet(submitted)
      BY <3>1 DEF NotYet
    <3>. QED
      BY <2>5, <3>2, <3>3, <2>3 DEF Post
  <2>. QED
    BY <1>4, <2>2, <2>4, <2>5 DEF InTheFrontend, FrontendStep
<1>5. CASE \/ \E q \in Queues : ConsumerBack(q)
           \/ \E p \in Publishers : PublisherBack(p)
           \/ OfAConnection(Breaks)
  <2>0. UNCHANGED <<manager, frontend>>
    BY <1>5 DEF ConsumerBack, PublisherBack, OfAConnection
  <2>1. CASE queue'["frontend"] = queue["frontend"]
    BY <2>0, <2>1, QuietCounts DEF manager, frontend
  <2>2. CASE \E n \in 0..Len(queue["frontend"]) : BreakAutoAck("frontend", n)
    <3>1. PICK n \in 0..Len(queue["frontend"]) : BreakAutoAck("frontend", n)
      BY <2>2
    <3>2. queue'["frontend"] = SubSeq(queue["frontend"], n + 1, Len(queue["frontend"]))
      BY <3>1, QueueNames DEF BreakAutoAck, Typed, TypeOK, BrokerTypeOK
    <3>3. PieceOf(queue'["frontend"], queue["frontend"])
      BY <3>2, QueueNames, SuffixPiece DEF Typed, CommandsOnly
    <3>4. Besides(ManagerLine, ManagerLine', {4})
      BY <2>0, OtherStages DEF manager
    <3>5. PieceOf(ManagerLine'[4], ManagerLine[4])
      BY <3>3, StageAt, StageAtNext
    <3>6. ManagerLineOK'
      BY <2>0, <3>4, <3>5, StageParts DEF Counts, frontend
    <3>7. Outstanding' /\ CountCovers'
      BY <2>0 DEF Counts, Outstanding, CountCovers, manager
    <3>. QED
      BY <3>6, <3>7 DEF Counts
  <2>3. \/ UNCHANGED queue
        \/ \E w \in Workers : BreakConsumer(w)
        \/ \E q \in Queues : \E n \in 0..Len(queue[q]) : BreakAutoAck(q, n)
    BY <1>5
    DEF ConsumerBack, PublisherBack, OfAConnection, Connect, OnChannelClosed,
        ReconnectPublisher, Breaks, BreakPublisher
  <2>4. CASE \E w \in Workers : BreakConsumer(w)
    <3>1. queue'["frontend"] = queue["frontend"]
      BY <2>4, QueueNames DEF BreakConsumer, Requeued, Typed, TypeOK, BrokerTypeOK
    <3>. QED
      BY <2>1, <3>1
  <2>5. CASE \E q \in Queues : \E n \in 0..Len(queue[q]) : BreakAutoAck(q, n)
    <3>1. PICK q \in Queues : \E n \in 0..Len(queue[q]) : BreakAutoAck(q, n)
      BY <2>5
    <3>2. CASE q = "frontend"
      BY <3>1, <3>2, <2>2
    <3>3. CASE q # "frontend"
      <4>1. queue'["frontend"] = queue["frontend"]
        BY <3>1, <3>3, QueueNames DEF BreakAutoAck, Typed, TypeOK, BrokerTypeOK
      <4>. QED
        BY <4>1, <2>1
    <3>. QED
      BY <3>2, <3>3
  <2>. QED
    BY <2>1, <2>3, <2>4, <2>5
<1>6. CASE Restarts
  <2>1. PICK n \in 0..Len(queue["frontend"]) :
            \E k \in 0..Len(queue["confirm"]) : ManagerRestarts(alive, n, k)
    BY <1>6 DEF Restarts
  <2>2. /\ send_buffer' = << >> /\ communication' = << >>
        /\ active_commands' = 0 /\ outstanding' = {}
        /\ UNCHANGED <<submitted, balanced, extras>>
    BY <1>6, <2>1 DEF ManagerRestarts, Restarts, frontend
  <2>3. queue'["frontend"] = SubSeq(queue["frontend"], n + 1, Len(queue["frontend"]))
    BY <2>1, QueueNames DEF ManagerRestarts, Typed, TypeOK, BrokerTypeOK
  <2>4. PieceOf(queue'["frontend"], queue["frontend"])
    BY <2>3, QueueNames, SuffixPiece DEF Typed, CommandsOnly
  <2>5. Besides(ManagerLine, ManagerLine', {2, 3, 4})
    BY <2>2, OtherStages
  <2>6. \A x \in {2, 3, 4} : PieceOf(ManagerLine'[x], ManagerLine[x])
    BY <2>2, <2>4, EmptyPiece, StageAt, StageAtNext
  <2>7. ManagerLineOK'
    BY <2>2, <2>5, <2>6, StageParts DEF Counts
  <2>8. IsFiniteSet({}) /\ Cardinality({}) = 0
    BY FS_EmptySet
  <2>9. extras \in Nat
    BY DEF Typed, TypeOK, ManagerTypeOK
  <2>10. Outstanding' /\ CountCovers'
    BY <2>2, <2>8, <2>9 DEF Outstanding, CountCovers
  <2>. QED
    BY <2>7, <2>10 DEF Counts
<1>7. CASE UNCHANGED vars
  BY <1>7, QuietCounts DEF vars
<1>8. CASE InTheManager(CannotParse)
  BY <1>8, CannotParseIs, QuietCounts DEF frontend
<1>. QED
  BY <1>1, <1>2, <1>3, <1>4, <1>5, <1>6, <1>7, <1>8 DEF Next

(* Nothing is counted in the beginning.                                    *)
LEMMA CountsInit == Typed /\ Init => Counts
<1>. SUFFICES ASSUME Typed, Init PROVE Counts
  OBVIOUS
<1>. USE DEF Init, BrokerInit, ManagerInit
<1>1. \A k \in Stages : ManagerLine[k] = << >>
  <2>1. queue["frontend"] = << >>
    BY QueueNames
  <2>. QED
    BY <2>1, StageAt DEF Stages
<1>2. ManagerLineOK
  BY <1>1, StageAt, EmptySorted DEF ManagerLineOK, Arranged
<1>3. IsFiniteSet({}) /\ Cardinality({}) = 0
  BY FS_EmptySet
<1>. QED
  BY <1>2, <1>3 DEF Counts, Outstanding, CountCovers

(***************************************************************************)
(* The commands pass through the manager once and are counted, at all      *)
(* times.                                                                  *)
(***************************************************************************)
THEOREM CountsHold == Spec => []Counts
<1>1. Init /\ []Typed /\ []OnTheWay /\ [][Next]_vars => []Counts
  <2>1. Typed /\ Typed' /\ OnTheWay /\ Counts /\ [Next]_vars => Counts'
    BY CountsNext DEF OnTheWay
  <2>. QED
    BY CountsInit, <2>1, PTL
<1>. QED
  BY <1>1, TypedHolds, OnTheWayHolds, PTL DEF Spec

(***************************************************************************)
(* The count active_commands of the manager is that of the counted         *)
(* commands whose response has not arrived, less at most one for each      *)
(* message that answered none of them: a DUMPLOG never waits for more than *)
(* its commands, for any number of workers and commands and with any       *)
(* faults.                                                                 *)
(***************************************************************************)
THEOREM CountIsCovered == Spec => []CountCovers
BY CountsHold, PTL DEF Counts

-----------------------------------------------------------------------------
(***************************************************************************)
(* What the manager is told: a message on the way to its count, or in the  *)
(* buffer of a worker's publisher, answers a command that was run, or is a *)
(* notice.                                                                 *)
(***************************************************************************)
Answered == ToSet(ran) \cup {Notice}

Confirmed ==
    /\ ToSet(queue["confirm"]) \subseteq Answered
    /\ \A w \in Workers : ToSet(responses[w]) \subseteq Answered

(***************************************************************************)
(* A command that was handed on and is not outstanding any more was run,   *)
(* or forgotten when the manager was started again.                        *)
(***************************************************************************)
Settled ==
    \A c \in ToSet(balanced) \ Dumplogs :
        c \in outstanding \/ c \in ToSet(ran) \/ c \in forgotten

Answers == Confirmed /\ Settled /\ Barrier

(* What was run stays in the history.                                      *)
LEMMA RanGrows ==
    ASSUME Typed, Typed', [Next]_vars
    PROVE  ToSet(ran) \subseteq ToSet(ran')
<1>1. \/ UNCHANGED ran
      \/ \E w \in Workers : batch[w] # << >> /\ ran' = Append(ran, Head(batch[w]))
  <2>1. ASSUME NEW w \in Workers, InAWorker(WorkerThreads(w) \/ Notify(w) \/ Stops(w))
        PROVE  \/ UNCHANGED ran
               \/ batch[w] # << >> /\ ran' = Append(ran, Head(batch[w]))
    <3>1. CASE HandleCommand(w) \/ MainEnds(w)
      BY <3>1 DEF HandleCommand, MainEnds
    <3>2. CASE ~(HandleCommand(w) \/ MainEnds(w))
      <4>1. UNCHANGED ran
        BY <2>1, <3>2
        DEF InAWorker, WorkerThreads, Stops, Deliver, QueueCallback, AckArrives,
            NeverArrives, TakeBuffer, Notify, WorkerDies, worker
      <4>. QED
        BY <4>1
    <3>. QED
      BY <3>1, <3>2
  <2>2. ASSUME NEW w \in Workers, Respond(w) PROVE UNCHANGED ran
    BY <2>2 DEF Respond, PublishResponse
  <2>. QED
    BY <2>1, <2>2
    DEF Next, vars, InTheManager, InTheFrontend, ConsumerBack, PublisherBack,
        OfAConnection, Restarts, WorkersRestart, worker
<1>2. ASSUME NEW w \in Workers, batch[w] # << >>, ran' = Append(ran, Head(batch[w]))
      PROVE  ToSet(ran) \subseteq ToSet(ran')
  <2>1. ran \in Seq(Commands) /\ batch[w] \in Seq(Commands)
    BY DEF Typed, TypeOK, WorkerTypeOK
  <2>2. Head(batch[w]) \in Commands
    BY <1>2, <2>1
  <2>3. ToSet(Append(ran, Head(batch[w]))) = ToSet(ran) \cup {Head(batch[w])}
    BY <2>1, <2>2, AppendToSet
  <2>. QED
    BY <1>2, <2>3
<1>. QED
  BY <1>1, <1>2

(* A worker's publisher is given responses to what was run, and notices.   *)
LEMMA ResponsesGrow ==
    ASSUME Typed, Typed', [Next]_vars, NEW w \in Workers
    PROVE  ToSet(responses'[w]) \subseteq ToSet(responses[w]) \cup Answered'
<1>0. responses \in [Workers -> Seq(Messages)]
  BY DEF Typed, TypeOK, WorkerTypeOK
<1>1. CASE \E v \in Workers : InAWorker(WorkerThreads(v) \/ Notify(v) \/ Stops(v))
  <2>1. PICK v \in Workers : InAWorker(WorkerThreads(v) \/ Notify(v) \/ Stops(v))
    BY <1>1
  <2>2. CASE HandleCommand(v)
    <3>1. /\ batch[v] # << >> /\ ran' = Append(ran, Head(batch[v]))
          /\ responses' = [responses EXCEPT ![v] = @ \o <<Head(batch[v])>>]
      BY <2>2 DEF HandleCommand, Response
    <3>2. ran \in Seq(Commands) /\ Head(batch[v]) \in Commands
      BY <3>1 DEF Typed, TypeOK, WorkerTypeOK
    <3>3. ToSet(ran') = ToSet(ran) \cup {Head(batch[v])}
      BY <3>1, <3>2, AppendToSet
    <3>4. Head(batch[v]) \in Messages
      BY <3>2 DEF Messages
    <3>5. responses'[w] \in {responses[w], responses[w] \o <<Head(batch[v])>>}
      BY <1>0, <3>1
    <3>6. responses[w] \o <<Head(batch[v])>> = Append(responses[w], Head(batch[v]))
      BY <1>0, <3>4
    <3>7. ToSet(Append(responses[w], Head(batch[v])))
            = ToSet(responses[w]) \cup {Head(batch[v])}
      BY <1>0, <3>4, AppendToSet
    <3>. QED
      BY <3>3, <3>5, <3>6, <3>7 DEF Answered
  <2>3. CASE Notify(v)
    <3>1. responses'[w] \in {responses[w], Append(responses[w], Notice)}
      BY <1>0, <2>3 DEF Notify
    <3>2. ToSet(Append(responses[w], Notice)) = ToSet(responses[w]) \cup {Notice}
      BY <1>0, AppendToSet DEF Messages
    <3>. QED
      BY <3>1, <3>2 DEF Answered
  <2>4. CASE WorkerDies(v)
    <3>1. responses'[w] \in {responses[w], << >>}
      BY <1>0, <2>4 DEF WorkerDies
    <3>. QED
      BY <3>1, EmptySorted
  <2>5. CASE ~(HandleCommand(v) \/ Notify(v) \/ WorkerDies(v))
    BY <2>1, <2>5
    DEF InAWorker, WorkerThreads, Stops, Deliver, QueueCallback, AckArrives, NeverArrives,
        TakeBuffer, MainEnds, worker
  <2>. QED
    BY <2>2, <2>3, <2>4, <2>5
<1>2. CASE \E v \in Workers : Respond(v)
  <2>1. PICK v \in Workers : Respond(v)
    BY <1>2
  <2>2. responses[v] # << >> /\ responses' = [responses EXCEPT ![v] = Tail(@)]
    BY <2>1 DEF Respond, PublishResponse
  <2>3. CASE w = v
    <3>1. ToSet(Tail(responses[v])) \subseteq ToSet(responses[v])
      BY <1>0, <2>2, HeadTailIn
    <3>. QED
      BY <1>0, <2>2, <2>3, <3>1
  <2>4. CASE w # v
    BY <1>0, <2>2, <2>4
  <2>. QED
    BY <2>3, <2>4
<1>3. CASE UNCHANGED responses
  BY <1>3
<1>. QED
  BY <1>1, <1>2, <1>3
  DEF Next, vars, InTheManager, InTheFrontend, ConsumerBack, PublisherBack,
      OfAConnection, Restarts, WorkersRestart, worker

(* Nothing else is on the way to the manager's count.                      *)
LEMMA ConfirmsGrow ==
    ASSUME Typed, Typed', [Next]_vars
    PROVE  \A m \in ToSet(queue'["confirm"]) :
               m \in ToSet(queue["confirm"]) \/ \E w \in Workers : m \in ToSet(responses[w])
<1>0. queue \in [Queues -> Seq(Messages)] /\ "confirm" \in Queues
      /\ queue["confirm"] \in Seq(Messages) /\ responses \in [Workers -> Seq(Messages)]
  BY QueueNames DEF Typed, TypeOK, WorkerTypeOK, BrokerTypeOK
<1>1. CASE queue'["confirm"] = queue["confirm"]
  BY <1>1
<1>2. ASSUME NEW n \in 0..Len(queue["confirm"]),
             queue'["confirm"] = SubSeq(queue["confirm"], n + 1, Len(queue["confirm"]))
      PROVE  ToSet(queue'["confirm"]) \subseteq ToSet(queue["confirm"])
  <2>1. PieceOf(queue'["confirm"], queue["confirm"]) /\ queue'["confirm"] \in Seq(Messages)
    BY <1>0, <1>2, SuffixPiece
  <2>2. Sorted(queue["confirm"], Messages \X Messages)
    BY <1>0 DEF Sorted
  <2>. QED
    BY <1>0, <2>1, <2>2, PieceSorted
<1>3. CASE InTheManager(ManagerStep)
  <2>1. CASE OnReceive
    <3>1. queue["confirm"] # << >> /\ queue'["confirm"] = Tail(queue["confirm"])
      BY <1>0, <2>1 DEF OnReceive, Delivered
    <3>. QED
      BY <1>0, <3>1, HeadTailIn
  <2>2. CASE ~OnReceive
    <3>1. CASE PublishCommand
      <4>1. Head(publish_buffer)[1] \in Workers
        BY <3>1 DEF PublishCommand, Typed, TypeOK, ManagerTypeOK
      <4>2. queue'["confirm"] = queue["confirm"]
        BY <1>0, <3>1, <4>1, QueueNames DEF PublishCommand, Published
      <4>. QED
        BY <4>2
    <3>2. CASE ~PublishCommand
      <4>1. queue'["confirm"] = queue["confirm"]
        BY <1>0, <1>3, <2>2, <3>2, QueueNames
        DEF InTheManager, ManagerStep, BalancerStep, Consume, Balance, ForwardDumplog,
            Forward, NoSuchWorker, Delivered, broker
      <4>. QED
        BY <4>1
    <3>. QED
      BY <3>1, <3>2
  <2>. QED
    BY <2>1, <2>2
<1>4. CASE \E w \in Workers : InAWorker(WorkerThreads(w) \/ Notify(w) \/ Stops(w))
  <2>1. queue'["confirm"] = queue["confirm"]
    BY <1>0, <1>4, QueueNames
    DEF InAWorker, WorkerThreads, Stops, Deliver, Delivered, QueueCallback, AckArrives,
        NeverArrives, TakeBuffer, HandleCommand, Notify, WorkerDies, Requeued, MainEnds,
        broker
  <2>. QED
    BY <2>1
<1>5. CASE \E w \in Workers : Respond(w)
  <2>1. PICK w \in Workers : Respond(w)
    BY <1>5
  <2>. DEFINE m == Head(responses[w])
  <2>2. responses[w] # << >> /\ (UNCHANGED queue \/ Published("confirm", m))
    BY <2>1 DEF Respond, PublishResponse
  <2>3. m \in Messages /\ m \in ToSet(responses[w])
    BY <1>0, <2>2, HeadTailIn
  <2>4. queue'["confirm"] \in {queue["confirm"], Append(queue["confirm"], m)}
    BY <1>0, <2>2 DEF Published
  <2>5. ToSet(Append(queue["confirm"], m)) = ToSet(queue["confirm"]) \cup {m}
    BY <1>0, <2>3, AppendToSet
  <2>. QED
    BY <2>3, <2>4, <2>5
<1>6. CASE InTheFrontend(FrontendStep)
  <2>1. queue'["confirm"] = queue["confirm"]
    BY <1>0, <1>6, QueueNames
    DEF InTheFrontend, FrontendStep, Ask, PublishRequest, GetAnswer, Post, Published, broker
  <2>. QED
    BY <2>1
<1>7. CASE \/ \E q \in Queues : ConsumerBack(q)
           \/ \E p \in Publishers : PublisherBack(p)
           \/ OfAConnection(Breaks)
  <2>1. \/ UNCHANGED queue
        \/ \E w \in Workers : BreakConsumer(w)
        \/ \E q \in Queues : \E n \in 0..Len(queue[q]) : BreakAutoAck(q, n)
    BY <1>7
    DEF ConsumerBack, PublisherBack, OfAConnection, Connect, OnChannelClosed,
        ReconnectPublisher, Breaks, BreakPublisher
  <2>2. CASE \E w \in Workers : BreakConsumer(w)
    <3>1. queue'["confirm"] = queue["confirm"]
      BY <1>0, <2>2, QueueNames DEF BreakConsumer, Requeued
    <3>. QED
      BY <3>1
  <2>3. CASE \E q \in Queues : \E n \in 0..Len(queue[q]) : BreakAutoAck(q, n)
    <3>1. PICK q \in Queues : \E n \in 0..Len(queue[q]) : BreakAutoAck(q, n)
      BY <2>3
    <3>2. PICK n \in 0..Len(queue[q]) : BreakAutoAck(q, n)
      BY <3>1
    <3>4. CASE q = "confirm"
      <4>1. queue'["confirm"] = SubSeq(queue["confirm"], n + 1, Len(queue["confirm"]))
        BY <1>0, <3>2, <3>4 DEF BreakAutoAck
      <4>. QED
        BY <3>4, <4>1, <1>2
    <3>5. CASE q # "confirm"
      <4>1. queue'["confirm"] = queue["confirm"]
        BY <1>0, <3>2, <3>5 DEF BreakAutoAck
      <4>. QED
        BY <4>1
    <3>. QED
      BY <3>4, <3>5
  <2>. QED
    BY <1>1, <2>1, <2>2, <2>3
<1>8. CASE Restarts
  <2>1. PICK n \in 0..Len(queue["frontend"]) :
            \E k \in 0..Len(queue["confirm"]) : ManagerRestarts(alive, n, k)
    BY <1>8 DEF Restarts
  <2>2. PICK k \in 0..Len(queue["confirm"]) : ManagerRestarts(alive, n, k)
    BY <2>1
  <2>3. queue'["confirm"] = SubSeq(queue["confirm"], k + 1, Len(queue["confirm"]))
    BY <1>0, <2>2, QueueNames DEF ManagerRestarts
  <2>. QED
    BY <1>2, <2>3
<1>9. CASE UNCHANGED vars
  BY <1>9 DEF vars
<1>10. CASE InTheManager(CannotParse)
  BY <1>10, CannotParseIs
<1>. QED
  BY <1>3, <1>4, <1>5, <1>6, <1>7, <1>8, <1>9, <1>10 DEF Next

(* So no step makes a message that answers nothing.                        *)
LEMMA ConfirmedNext ==
    ASSUME Typed, Typed', Confirmed, [Next]_vars
    PROVE  Confirmed'
<1>1. Answered \subseteq Answered'
  BY RanGrows DEF Answered
<1>2. ToSet(queue'["confirm"]) \subseteq Answered'
  BY <1>1, ConfirmsGrow DEF Confirmed
<1>3. ASSUME NEW w \in Workers PROVE ToSet(responses'[w]) \subseteq Answered'
  BY <1>1, ResponsesGrow DEF Confirmed
<1>. QED
  BY <1>2, <1>3 DEF Confirmed

(***************************************************************************)
(* When the count is zero and no message was taken for another, nothing is *)
(* outstanding: all that was handed on has been run, or forgotten.         *)
(***************************************************************************)
LEMMA NothingOutstanding ==
    ASSUME Typed, Counts, Settled, active_commands = 0, extras = 0
    PROVE  ToSet(balanced) \ Dumplogs \subseteq ToSet(ran) \cup forgotten
<1>1. Cardinality(outstanding) \in Nat
  BY FS_CardinalityType DEF Counts, Outstanding
<1>2. Cardinality(outstanding) = 0
  BY <1>1 DEF Counts, CountCovers
<1>3. outstanding = {}
  BY <1>2, FS_EmptySet DEF Counts, Outstanding
<1>. QED
  BY <1>3 DEF Settled

(* A command is handed on: only a DUMPLOG has to wait for those before it. *)
LEMMA HandedOn ==
    ASSUME Typed, Barrier, NEW c \in Commands, balanced' = Append(balanced, c),
           ToSet(ran) \subseteq ToSet(ran'), UNCHANGED forgotten, extras' = 0 => extras = 0,
           c \in Dumplogs /\ extras = 0
             => ToSet(balanced) \ Dumplogs \subseteq ToSet(ran) \cup forgotten
    PROVE  Barrier'
<1>0. balanced \in Seq(Commands)
  BY DEF Typed, TypeOK, ManagerTypeOK
<1>. SUFFICES ASSUME extras' = 0, NEW i \in DOMAIN balanced', NEW j \in DOMAIN balanced',
                     i < j, balanced'[i] \notin Dumplogs, balanced'[j] \in Dumplogs
              PROVE  balanced'[i] \in ToSet(ran') \cup forgotten'
  BY DEF Barrier
<1>1. i \in 1..Len(balanced) /\ balanced'[i] = balanced[i]
  BY <1>0
<1>2. balanced[i] \in ToSet(balanced)
  BY <1>0, <1>1, ToSetOf
<1>3. CASE j \in 1..Len(balanced)
  BY <1>0, <1>1, <1>3 DEF Barrier
<1>4. CASE j = Len(balanced) + 1
  BY <1>0, <1>1, <1>2, <1>4
<1>. QED
  BY <1>0, <1>3, <1>4

(* The steps that hand commands on, count responses, or start again.       *)
LEMMA SettledNext ==
    ASSUME Typed, Typed', Counts, Answers, [Next]_vars
    PROVE  Settled' /\ Barrier'
<1>0. ToSet(ran) \subseteq ToSet(ran')
  BY RanGrows
<1>1. CASE UNCHANGED <<balanced, outstanding, forgotten, extras>>
  <2>1. Settled'
    BY <1>0, <1>1 DEF Answers, Settled
  <2>2. Barrier'
    BY <1>0, <1>1 DEF Answers, Barrier
  <2>. QED
    BY <2>1, <2>2
<1>2. CASE InTheManager(ForwardDumplog \/ Forward)
  <2>. DEFINE c == Head(send_buffer)
  <2>1. /\ send_buffer # << >> /\ balanced' = Append(balanced, c)
        /\ UNCHANGED <<forgotten, extras>>
    BY <1>2 DEF InTheManager, ForwardDumplog, Forward
  <2>2. c \in Commands /\ balanced \in Seq(Commands)
    BY <2>1 DEF Typed, TypeOK, ManagerTypeOK
  <2>3. ToSet(balanced') = ToSet(balanced) \cup {c}
    BY <2>1, <2>2, AppendToSet
  <2>4. CASE ForwardDumplog
    <3>1. active_commands = 0 /\ c \in Dumplogs /\ UNCHANGED outstanding
      BY <2>4 DEF ForwardDumplog, MaySend
    <3>2. Settled'
      BY <1>0, <2>1, <2>3, <3>1 DEF Answers, Settled
    <3>3. Barrier'
      BY <1>0, <2>1, <2>2, <3>1, NothingOutstanding, HandedOn DEF Answers
    <3>. QED
      BY <3>2, <3>3
  <2>5. CASE Forward
    <3>1. c \notin Dumplogs /\ outstanding' = outstanding \cup {c}
      BY <2>5 DEF Forward
    <3>2. Settled'
      BY <1>0, <2>1, <2>3, <3>1 DEF Answers, Settled
    <3>3. Barrier'
      BY <1>0, <2>1, <2>2, <3>1, HandedOn DEF Answers
    <3>. QED
      BY <3>2, <3>3
  <2>. QED
    BY <1>2, <2>4, <2>5 DEF InTheManager
<1>3. CASE InTheManager(OnReceive)
  <2>. DEFINE m == Head(queue["confirm"])
  <2>1. /\ queue["confirm"] # << >> /\ outstanding' = outstanding \ {m}
        /\ extras' = IF m \in outstanding THEN extras ELSE extras + 1
        /\ UNCHANGED <<balanced, forgotten>>
    BY <1>3 DEF InTheManager, OnReceive
  <2>2. queue["confirm"] \in Seq(Messages) /\ extras \in Nat /\ balanced \in Seq(Commands)
    BY QueueNames DEF Typed, TypeOK, BrokerTypeOK, ManagerTypeOK
  <2>3. m \in ToSet(queue["confirm"])
    BY <2>1, <2>2, HeadTailIn
  <2>4. m \in ToSet(ran) \/ m = Notice
    BY <2>3 DEF Answers, Confirmed, Answered
  <2>5. Notice \notin ToSet(balanced)
    BY <2>2, ToSetOf, NamesAssumption
  <2>. HIDE DEF m
  <2>6. Settled'
    BY <1>0, <2>1, <2>4, <2>5 DEF Answers, Settled
  <2>7. extras' = 0 => extras = 0
    BY <2>1, <2>2
  <2>8. Barrier'
    BY <1>0, <2>1, <2>7 DEF Answers, Barrier
  <2>. QED
    BY <2>6, <2>8
<1>4. CASE Restarts
  <2>1. /\ outstanding' = {} /\ forgotten' = forgotten \cup outstanding
        /\ UNCHANGED <<balanced, extras>>
    BY <1>4 DEF Restarts, ManagerRestarts
  <2>2. Settled'
    BY <1>0, <2>1 DEF Answers, Settled
  <2>3. Barrier'
    BY <1>0, <2>1 DEF Answers, Barrier
  <2>. QED
    BY <2>2, <2>3
<1>5. CASE InTheManager(CannotParse)
  BY <1>1, <1>5, CannotParseIs
<1>. QED
  <2>1. CASE InTheManager(ManagerStep)
    BY <1>1, <1>2, <1>3, <2>1
    DEF InTheManager, ManagerStep, BalancerStep, Consume, Balance, NoSuchWorker, PublishCommand
  <2>2. CASE ~InTheManager(ManagerStep) /\ ~InTheManager(CannotParse) /\ ~Restarts
    BY <1>1, <2>2
    DEF Next, vars, InAWorker, Respond, InTheFrontend, ConsumerBack, PublisherBack,
        OfAConnection, manager
  <2>. QED
    BY <1>4, <1>5, <2>1, <2>2

(* There are no answers in the beginning.                                  *)
LEMMA AnswersInit == Typed /\ Init => Answers
<1>. SUFFICES ASSUME Typed, Init PROVE Answers
  OBVIOUS
<1>1. /\ queue["confirm"] = << >> /\ balanced = << >>
      /\ \A w \in Workers : responses[w] = << >>
  BY QueueNames DEF Init, BrokerInit, ManagerInit, WorkerInit, Nothing
<1>2. Confirmed
  BY <1>1, EmptySorted DEF Confirmed
<1>3. Settled /\ Barrier
  BY <1>1, EmptySorted DEF Settled, Barrier
<1>. QED
  BY <1>2, <1>3 DEF Answers

(***************************************************************************)
(* The messages to the manager are answers, and what was handed on is      *)
(* outstanding or has been run.                                            *)
(***************************************************************************)
THEOREM AnswersHold == Spec => []Answers
<1>1. Init /\ []Typed /\ []Counts /\ [][Next]_vars => []Answers
  <2>1. Typed /\ Typed' /\ Counts /\ Answers /\ [Next]_vars => Answers'
    BY ConfirmedNext, SettledNext DEF Answers
  <2>. QED
    BY AnswersInit, <2>1, PTL
<1>. QED
  BY <1>1, TypedHolds, CountsHold, PTL DEF Spec

(***************************************************************************)
(* The wait of balance(), `while active_commands != 0`, for any number of  *)
(* workers, commands, faults and restarts of the manager: a DUMPLOG is     *)
(* sent after the commands that were handed on before it have been run,    *)
(* those of an earlier life of the manager included, unless they were      *)
(* outstanding when it was started again, or a message that answers none   *)
(* of them was counted for one.                                            *)
(***************************************************************************)
THEOREM DumplogWaits == Spec => []Barrier
BY AnswersHold, PTL DEF Answers

-----------------------------------------------------------------------------
(***************************************************************************)
(* How often a command is in a sequence.                                   *)
(***************************************************************************)
Spots(c, s) == {i \in DOMAIN s : s[i] = c}

One(x, c) == IF x = c THEN 1 ELSE 0

(* It is so a natural number of times.                                     *)
LEMMA CountType ==
    ASSUME NEW S, NEW s \in Seq(S), NEW c
    PROVE  /\ IsFiniteSet(Spots(c, s)) /\ CountIn(c, s) = Cardinality(Spots(c, s))
           /\ CountIn(c, s) \in Nat
           /\ (CountIn(c, s) = 0) <=> (c \notin ToSet(s))
<1>1. DOMAIN s = 1..Len(s) /\ Len(s) \in Int /\ 1 \in Int
  OBVIOUS
<1>2. IsFiniteSet(1..Len(s)) /\ Spots(c, s) \in SUBSET (1..Len(s))
  BY <1>1, FS_Interval DEF Spots
<1>3. IsFiniteSet(Spots(c, s))
  BY <1>2, FS_Subset
<1>4. CountIn(c, s) = Cardinality(Spots(c, s))
  BY DEF CountIn, Spots
<1>5. Spots(c, s) = {} <=> c \notin ToSet(s)
  BY ToSetOf DEF Spots
<1>. QED
  BY <1>3, <1>4, <1>5, FS_CardinalityType, FS_EmptySet

(* In two sequences one after the other it is as often as in both.         *)
LEMMA CountJoined ==
    ASSUME NEW S, NEW s \in Seq(S), NEW t \in Seq(S), NEW c
    PROVE  CountIn(c, s \o t) = CountIn(c, s) + CountIn(c, t)
<1>. DEFINE m == Len(s)
            n == Len(t)
            r == s \o t
            A == Spots(c, s)
            B == Spots(c, t)
            C == {i \in (m + 1)..(m + n) : r[i] = c}
            f == [i \in B |-> i + m]
<1>1. /\ m \in Nat /\ n \in Nat /\ DOMAIN s = 1..m /\ DOMAIN t = 1..n
      /\ r \in Seq(S) /\ DOMAIN r = 1..(m + n)
      /\ \A i \in 1..m : r[i] = s[i]
      /\ \A i \in 1..n : r[i + m] = t[i]
  OBVIOUS
<1>. HIDE DEF m, n, r
<1>2. /\ A = {i \in 1..m : s[i] = c} /\ B = {i \in 1..n : t[i] = c}
      /\ Spots(c, r) = {i \in 1..(m + n) : r[i] = c}
  BY <1>1 DEF Spots
<1>3. Spots(c, r) = A \cup C /\ A \cap C = {}
  BY <1>1, <1>2
<1>4. /\ IsFiniteSet(A) /\ IsFiniteSet(B) /\ IsFiniteSet(Spots(c, r))
      /\ CountIn(c, s) = Cardinality(A) /\ CountIn(c, t) = Cardinality(B)
      /\ CountIn(c, r) = Cardinality(Spots(c, r))
      /\ CountIn(c, s) \in Nat /\ CountIn(c, t) \in Nat
  BY <1>1, CountType
<1>. HIDE DEF A, B
<1>5. f \in Bijection(B, C)
  <2>1. f \in [B -> C]
    BY <1>1, <1>2
  <2>2. IsInjective(f)
    BY <1>1, <1>2 DEF IsInjective
  <2>3. ASSUME NEW i \in C PROVE \E j \in B : f[j] = i
    <3>1. i - m \in 1..n /\ i = (i - m) + m
      BY <1>1
    <3>2. t[i - m] = c
      BY <1>1, <3>1
    <3>. QED
      BY <1>2, <3>1, <3>2
  <2>. QED
    BY <2>1, <2>2, <2>3 DEF Bijection, Injection, Surjection
<1>6. IsFiniteSet(C) /\ Cardinality(C) = Cardinality(B)
  <2>. HIDE DEF C, f
  <2>1. ExistsBijection(B, C)
    BY <1>5 DEF ExistsBijection
  <2>. QED
    BY <1>4, <2>1, FS_Bijection
<1>7. Cardinality(A \cup C) = Cardinality(A) + Cardinality(C)
  <2>. HIDE DEF C
  <2>1. Cardinality(A \cup C) = Cardinality(A) + Cardinality(C) - Cardinality({})
    BY <1>3, <1>4, <1>6, FS_Union
  <2>. QED
    BY <1>4, <1>6, <2>1, FS_EmptySet
<1>. QED
  BY <1>3, <1>4, <1>6, <1>7 DEF r

(* In one of one command, and in one of none.                              *)
LEMMA CountFew ==
    ASSUME NEW c
    PROVE  CountIn(c, << >>) = 0 /\ \A x : CountIn(c, <<x>>) = One(x, c)
<1>1. CountIn(c, << >>) = 0
  <2>1. Spots(c, << >>) = {}
    BY DEF Spots
  <2>. QED
    BY <2>1, FS_EmptySet DEF CountIn, Spots
<1>2. ASSUME NEW x PROVE CountIn(c, <<x>>) = One(x, c)
  <2>1. Spots(c, <<x>>) = IF x = c THEN {1} ELSE {}
    BY DEF Spots
  <2>. QED
    BY <2>1, FS_EmptySet, FS_Singleton DEF CountIn, Spots, One
<1>. QED
  BY <1>1, <1>2

(* When one more joins, and when the first one leaves.                     *)
LEMMA CountAppend ==
    ASSUME NEW S, NEW s \in Seq(S), NEW x \in S, NEW c
    PROVE  CountIn(c, Append(s, x)) = CountIn(c, s) + One(x, c)
<1>1. Append(s, x) = s \o <<x>> /\ <<x>> \in Seq(S)
  OBVIOUS
<1>. QED
  BY <1>1, CountJoined, CountFew

LEMMA CountTail ==
    ASSUME NEW S, NEW s \in Seq(S), s # << >>, NEW c
    PROVE  CountIn(c, s) = One(Head(s), c) + CountIn(c, Tail(s))
<1>1. s = <<Head(s)>> \o Tail(s) /\ <<Head(s)>> \in Seq(S) /\ Tail(s) \in Seq(S)
  OBVIOUS
<1>2. CountIn(c, <<Head(s)>> \o Tail(s)) = CountIn(c, <<Head(s)>>) + CountIn(c, Tail(s))
  BY <1>1, CountJoined
<1>. QED
  BY <1>1, <1>2, CountFew

(* When the first n leave.                                                 *)
LEMMA CountSuffix ==
    ASSUME NEW S, NEW s \in Seq(S), NEW n \in 0..Len(s), NEW c
    PROVE  /\ CountIn(c, s) = CountIn(c, SubSeq(s, 1, n)) + CountIn(c, SubSeq(s, n + 1, Len(s)))
           /\ SubSeq(s, 1, n) \in Seq(S) /\ SubSeq(s, n + 1, Len(s)) \in Seq(S)
<1>. DEFINE a == SubSeq(s, 1, n)
            b == SubSeq(s, n + 1, Len(s))
<1>1. a \in Seq(S) /\ b \in Seq(S) /\ Len(a) = n /\ Len(b) = Len(s) - n /\ Len(s) \in Nat
  OBVIOUS
<1>2. /\ \A i \in 1..n : a[i] = s[i]
      /\ \A i \in 1..(Len(s) - n) : b[i] = s[n + i]
  OBVIOUS
<1>. HIDE DEF a, b
<1>3. a \o b \in Seq(S) /\ Len(a \o b) = Len(s)
  BY <1>1
<1>4. ASSUME NEW i \in 1..Len(s) PROVE (a \o b)[i] = s[i]
  <2>1. CASE i <= n
    BY <1>1, <1>2, <2>1
  <2>2. CASE i > n
    <3>1. (a \o b)[i] = b[i - n] /\ i - n \in 1..(Len(s) - n) /\ n + (i - n) = i
      BY <1>1, <2>2
    <3>. QED
      BY <1>2, <3>1
  <2>. QED
    BY <1>1, <2>1, <2>2
<1>5. a \o b = s
  <2>. DEFINE r == a \o b
  <2>1. r \in Seq(S) /\ Len(r) = Len(s) /\ \A i \in 1..Len(s) : r[i] = s[i]
    BY <1>3, <1>4
  <2>. HIDE DEF r
  <2>2. r = s
    BY <2>1
  <2>. QED
    BY <2>2 DEF r
<1>. QED
  BY <1>1, <1>5, CountJoined DEF a, b

-----------------------------------------------------------------------------
(***************************************************************************)
(* The copies of a command: those that are on no worker, or have been run, *)
(* and those that a worker holds.  A step changes what one worker holds at *)
(* most.                                                                   *)
(***************************************************************************)
Elsewhere(c) ==
    CountIn(c, queue["frontend"]) + CountIn(c, communication) + CountIn(c, send_buffer)
    + CountIn(c, Seconds(publish_buffer)) + CountIn(c, ran)

HeldBy(w, c) ==
    CountIn(c, queue[w]) + CountIn(c, OneOf(incoming[w])) + CountIn(c, buffer[w])
    + CountIn(c, batch[w])

(* The sequences that hold commands.                                       *)
LEMMA SequencesTyped ==
    ASSUME Typed
    PROVE  /\ queue["frontend"] \in Seq(Commands) /\ communication \in Seq(Commands)
           /\ send_buffer \in Seq(Commands) /\ Seconds(publish_buffer) \in Seq(Commands)
           /\ ran \in Seq(Commands)
           /\ \A w \in Workers : /\ queue[w] \in Seq(Commands) /\ buffer[w] \in Seq(Commands)
                                 /\ OneOf(incoming[w]) \in Seq(Commands)
                                 /\ batch[w] \in Seq(Commands)
<1>1. \A w \in Workers : Line(w) \in [Places -> Seq(Commands)]
  BY LineType
<1>2. ASSUME NEW w \in Workers
      PROVE  /\ ran \in Seq(Commands) /\ batch[w] \in Seq(Commands) /\ buffer[w] \in Seq(Commands)
             /\ OneOf(incoming[w]) \in Seq(Commands) /\ queue[w] \in Seq(Commands)
             /\ Seconds(publish_buffer) \in Seq(Commands) /\ send_buffer \in Seq(Commands)
             /\ communication \in Seq(Commands) /\ queue["frontend"] \in Seq(Commands)
  <2>1. /\ Line(w)[1] \in Seq(Commands) /\ Line(w)[2] \in Seq(Commands)
        /\ Line(w)[3] \in Seq(Commands) /\ Line(w)[4] \in Seq(Commands)
        /\ Line(w)[6] \in Seq(Commands) /\ Line(w)[7] \in Seq(Commands)
        /\ Line(w)[8] \in Seq(Commands) /\ Line(w)[9] \in Seq(Commands)
        /\ Line(w)[10] \in Seq(Commands)
    BY <1>1, SMTT(30) DEF Places
  <2>2. /\ Line(w)[1] = ran /\ Line(w)[2] = batch[w] /\ Line(w)[3] = buffer[w]
        /\ Line(w)[4] = OneOf(incoming[w]) /\ Line(w)[6] = queue[w]
        /\ Line(w)[7] = Seconds(publish_buffer) /\ Line(w)[8] = send_buffer
        /\ Line(w)[9] = communication /\ Line(w)[10] = queue["frontend"]
    BY LineAt
  <2>. QED
    BY <2>1, <2>2, Zenon
<1>3. Worker0 \in Workers
  BY CommandsAssumption
<1>. QED
  BY <1>2, <1>3

LEMMA SequencesTypedNext ==
    ASSUME Typed'
    PROVE  /\ queue'["frontend"] \in Seq(Commands) /\ communication' \in Seq(Commands)
           /\ send_buffer' \in Seq(Commands) /\ Seconds(publish_buffer') \in Seq(Commands)
           /\ ran' \in Seq(Commands)
           /\ \A w \in Workers : /\ queue'[w] \in Seq(Commands) /\ buffer'[w] \in Seq(Commands)
                                 /\ OneOf(incoming'[w]) \in Seq(Commands)
                                 /\ batch'[w] \in Seq(Commands)
<1>1. \A w \in Workers : Line(w)' \in [Places -> Seq(Commands)]
  BY LineTypeNext
<1>2. ASSUME NEW w \in Workers
      PROVE  /\ ran' \in Seq(Commands) /\ batch'[w] \in Seq(Commands) /\ buffer'[w] \in Seq(Commands)
             /\ OneOf(incoming'[w]) \in Seq(Commands) /\ queue'[w] \in Seq(Commands)
             /\ Seconds(publish_buffer') \in Seq(Commands) /\ send_buffer' \in Seq(Commands)
             /\ communication' \in Seq(Commands) /\ queue'["frontend"] \in Seq(Commands)
  <2>1. /\ Line(w)'[1] \in Seq(Commands) /\ Line(w)'[2] \in Seq(Commands)
        /\ Line(w)'[3] \in Seq(Commands) /\ Line(w)'[4] \in Seq(Commands)
        /\ Line(w)'[6] \in Seq(Commands) /\ Line(w)'[7] \in Seq(Commands)
        /\ Line(w)'[8] \in Seq(Commands) /\ Line(w)'[9] \in Seq(Commands)
        /\ Line(w)'[10] \in Seq(Commands)
    BY <1>1, SMTT(30) DEF Places
  <2>2. /\ Line(w)'[1] = ran' /\ Line(w)'[2] = batch'[w] /\ Line(w)'[3] = buffer'[w]
        /\ Line(w)'[4] = OneOf(incoming'[w]) /\ Line(w)'[6] = queue'[w]
        /\ Line(w)'[7] = Seconds(publish_buffer') /\ Line(w)'[8] = send_buffer'
        /\ Line(w)'[9] = communication' /\ Line(w)'[10] = queue'["frontend"]
    BY LineAtNext
  <2>. QED
    BY <2>1, <2>2, Zenon
<1>3. Worker0 \in Workers
  BY CommandsAssumption
<1>. QED
  BY <1>2, <1>3

(* The counts are natural numbers.                                         *)
LEMMA NumbersTyped ==
    ASSUME Typed, NEW c
    PROVE  /\ CountIn(c, queue["frontend"]) \in Nat /\ CountIn(c, communication) \in Nat
           /\ CountIn(c, send_buffer) \in Nat /\ CountIn(c, Seconds(publish_buffer)) \in Nat
           /\ CountIn(c, ran) \in Nat /\ Elsewhere(c) \in Nat
           /\ \A w \in Workers : /\ CountIn(c, queue[w]) \in Nat /\ CountIn(c, buffer[w]) \in Nat
                                 /\ CountIn(c, OneOf(incoming[w])) \in Nat
                                 /\ CountIn(c, batch[w]) \in Nat /\ HeldBy(w, c) \in Nat
<1>1. \A s \in Seq(Commands) : CountIn(c, s) \in Nat
  BY CountType
<1>2. /\ CountIn(c, queue["frontend"]) \in Nat /\ CountIn(c, communication) \in Nat
      /\ CountIn(c, send_buffer) \in Nat /\ CountIn(c, Seconds(publish_buffer)) \in Nat
      /\ CountIn(c, ran) \in Nat
  BY <1>1, SequencesTyped
<1>3. ASSUME NEW w \in Workers
      PROVE  /\ CountIn(c, queue[w]) \in Nat /\ CountIn(c, buffer[w]) \in Nat
             /\ CountIn(c, OneOf(incoming[w])) \in Nat /\ CountIn(c, batch[w]) \in Nat
  BY <1>1, SequencesTyped
<1>. QED
  BY <1>2, <1>3 DEF Elsewhere, HeldBy

(* What they are after a step.                                             *)
LEMMA ElsewhereNext ==
    \A c : Elsewhere(c)' = CountIn(c, queue'["frontend"]) + CountIn(c, communication')
                           + CountIn(c, send_buffer') + CountIn(c, Seconds(publish_buffer'))
                           + CountIn(c, ran')
BY DEF Elsewhere, CountIn, Seconds

LEMMA HeldByNext ==
    \A c, w : HeldBy(w, c)' = CountIn(c, queue'[w]) + CountIn(c, OneOf(incoming'[w]))
                              + CountIn(c, buffer'[w]) + CountIn(c, batch'[w])
BY DEF HeldBy, CountIn, OneOf

LEMMA NumbersTypedNext ==
    ASSUME Typed', NEW c
    PROVE  /\ CountIn(c, queue'["frontend"]) \in Nat /\ CountIn(c, communication') \in Nat
           /\ CountIn(c, send_buffer') \in Nat /\ CountIn(c, Seconds(publish_buffer')) \in Nat
           /\ CountIn(c, ran') \in Nat /\ Elsewhere(c)' \in Nat
           /\ \A w \in Workers : /\ CountIn(c, queue'[w]) \in Nat /\ CountIn(c, buffer'[w]) \in Nat
                                 /\ CountIn(c, OneOf(incoming'[w])) \in Nat
                                 /\ CountIn(c, batch'[w]) \in Nat /\ HeldBy(w, c)' \in Nat
<1>1. \A s \in Seq(Commands) : CountIn(c, s) \in Nat
  BY CountType
<1>2. /\ CountIn(c, queue'["frontend"]) \in Nat /\ CountIn(c, communication') \in Nat
      /\ CountIn(c, send_buffer') \in Nat /\ CountIn(c, Seconds(publish_buffer')) \in Nat
      /\ CountIn(c, ran') \in Nat
  BY <1>1, SequencesTypedNext
<1>3. ASSUME NEW w \in Workers
      PROVE  /\ CountIn(c, queue'[w]) \in Nat /\ CountIn(c, buffer'[w]) \in Nat
             /\ CountIn(c, OneOf(incoming'[w])) \in Nat /\ CountIn(c, batch'[w]) \in Nat
  BY <1>1, SequencesTypedNext
<1>. QED
  BY <1>2, <1>3, ElsewhereNext, HeldByNext

(* They are all copies.                                                    *)
LEMMA CopiesAre ==
    Typed => \A c : /\ Copies(c) = Elsewhere(c) + SumFunction([w \in Workers |-> HeldBy(w, c)])
                    /\ [w \in Workers |-> HeldBy(w, c)] \in [Workers -> Int]
                    /\ \A w \in Workers : HeldBy(w, c) >= 0
<1>. SUFFICES ASSUME Typed, NEW c
              PROVE  /\ Copies(c) = Elsewhere(c) + SumFunction([w \in Workers |-> HeldBy(w, c)])
                     /\ [w \in Workers |-> HeldBy(w, c)] \in [Workers -> Int]
                     /\ \A w \in Workers : HeldBy(w, c) >= 0
  OBVIOUS
<1>1. CountIn(c, InManager) = CountIn(c, queue["frontend"]) + CountIn(c, communication)
                              + CountIn(c, send_buffer) + CountIn(c, Seconds(publish_buffer))
  <2>. DEFINE a == queue["frontend"]
              b == communication
              d == send_buffer
              e == Seconds(publish_buffer)
  <2>1. a \in Seq(Commands) /\ b \in Seq(Commands) /\ d \in Seq(Commands) /\ e \in Seq(Commands)
    BY SequencesTyped
  <2>2. InManager = ((a \o b) \o d) \o e
    BY DEF InManager, Seconds
  <2>. HIDE DEF a, b, d, e
  <2>3. a \o b \in Seq(Commands) /\ (a \o b) \o d \in Seq(Commands)
    BY <2>1
  <2>4. /\ CountIn(c, a \o b) = CountIn(c, a) + CountIn(c, b)
        /\ CountIn(c, (a \o b) \o d) = CountIn(c, a \o b) + CountIn(c, d)
        /\ CountIn(c, ((a \o b) \o d) \o e) = CountIn(c, (a \o b) \o d) + CountIn(c, e)
    BY <2>1, <2>3, CountJoined
  <2>. QED
    BY <2>2, <2>4 DEF a, b, d, e
<1>2. ASSUME NEW w \in Workers PROVE CountIn(c, InWorker(w)) = HeldBy(w, c)
  <2>. DEFINE a == queue[w]
              b == OneOf(incoming[w])
              d == buffer[w]
              e == batch[w]
  <2>1. a \in Seq(Commands) /\ b \in Seq(Commands) /\ d \in Seq(Commands) /\ e \in Seq(Commands)
    BY SequencesTyped
  <2>2. InWorker(w) = ((a \o b) \o d) \o e
    BY DEF InWorker, OneOf
  <2>3. HeldBy(w, c) = CountIn(c, a) + CountIn(c, b) + CountIn(c, d) + CountIn(c, e)
    BY DEF HeldBy
  <2>. HIDE DEF a, b, d, e
  <2>4. a \o b \in Seq(Commands) /\ (a \o b) \o d \in Seq(Commands)
    BY <2>1
  <2>5. /\ CountIn(c, a \o b) = CountIn(c, a) + CountIn(c, b)
        /\ CountIn(c, (a \o b) \o d) = CountIn(c, a \o b) + CountIn(c, d)
        /\ CountIn(c, ((a \o b) \o d) \o e) = CountIn(c, (a \o b) \o d) + CountIn(c, e)
    BY <2>1, <2>4, CountJoined
  <2>. QED
    BY <2>2, <2>3, <2>5
<1>3. [w \in Workers |-> CountIn(c, InWorker(w))] = [w \in Workers |-> HeldBy(w, c)]
  BY <1>2
<1>4. \A w \in Workers : HeldBy(w, c) \in Nat
  BY NumbersTyped
<1>5. [w \in Workers |-> HeldBy(w, c)] \in [Workers -> Int] /\ \A w \in Workers : HeldBy(w, c) >= 0
  BY <1>4
<1>6. Copies(c) = CountIn(c, InManager) + CountIn(c, ran)
                  + SumFunction([w \in Workers |-> HeldBy(w, c)])
  BY <1>3 DEF Copies
<1>7. /\ CountIn(c, queue["frontend"]) \in Nat /\ CountIn(c, communication) \in Nat
      /\ CountIn(c, send_buffer) \in Nat /\ CountIn(c, Seconds(publish_buffer)) \in Nat
      /\ CountIn(c, ran) \in Nat
  BY NumbersTyped
<1>. QED
  BY <1>1, <1>5, <1>6, <1>7 DEF Elsewhere

LEMMA CopiesAreNext ==
    Typed' => (\A c : /\ Copies(c) = Elsewhere(c) + SumFunction([w \in Workers |-> HeldBy(w, c)])
                      /\ [w \in Workers |-> HeldBy(w, c)] \in [Workers -> Int]
                      /\ \A w \in Workers : HeldBy(w, c) >= 0)'
BY CopiesAre, PTL

(* When the copies that one worker holds change, and those that no worker  *)
(* holds, all copies change by as many.                                    *)
AtOnly(w, c) == \A x \in Workers \ {w} : HeldBy(x, c)' = HeldBy(x, c)

LEMMA CopiesChange ==
    ASSUME IsFiniteSet(Workers), Typed, Typed', NEW w \in Workers, NEW c, AtOnly(w, c)
    PROVE  /\ Copies(c) \in Nat /\ Copies(c)' \in Nat
           /\ Copies(c)' - Copies(c)
              = (Elsewhere(c)' + HeldBy(w, c)') - (Elsewhere(c) + HeldBy(w, c))
           /\ Copies(c)' >= Elsewhere(c)' + HeldBy(w, c)'
           /\ Copies(c) >= Elsewhere(c) + HeldBy(w, c)
<1>. DEFINE f == [x \in Workers |-> HeldBy(x, c)]
            g == [x \in Workers |-> HeldBy(x, c)']
<1>1. /\ Copies(c) = Elsewhere(c) + SumFunction(f) /\ Copies(c)' = Elsewhere(c)' + SumFunction(g)
      /\ f \in [Workers -> Int] /\ g \in [Workers -> Int]
      /\ (\A x \in Workers : f[x] >= 0) /\ (\A x \in Workers : g[x] >= 0)
  BY CopiesAre, CopiesAreNext
<1>2. /\ \A x \in Workers \ {w} : g[x] = f[x]
      /\ f[w] = HeldBy(w, c) /\ g[w] = HeldBy(w, c)'
  BY DEF AtOnly
<1>. HIDE DEF f, g
<1>3. SumFunction(g) = SumFunction(f) + g[w] - f[w]
  BY <1>1, <1>2, SumChanges
<1>4. f[w] <= SumFunction(f) /\ g[w] <= SumFunction(g)
  BY <1>1, SumAtLeast
<1>5. /\ SumFunction(f) \in Int /\ SumFunction(g) \in Int /\ f[w] \in Int /\ g[w] \in Int
      /\ f[w] >= 0 /\ g[w] >= 0
  BY <1>1, SumType
<1>6. Elsewhere(c) \in Nat /\ Elsewhere(c)' \in Nat
  BY NumbersTyped, NumbersTypedNext
<1>. QED
  BY <1>1, <1>2, <1>3, <1>4, <1>5, <1>6

(* They are a natural number.                                              *)
LEMMA CopiesTyped ==
    ASSUME IsFiniteSet(Workers), Typed, Typed', NEW c
    PROVE  Copies(c) \in Nat /\ Copies(c)' \in Nat
<1>. DEFINE f == [x \in Workers |-> HeldBy(x, c)]
            g == [x \in Workers |-> HeldBy(x, c)']
<1>1. /\ Copies(c) = Elsewhere(c) + SumFunction(f) /\ Copies(c)' = Elsewhere(c)' + SumFunction(g)
      /\ f \in [Workers -> Int] /\ g \in [Workers -> Int]
      /\ (\A x \in Workers : f[x] >= 0) /\ (\A x \in Workers : g[x] >= 0)
  BY CopiesAre, CopiesAreNext
<1>2. PICK w \in Workers : TRUE
  BY CommandsAssumption
<1>. HIDE DEF f, g
<1>3. /\ f[w] >= 0 /\ g[w] >= 0 /\ f[w] <= SumFunction(f) /\ g[w] <= SumFunction(g)
      /\ f[w] \in Int /\ g[w] \in Int
  BY <1>1, SumAtLeast
<1>4. SumFunction(f) \in Nat /\ SumFunction(g) \in Nat
  BY <1>1, <1>3, SumType
<1>. QED
  BY <1>1, <1>4, NumbersTyped, NumbersTypedNext

(***************************************************************************)
(* A step adds no copy but for a fault, and loses the last one only to     *)
(* dropped.                                                                *)
(***************************************************************************)
Kept(c) ==
    /\ Copies(c)' <= Copies(c) + (faults' - faults)
    /\ Copies(c)' = 0 => Copies(c) = 0 \/ c \in dropped'

AllKept == dropped \subseteq dropped' /\ \A c \in Commands : Kept(c)

(* It does when it adds n copies, at one worker at most.                   *)
LEMMA KeptBy ==
    ASSUME IsFiniteSet(Workers), Typed, Typed', NEW w \in Workers, NEW c, AtOnly(w, c),
           NEW n \in Int, n <= faults' - faults,
           Elsewhere(c)' + HeldBy(w, c)' = Elsewhere(c) + HeldBy(w, c) + n,
           n < 0 => c \in dropped' \/ Elsewhere(c)' + HeldBy(w, c)' # 0
    PROVE  Kept(c)
<1>1. /\ Elsewhere(c) \in Nat /\ Elsewhere(c)' \in Nat
      /\ HeldBy(w, c) \in Nat /\ HeldBy(w, c)' \in Nat
  BY NumbersTyped, NumbersTypedNext
<1>2. faults \in Int /\ faults' \in Int
  BY DEF Typed, TypeOK, BrokerTypeOK
<1>3. /\ Copies(c) \in Nat /\ Copies(c)' \in Nat /\ Copies(c)' = Copies(c) + n
      /\ Copies(c)' >= Elsewhere(c)' + HeldBy(w, c)'
  BY <1>1, CopiesChange
<1>4. Copies(c)' <= Copies(c) + (faults' - faults)
  <2>1. \A a, b, x, y, k \in Int : b = a + k /\ k <= y - x => b <= a + (y - x)
    OBVIOUS
  <2>2. n \in Int /\ n <= faults' - faults
    OBVIOUS
  <2>3. Copies(c) \in Int /\ Copies(c)' \in Int
    BY <1>3
  <2>4. Copies(c)' = Copies(c) + n
    BY <1>3
  <2>. QED
    BY <1>2, <2>1, <2>2, <2>3, <2>4
<1>5. ASSUME Copies(c)' = 0, c \notin dropped' PROVE Copies(c) = 0
  <2>1. Elsewhere(c)' + HeldBy(w, c)' = 0
    BY <1>1, <1>3, <1>5
  <2>2. ~(n < 0)
    BY <1>5, <2>1
  <2>. QED
    BY <1>3, <1>5, <2>2
<1>. QED
  BY <1>4, <1>5 DEF Kept

(* What a step does not change at the other workers, they hold still.      *)
LEMMA OthersHeld ==
    ASSUME NEW w \in Workers, NEW c,
           \A x \in Workers \ {w} :
               /\ queue'[x] = queue[x] /\ incoming'[x] = incoming[x]
               /\ buffer'[x] = buffer[x] /\ batch'[x] = batch[x]
    PROVE  AtOnly(w, c)
BY HeldByNext DEF AtOnly, HeldBy

(* No sequence of commands changes: no copy does.                          *)
Still ==
    /\ UNCHANGED <<ran, batch, buffer, incoming, publish_buffer, send_buffer, communication>>
    /\ \A q \in Queues \ {"confirm"} : queue'[q] = queue[q]
    /\ dropped \subseteq dropped' /\ faults <= faults'

LEMMA StillKept == ASSUME IsFiniteSet(Workers), Typed, Typed', Still PROVE AllKept
<1>. SUFFICES ASSUME NEW c \in Commands PROVE Kept(c)
  BY DEF AllKept, Still
<1>1. PICK w \in Workers : TRUE
  BY CommandsAssumption
<1>2. queue'["frontend"] = queue["frontend"] /\ \A x \in Workers : queue'[x] = queue[x]
  BY QueueNames DEF Still
<1>3. AtOnly(w, c)
  BY <1>2, OthersHeld DEF Still
<1>4. Elsewhere(c)' = Elsewhere(c) /\ HeldBy(w, c)' = HeldBy(w, c)
  BY <1>2, HeldByNext, ElsewhereNext DEF HeldBy, Elsewhere, Still
<1>5. Elsewhere(c) \in Nat /\ HeldBy(w, c) \in Nat
  BY NumbersTyped
<1>6. faults \in Int /\ faults' \in Int
  BY DEF Typed, TypeOK, BrokerTypeOK
<1>7. PICK n \in Int : n = 0
  OBVIOUS
<1>8. n <= faults' - faults
  <2>1. faults <= faults'
    BY DEF Still
  <2>2. \A k, x, y \in Int : k = 0 /\ x <= y => k <= y - x
    OBVIOUS
  <2>. QED
    BY <1>6, <1>7, <2>1, <2>2
<1>9. Elsewhere(c)' + HeldBy(w, c)' = Elsewhere(c) + HeldBy(w, c) + n
  BY <1>4, <1>5, <1>7
<1>10. ~(n < 0)
  BY <1>7
<1>. QED
  BY <1>3, <1>8, <1>9, <1>10, KeptBy

(* A step that loses n copies, but none to nowhere.                        *)
LEMMA FewerKept ==
    ASSUME IsFiniteSet(Workers), Typed, Typed', NEW w \in Workers, NEW c, AtOnly(w, c),
           NEW n \in Nat, faults <= faults',
           Elsewhere(c)' + HeldBy(w, c)' + n = Elsewhere(c) + HeldBy(w, c),
           n # 0 => c \in dropped' \/ Elsewhere(c)' + HeldBy(w, c)' # 0
    PROVE  Kept(c)
<1>1. faults \in Int /\ faults' \in Int
  BY DEF Typed, TypeOK, BrokerTypeOK
<1>2. /\ Elsewhere(c) \in Int /\ HeldBy(w, c) \in Int
      /\ Elsewhere(c)' \in Int /\ HeldBy(w, c)' \in Int
  BY NumbersTyped, NumbersTypedNext
<1>3. PICK m \in Int : m = 0 - n
  OBVIOUS
<1>4. m <= faults' - faults
  <2>1. \A k \in Nat : \A l, x, y \in Int : l = 0 - k /\ x <= y => l <= y - x
    OBVIOUS
  <2>. QED
    BY <1>1, <1>3, <2>1
<1>5. Elsewhere(c)' + HeldBy(w, c)' = Elsewhere(c) + HeldBy(w, c) + m
  BY <1>2, <1>3
<1>6. m < 0 => n # 0
  BY <1>3
<1>. QED
  BY <1>4, <1>5, <1>6, KeptBy

(* One that only hands copies on.                                          *)
LEMMA SameKept ==
    ASSUME IsFiniteSet(Workers), Typed, Typed', NEW w \in Workers, NEW c, AtOnly(w, c),
           faults <= faults',
           Elsewhere(c)' + HeldBy(w, c)' = Elsewhere(c) + HeldBy(w, c)
    PROVE  Kept(c)
<1>1. PICK n \in Nat : n = 0
  OBVIOUS
<1>2. /\ Elsewhere(c) \in Int /\ HeldBy(w, c) \in Int
      /\ Elsewhere(c)' \in Int /\ HeldBy(w, c)' \in Int
  BY NumbersTyped, NumbersTypedNext
<1>3. Elsewhere(c)' + HeldBy(w, c)' + n = Elsewhere(c) + HeldBy(w, c)
  BY <1>1, <1>2
<1>. QED
  BY <1>1, <1>3, FewerKept

LEMMA OneType == \A x, c : One(x, c) \in Nat
BY DEF One

(* The number of faults is a number.                                       *)
LEMMA FaultsSame == Typed /\ UNCHANGED faults => faults <= faults'
BY FaultsAssumption DEF Typed, TypeOK, BrokerTypeOK

-----------------------------------------------------------------------------
(* The manager takes a command.                                            *)
LEMMA ConsumeKept ==
    ASSUME IsFiniteSet(Workers), Typed, Typed', InTheManager(Consume)
    PROVE  AllKept
<1>. USE DEF InTheManager, Consume, worker, frontend
<1>. SUFFICES ASSUME NEW c \in Commands PROVE Kept(c)
  BY DEF AllKept
<1>1. PICK w \in Workers : TRUE
  BY CommandsAssumption
<1>. DEFINE q == queue["frontend"]
<1>2. queue' = [queue EXCEPT !["frontend"] = Tail(q)]
  BY DEF Delivered
<1>3. queue'["frontend"] = Tail(q) /\ \A x \in Workers : queue'[x] = queue[x]
  BY <1>2, QueueNames DEF Typed, TypeOK, BrokerTypeOK
<1>4. AtOnly(w, c)
  BY <1>3, OthersHeld
<1>5. q \in Seq(Commands) /\ q # << >> /\ Head(q) \in Commands
  BY SequencesTyped
<1>. HIDE DEF q
<1>6. CountIn(c, q) = One(Head(q), c) + CountIn(c, Tail(q))
  BY <1>5, CountTail
<1>7. CountIn(c, communication') = CountIn(c, communication) + One(Head(q), c)
  BY <1>5, SequencesTyped, CountAppend DEF q
<1>8. HeldBy(w, c)' = HeldBy(w, c)
  BY <1>3, HeldByNext DEF HeldBy
<1>9. Elsewhere(c)' = Elsewhere(c)
  <2>1. Elsewhere(c) = CountIn(c, q) + CountIn(c, communication) + CountIn(c, send_buffer)
                       + CountIn(c, Seconds(publish_buffer)) + CountIn(c, ran)
    BY DEF Elsewhere, q
  <2>2. Elsewhere(c)' = CountIn(c, Tail(q)) + CountIn(c, communication')
                        + CountIn(c, send_buffer) + CountIn(c, Seconds(publish_buffer))
                        + CountIn(c, ran)
    BY <1>3, ElsewhereNext
  <2>3. /\ CountIn(c, q) \in Nat /\ CountIn(c, communication) \in Nat
        /\ CountIn(c, send_buffer) \in Nat /\ CountIn(c, Seconds(publish_buffer)) \in Nat
        /\ CountIn(c, ran) \in Nat /\ CountIn(c, Tail(q)) \in Nat
    BY <1>3, NumbersTyped, NumbersTypedNext DEF q
  <2>. QED
    BY <1>6, <1>7, <2>1, <2>2, <2>3, OneType
<1>. QED
  BY <1>4, <1>8, <1>9, FaultsSame, SameKept

(* The main loop of the manager hands them on.                             *)
LEMMA BalancerKept ==
    ASSUME IsFiniteSet(Workers), Typed, Typed', InTheManager(BalancerStep)
    PROVE  AllKept
<1>. USE DEF InTheManager, worker, frontend
<1>. DEFINE s == send_buffer
<1>0. UNCHANGED <<queue, incoming, buffer, batch, ran, dropped, faults>>
  BY DEF BalancerStep, Balance, ForwardDumplog, Forward, NoSuchWorker, broker
<1>. SUFFICES ASSUME NEW c \in Commands PROVE Kept(c)
  BY <1>0 DEF AllKept
<1>1. PICK w \in Workers : TRUE
  BY CommandsAssumption
<1>2. AtOnly(w, c) /\ HeldBy(w, c)' = HeldBy(w, c)
  BY <1>0, OthersHeld, HeldByNext DEF HeldBy
<1>3. /\ CountIn(c, communication) \in Nat /\ CountIn(c, s) \in Nat
      /\ CountIn(c, Seconds(publish_buffer)) \in Nat /\ CountIn(c, communication') \in Nat
      /\ CountIn(c, send_buffer') \in Nat /\ CountIn(c, Seconds(publish_buffer')) \in Nat
      /\ CountIn(c, queue["frontend"]) \in Nat /\ CountIn(c, ran) \in Nat
  BY NumbersTyped, NumbersTypedNext
<1>4. CountIn(c, communication') + CountIn(c, send_buffer') + CountIn(c, Seconds(publish_buffer'))
      = CountIn(c, communication) + CountIn(c, s) + CountIn(c, Seconds(publish_buffer))
  <2>1. CASE Balance
    <3>1. /\ send_buffer = << >> /\ send_buffer' = communication /\ communication' = << >>
          /\ UNCHANGED publish_buffer
      BY <2>1 DEF Balance
    <3>. QED
      BY <1>3, <3>1, CountFew
  <2>2. CASE ForwardDumplog \/ Forward
    <3>1. s # << >> /\ send_buffer' = Tail(s) /\ UNCHANGED communication
      BY <2>2 DEF ForwardDumplog, Forward
    <3>2. s \in Seq(Commands) /\ Head(s) \in Commands
      BY <3>1, SequencesTyped
    <3>3. PICK x \in Workers : publish_buffer' = Append(publish_buffer, <<x, Head(s)>>)
      <4>1. CASE ForwardDumplog
        <5>1. publish_buffer' = Append(publish_buffer, <<Worker0, Head(s)>>)
          BY <4>1 DEF ForwardDumplog
        <5>. QED
          BY <5>1, CommandsAssumption
      <4>2. CASE Forward
        <5>1. publish_buffer' = Append(publish_buffer, <<WorkerOf[Head(s)], Head(s)>>)
          BY <4>2 DEF Forward, Route
        <5>2. WorkerOf[Head(s)] \in Workers
          BY <3>2, RoutingAssumption
        <5>. QED
          BY <5>1, <5>2
      <4>. QED
        BY <2>2, <4>1, <4>2
    <3>4. publish_buffer \in Seq(Workers \X Commands)
      BY DEF Typed, TypeOK, ManagerTypeOK
    <3>. HIDE DEF s
    <3>5. Seconds(publish_buffer') = Append(Seconds(publish_buffer), Head(s))
      BY <3>2, <3>3, <3>4, SecondsAppend
    <3>6. CountIn(c, Seconds(publish_buffer')) = CountIn(c, Seconds(publish_buffer)) + One(Head(s), c)
      BY <3>2, <3>5, SequencesTyped, CountAppend
    <3>7. CountIn(c, s) = One(Head(s), c) + CountIn(c, Tail(s))
      BY <3>1, <3>2, CountTail
    <3>. QED
      BY <1>3, <3>1, <3>6, <3>7, OneType, SMTT(30)
  <2>3. CASE NoSuchWorker
    BY <2>3 DEF NoSuchWorker
  <2>. QED
    BY <2>1, <2>2, <2>3 DEF BalancerStep
<1>5. Elsewhere(c)' = Elsewhere(c)
  <2>1. Elsewhere(c)' = CountIn(c, queue["frontend"]) + CountIn(c, communication')
                        + CountIn(c, send_buffer') + CountIn(c, Seconds(publish_buffer'))
                        + CountIn(c, ran)
    BY <1>0, ElsewhereNext
  <2>. QED
    BY <1>3, <1>4, <2>1 DEF Elsewhere
<1>. QED
  BY <1>0, <1>2, <1>5, FaultsSame, SameKept

(* The manager publishes a command to the queue of a worker, or loses it.  *)
LEMMA PublishKept ==
    ASSUME IsFiniteSet(Workers), Typed, Typed', InTheManager(PublishCommand)
    PROVE  AllKept
<1>. USE DEF InTheManager, PublishCommand, worker, frontend
<1>. DEFINE p == publish_buffer
<1>1. p # << >> /\ p \in Seq(Workers \X Commands)
  BY DEF Typed, TypeOK, ManagerTypeOK
<1>a. PICK w \in Workers, d \in Commands : Head(p) = <<w, d>>
  BY <1>1
<1>2. /\ Head(Seconds(p)) = d /\ Seconds(p) # << >> /\ Seconds(publish_buffer') = Tail(Seconds(p))
      /\ Seconds(p) \in Seq(Commands)
  BY <1>1, <1>a, SecondsTail, SecondsType
<1>3. UNCHANGED <<communication, send_buffer, incoming, buffer, batch, ran, faults>>
  OBVIOUS
<1>4. \/ queue' = [queue EXCEPT ![w] = Append(queue[w], d)] /\ dropped' = dropped
      \/ queue' = queue /\ dropped' = dropped \cup {d}
  BY <1>a DEF Published
<1>5. /\ queue'["frontend"] = queue["frontend"]
      /\ \A x \in Workers \ {w} : queue'[x] = queue[x]
      /\ \/ queue'[w] = Append(queue[w], d)
         \/ queue'[w] = queue[w] /\ d \in dropped'
      /\ dropped \subseteq dropped'
  BY <1>1, <1>4, QueueNames DEF Typed, TypeOK, BrokerTypeOK
<1>. SUFFICES ASSUME NEW c \in Commands PROVE Kept(c)
  BY <1>5 DEF AllKept
<1>. HIDE DEF p
<1>6. AtOnly(w, c)
  BY <1>1, <1>3, <1>5, OthersHeld
<1>7. CountIn(c, Seconds(p)) = One(d, c) + CountIn(c, Seconds(publish_buffer'))
  BY <1>2, CountTail
<1>8. /\ CountIn(c, queue["frontend"]) \in Nat /\ CountIn(c, communication) \in Nat
      /\ CountIn(c, send_buffer) \in Nat /\ CountIn(c, Seconds(p)) \in Nat
      /\ CountIn(c, Seconds(publish_buffer')) \in Nat /\ CountIn(c, ran) \in Nat
      /\ CountIn(c, queue[w]) \in Nat /\ CountIn(c, OneOf(incoming[w])) \in Nat
      /\ CountIn(c, buffer[w]) \in Nat /\ CountIn(c, batch[w]) \in Nat
  BY <1>1, NumbersTyped, NumbersTypedNext DEF p
<1>9. /\ HeldBy(w, c) = CountIn(c, queue[w]) + CountIn(c, OneOf(incoming[w]))
                        + CountIn(c, buffer[w]) + CountIn(c, batch[w])
      /\ HeldBy(w, c)' = CountIn(c, queue'[w]) + CountIn(c, OneOf(incoming[w]))
                         + CountIn(c, buffer[w]) + CountIn(c, batch[w])
  BY <1>3, <1>5, HeldByNext DEF HeldBy
<1>10. PICK n \in Nat : n = One(d, c)
  BY OneType
<1>11. Elsewhere(c)' + n = Elsewhere(c)
  <2>1. Elsewhere(c) = CountIn(c, queue["frontend"]) + CountIn(c, communication)
                       + CountIn(c, send_buffer) + CountIn(c, Seconds(p)) + CountIn(c, ran)
    BY DEF Elsewhere, p
  <2>2. Elsewhere(c)' = CountIn(c, queue["frontend"]) + CountIn(c, communication)
                        + CountIn(c, send_buffer) + CountIn(c, Seconds(publish_buffer'))
                        + CountIn(c, ran)
    BY <1>3, <1>5, ElsewhereNext
  <2>3. CountIn(c, Seconds(p)) = n + CountIn(c, Seconds(publish_buffer'))
    BY <1>7, <1>10
  <2>. QED
    BY <1>8, <2>1, <2>2, <2>3, SMTT(30)
<1>12. /\ Elsewhere(c) \in Nat /\ Elsewhere(c)' \in Nat
       /\ HeldBy(w, c) \in Nat /\ HeldBy(w, c)' \in Nat
  BY NumbersTyped, NumbersTypedNext
<1>13. CASE queue'[w] = Append(queue[w], d)
  <2>1. CountIn(c, queue'[w]) = CountIn(c, queue[w]) + n
    BY <1>10, <1>13, SequencesTyped, CountAppend
  <2>2. HeldBy(w, c)' = HeldBy(w, c) + n
    BY <1>8, <1>9, <2>1, SMTT(30)
  <2>3. Elsewhere(c)' + HeldBy(w, c)' = Elsewhere(c) + HeldBy(w, c)
    BY <1>11, <1>12, <2>2
  <2>. QED
    BY <1>3, <1>6, <2>3, FaultsSame, SameKept
<1>14. CASE queue'[w] = queue[w] /\ d \in dropped'
  <2>1. HeldBy(w, c)' = HeldBy(w, c)
    BY <1>9, <1>14
  <2>2. Elsewhere(c)' + HeldBy(w, c)' + n = Elsewhere(c) + HeldBy(w, c)
    BY <1>11, <1>12, <2>1
  <2>3. n # 0 => c \in dropped'
    BY <1>10, <1>14 DEF One
  <2>. QED
    BY <1>3, <1>6, <2>2, <2>3, FaultsSame, FewerKept
<1>. QED
  BY <1>5, <1>13, <1>14

(* The confirmation of a response holds no command.                        *)
LEMMA OnReceiveKept ==
    ASSUME IsFiniteSet(Workers), Typed, Typed', InTheManager(OnReceive)
    PROVE  AllKept
<1>1. queue' = [queue EXCEPT !["confirm"] = Tail(queue["confirm"])]
  BY DEF InTheManager, OnReceive, Delivered
<1>2. \A q \in Queues \ {"confirm"} : queue'[q] = queue[q]
  BY <1>1 DEF Typed, TypeOK, BrokerTypeOK
<1>3. Still
  BY <1>2, FaultsSame DEF InTheManager, OnReceive, worker, frontend, Still
<1>. QED
  BY <1>3, StillKept

LEMMA ManagerKept ==
    ASSUME IsFiniteSet(Workers), Typed, Typed', InTheManager(ManagerStep)
    PROVE  AllKept
BY ConsumeKept, BalancerKept, PublishKept, OnReceiveKept DEF InTheManager, ManagerStep

-----------------------------------------------------------------------------
(***************************************************************************)
(* What a worker has before its callback is what it has not acknowledged   *)
(* or, when its connection broke, comes again from the head of its queue.  *)
(***************************************************************************)
InHand ==
    \A w \in Workers :
        incoming[w] # None =>
            \/ consumer[w] = "up" /\ unacked[w] = incoming[w]
            \/ consumer[w] = "down" /\ queue[w] # << >> /\ Head(queue[w]) = incoming[w]

(* The sums of what a worker holds, and of what it holds after a step.     *)
LEMMA SumsAt ==
    ASSUME Typed, Typed', NEW w \in Workers, NEW c
    PROVE  /\ HeldBy(w, c) = CountIn(c, queue[w]) + CountIn(c, OneOf(incoming[w]))
                             + CountIn(c, buffer[w]) + CountIn(c, batch[w])
           /\ HeldBy(w, c)' = CountIn(c, queue'[w]) + CountIn(c, OneOf(incoming'[w]))
                              + CountIn(c, buffer'[w]) + CountIn(c, batch'[w])
           /\ CountIn(c, queue[w]) \in Nat /\ CountIn(c, OneOf(incoming[w])) \in Nat
           /\ CountIn(c, buffer[w]) \in Nat /\ CountIn(c, batch[w]) \in Nat
           /\ CountIn(c, queue'[w]) \in Nat /\ CountIn(c, OneOf(incoming'[w])) \in Nat
           /\ CountIn(c, buffer'[w]) \in Nat /\ CountIn(c, batch'[w]) \in Nat
           /\ CountIn(c, ran) \in Nat /\ CountIn(c, ran') \in Nat /\ Elsewhere(c) \in Nat
           /\ Elsewhere(c)' \in Nat
<1>1. HeldBy(w, c) = CountIn(c, queue[w]) + CountIn(c, OneOf(incoming[w]))
                     + CountIn(c, buffer[w]) + CountIn(c, batch[w])
  BY DEF HeldBy
<1>. QED
  BY <1>1, HeldByNext, NumbersTyped, NumbersTypedNext

(* Outside, a step of a worker changes what has been run at most.          *)
LEMMA OutsideAt ==
    ASSUME Typed, Typed', NEW c, queue'["frontend"] = queue["frontend"],
           UNCHANGED <<communication, send_buffer, publish_buffer>>
    PROVE  Elsewhere(c)' - CountIn(c, ran') = Elsewhere(c) - CountIn(c, ran)
<1>1. /\ CountIn(c, queue["frontend"]) \in Nat /\ CountIn(c, communication) \in Nat
      /\ CountIn(c, send_buffer) \in Nat /\ CountIn(c, Seconds(publish_buffer)) \in Nat
      /\ CountIn(c, ran) \in Nat /\ CountIn(c, ran') \in Nat
  BY NumbersTyped, NumbersTypedNext
<1>2. Elsewhere(c)' = CountIn(c, queue["frontend"]) + CountIn(c, communication)
                      + CountIn(c, send_buffer) + CountIn(c, Seconds(publish_buffer))
                      + CountIn(c, ran')
  BY ElsewhereNext
<1>. QED
  BY <1>1, <1>2 DEF Elsewhere

(* What a step of a worker has to show.                                    *)
OnlyAt(w) ==
    /\ queue'["frontend"] = queue["frontend"]
    /\ UNCHANGED <<communication, send_buffer, publish_buffer>>
    /\ \A x \in Workers \ {w} :
           /\ queue'[x] = queue[x] /\ incoming'[x] = incoming[x]
           /\ buffer'[x] = buffer[x] /\ batch'[x] = batch[x]

LEMMA WorkerFewer ==
    ASSUME IsFiniteSet(Workers), Typed, Typed', NEW w \in Workers, NEW c, OnlyAt(w),
           faults <= faults', NEW n \in Nat,
           HeldBy(w, c)' + CountIn(c, ran') + n = HeldBy(w, c) + CountIn(c, ran),
           n # 0 => c \in dropped' \/ HeldBy(w, c)' # 0
    PROVE  Kept(c)
<1>1. AtOnly(w, c)
  BY OthersHeld DEF OnlyAt
<1>2. Elsewhere(c)' - CountIn(c, ran') = Elsewhere(c) - CountIn(c, ran)
  BY OutsideAt DEF OnlyAt
<1>3. /\ Elsewhere(c) \in Nat /\ Elsewhere(c)' \in Nat /\ HeldBy(w, c) \in Nat
      /\ HeldBy(w, c)' \in Nat /\ CountIn(c, ran) \in Nat /\ CountIn(c, ran') \in Nat
  BY NumbersTyped, NumbersTypedNext
<1>4. Elsewhere(c)' + HeldBy(w, c)' + n = Elsewhere(c) + HeldBy(w, c)
  BY <1>2, <1>3
<1>5. HeldBy(w, c)' # 0 => Elsewhere(c)' + HeldBy(w, c)' # 0
  BY <1>3
<1>. QED
  BY <1>1, <1>4, <1>5, FewerKept

LEMMA WorkerSame ==
    ASSUME IsFiniteSet(Workers), Typed, Typed', NEW w \in Workers, NEW c, OnlyAt(w),
           faults <= faults',
           HeldBy(w, c)' + CountIn(c, ran') = HeldBy(w, c) + CountIn(c, ran)
    PROVE  Kept(c)
<1>1. PICK n \in Nat : n = 0
  OBVIOUS
<1>2. /\ HeldBy(w, c) \in Nat /\ HeldBy(w, c)' \in Nat
      /\ CountIn(c, ran) \in Nat /\ CountIn(c, ran') \in Nat
  BY NumbersTyped, NumbersTypedNext
<1>3. HeldBy(w, c)' + CountIn(c, ran') + n = HeldBy(w, c) + CountIn(c, ran)
  BY <1>1, <1>2
<1>. QED
  BY <1>1, <1>3, WorkerFewer

(* A command in hand is one, none is none.                                 *)
LEMMA CountOneOf ==
    \A c, x : CountIn(c, OneOf(x)) = IF x = None THEN 0 ELSE One(x, c)
BY CountFew DEF OneOf

(* The broker delivers a command.                                          *)
LEMMA DeliverKept ==
    ASSUME IsFiniteSet(Workers), Typed, Typed', NEW w \in Workers, InAWorker(Deliver(w))
    PROVE  AllKept
<1>. USE DEF InAWorker, Deliver, manager, frontend
<1>1. queue' = [queue EXCEPT ![w] = Tail(queue[w])]
  BY DEF Delivered
<1>2. queue[w] \in Seq(Commands) /\ queue[w] # << >> /\ Head(queue[w]) \in Commands
  BY SequencesTyped
<1>3. /\ queue'[w] = Tail(queue[w]) /\ queue'["frontend"] = queue["frontend"]
      /\ incoming[w] = None /\ incoming'[w] = Head(queue[w]) /\ Head(queue[w]) # None
      /\ buffer'[w] = buffer[w] /\ batch'[w] = batch[w] /\ ran' = ran
      /\ dropped' = dropped /\ faults' = faults
  BY <1>1, <1>2, QueueNames, NamesAssumption DEF Typed, TypeOK, BrokerTypeOK, WorkerTypeOK
<1>4. OnlyAt(w)
  BY <1>1, <1>3, QueueNames DEF OnlyAt, Typed, TypeOK, BrokerTypeOK, WorkerTypeOK
<1>. SUFFICES ASSUME NEW c \in Commands PROVE Kept(c)
  BY <1>3 DEF AllKept
<1>5. PICK n \in Nat : n = One(Head(queue[w]), c)
  BY OneType
<1>6. CountIn(c, queue[w]) = n + CountIn(c, queue'[w])
  BY <1>2, <1>3, <1>5, CountTail
<1>7. CountIn(c, OneOf(incoming[w])) = 0 /\ CountIn(c, OneOf(incoming'[w])) = n
  BY <1>3, <1>5, CountOneOf
<1>8. HeldBy(w, c)' = HeldBy(w, c)
  <2>1. HeldBy(w, c) = CountIn(c, queue[w]) + 0 + CountIn(c, buffer[w]) + CountIn(c, batch[w])
    BY <1>7 DEF HeldBy
  <2>2. HeldBy(w, c)' = CountIn(c, queue'[w]) + n + CountIn(c, buffer[w]) + CountIn(c, batch[w])
    BY <1>3, <1>7, HeldByNext
  <2>3. /\ CountIn(c, queue[w]) \in Nat /\ CountIn(c, queue'[w]) \in Nat
        /\ CountIn(c, buffer[w]) \in Nat /\ CountIn(c, batch[w]) \in Nat
    BY NumbersTyped, NumbersTypedNext
  <2>. QED
    BY <1>6, <2>1, <2>2, <2>3
<1>. QED
  BY <1>3, <1>4, <1>8, FaultsSame, WorkerSame

(* The callback appends it to the buffer.                                  *)
LEMMA CallbackKept ==
    ASSUME IsFiniteSet(Workers), Typed, Typed', NEW w \in Workers, InAWorker(QueueCallback(w))
    PROVE  AllKept
<1>. USE DEF InAWorker, QueueCallback, manager, frontend, broker
<1>1. incoming[w] \in Commands /\ buffer[w] \in Seq(Commands) /\ incoming[w] # None
  BY DEF Typed, TypeOK, WorkerTypeOK
<1>2. /\ queue' = queue /\ incoming'[w] = None
      /\ buffer'[w] = Append(buffer[w], incoming[w]) /\ batch'[w] = batch[w] /\ ran' = ran
      /\ dropped' = dropped /\ faults' = faults
  BY DEF Typed, TypeOK, WorkerTypeOK
<1>3. OnlyAt(w)
  BY DEF OnlyAt, Typed, TypeOK, WorkerTypeOK
<1>. SUFFICES ASSUME NEW c \in Commands PROVE Kept(c)
  BY <1>2 DEF AllKept
<1>4. PICK n \in Nat : n = One(incoming[w], c)
  BY OneType
<1>5. CountIn(c, buffer'[w]) = CountIn(c, buffer[w]) + n
  BY <1>1, <1>2, <1>4, CountAppend
<1>6. CountIn(c, OneOf(incoming[w])) = n /\ CountIn(c, OneOf(incoming'[w])) = 0
  BY <1>1, <1>2, <1>4, CountOneOf
<1>7. HeldBy(w, c)' = HeldBy(w, c)
  <2>1. HeldBy(w, c) = CountIn(c, queue[w]) + n + CountIn(c, buffer[w]) + CountIn(c, batch[w])
    BY <1>6 DEF HeldBy
  <2>2. HeldBy(w, c)' = CountIn(c, queue[w]) + 0 + CountIn(c, buffer'[w]) + CountIn(c, batch[w])
    BY <1>2, <1>6, HeldByNext
  <2>3. /\ CountIn(c, queue[w]) \in Nat /\ CountIn(c, batch[w]) \in Nat
        /\ CountIn(c, buffer[w]) \in Nat /\ CountIn(c, buffer'[w]) \in Nat
    BY NumbersTyped, NumbersTypedNext
  <2>. QED
    BY <1>5, <2>1, <2>2, <2>3
<1>. QED
  BY <1>2, <1>3, <1>7, FaultsSame, WorkerSame

(* A command that never arrives comes again.                               *)
LEMMA NeverKept ==
    ASSUME IsFiniteSet(Workers), Typed, Typed', InHand, NEW w \in Workers,
           InAWorker(NeverArrives(w))
    PROVE  AllKept
<1>. USE DEF InAWorker, NeverArrives, manager, frontend, broker
<1>1. queue[w] # << >> /\ Head(queue[w]) = incoming[w] /\ queue[w] \in Seq(Commands)
  BY SequencesTyped DEF InHand
<1>2. /\ queue' = queue /\ incoming[w] # None /\ incoming'[w] = None
      /\ buffer'[w] = buffer[w] /\ batch'[w] = batch[w] /\ ran' = ran
      /\ dropped' = dropped /\ faults' = faults
  BY DEF Typed, TypeOK, WorkerTypeOK
<1>3. OnlyAt(w)
  BY DEF OnlyAt, Typed, TypeOK, WorkerTypeOK
<1>. SUFFICES ASSUME NEW c \in Commands PROVE Kept(c)
  BY <1>2 DEF AllKept
<1>4. PICK n \in Nat : n = One(incoming[w], c)
  BY OneType
<1>5. CountIn(c, OneOf(incoming[w])) = n /\ CountIn(c, OneOf(incoming'[w])) = 0
  BY <1>2, <1>4, CountOneOf
<1>6. HeldBy(w, c)' + n = HeldBy(w, c) /\ HeldBy(w, c)' >= CountIn(c, queue[w])
  BY <1>2, <1>5, SumsAt
<1>7. CountIn(c, queue[w]) = n + CountIn(c, Tail(queue[w])) /\ CountIn(c, Tail(queue[w])) \in Nat
  <2>1. Tail(queue[w]) \in Seq(Commands)
    BY <1>1
  <2>2. CountIn(c, queue[w]) = One(Head(queue[w]), c) + CountIn(c, Tail(queue[w]))
    BY <1>1, CountTail
  <2>3. CountIn(c, Tail(queue[w])) \in Nat
    BY <2>1, CountType
  <2>. QED
    BY <1>1, <1>4, <2>2, <2>3
<1>8. n # 0 => HeldBy(w, c)' # 0
  BY <1>6, <1>7, NumbersTypedNext
<1>9. HeldBy(w, c)' + CountIn(c, ran') + n = HeldBy(w, c) + CountIn(c, ran)
  BY <1>2, <1>6, SumsAt, NumbersTyped, NumbersTypedNext
<1>. QED
  BY <1>2, <1>3, <1>8, <1>9, FaultsSame, WorkerFewer

(* The main loop takes the buffer.                                         *)
LEMMA TakeKept ==
    ASSUME IsFiniteSet(Workers), Typed, Typed', NEW w \in Workers, InAWorker(TakeBuffer(w))
    PROVE  AllKept
<1>. USE DEF InAWorker, TakeBuffer, Cleared, manager, frontend, broker
<1>1. /\ queue' = queue /\ incoming' = incoming /\ batch[w] = << >> /\ batch'[w] = buffer[w]
      /\ buffer'[w] = << >> /\ ran' = ran /\ dropped' = dropped /\ faults' = faults
  BY DEF Typed, TypeOK, WorkerTypeOK
<1>2. OnlyAt(w)
  BY DEF OnlyAt, Typed, TypeOK, WorkerTypeOK
<1>. SUFFICES ASSUME NEW c \in Commands PROVE Kept(c)
  BY <1>1 DEF AllKept
<1>3. CountIn(c, batch[w]) = 0 /\ CountIn(c, buffer'[w]) = 0
  BY <1>1, CountFew
<1>4. HeldBy(w, c)' = HeldBy(w, c)
  <2>1. HeldBy(w, c) = CountIn(c, queue[w]) + CountIn(c, OneOf(incoming[w]))
                       + CountIn(c, buffer[w]) + 0
    BY <1>3 DEF HeldBy
  <2>2. HeldBy(w, c)' = CountIn(c, queue[w]) + CountIn(c, OneOf(incoming[w]))
                        + 0 + CountIn(c, buffer[w])
    BY <1>1, <1>3, HeldByNext
  <2>3. /\ CountIn(c, queue[w]) \in Nat /\ CountIn(c, OneOf(incoming[w])) \in Nat
        /\ CountIn(c, buffer[w]) \in Nat
    BY NumbersTyped
  <2>. QED
    BY <2>1, <2>2, <2>3
<1>. QED
  BY <1>1, <1>2, <1>4, FaultsSame, WorkerSame

(* It runs a command of its batch: the rest of it stays, or is lost when   *)
(* the loop ends with it.                                                  *)
LEMMA RunKept ==
    ASSUME IsFiniteSet(Workers), Typed, Typed', NEW w \in Workers,
           UNCHANGED <<queue, incoming, buffer, communication, send_buffer, publish_buffer>>,
           batch[w] # << >>, faults <= faults', dropped \subseteq dropped',
           \/ ran' = Append(ran, Head(batch[w])) /\ batch' = [batch EXCEPT ![w] = Tail(batch[w])]
           \/ /\ ran' = ran \/ ran' = Append(ran, Head(batch[w]))
              /\ batch' = [batch EXCEPT ![w] = << >>]
              /\ ToSet(batch[w]) \subseteq dropped'
    PROVE  AllKept
<1>. SUFFICES ASSUME NEW c \in Commands PROVE Kept(c)
  BY DEF AllKept
<1>1. OnlyAt(w)
  BY DEF OnlyAt, Typed, TypeOK, WorkerTypeOK
<1>2. batch[w] \in Seq(Commands) /\ Head(batch[w]) \in Commands /\ ran \in Seq(Commands)
  BY SequencesTyped
<1>3. /\ CountIn(c, queue[w]) \in Nat /\ CountIn(c, OneOf(incoming[w])) \in Nat
      /\ CountIn(c, buffer[w]) \in Nat /\ CountIn(c, batch[w]) \in Nat
      /\ CountIn(c, batch'[w]) \in Nat /\ CountIn(c, ran) \in Nat /\ CountIn(c, ran') \in Nat
  BY NumbersTyped, NumbersTypedNext
<1>4. HeldBy(w, c) = CountIn(c, queue[w]) + CountIn(c, OneOf(incoming[w]))
                     + CountIn(c, buffer[w]) + CountIn(c, batch[w])
  BY DEF HeldBy
<1>5. HeldBy(w, c)' = CountIn(c, queue[w]) + CountIn(c, OneOf(incoming[w]))
                      + CountIn(c, buffer[w]) + CountIn(c, batch'[w])
  BY HeldByNext
<1>6. CountIn(c, batch[w]) = One(Head(batch[w]), c) + CountIn(c, Tail(batch[w]))
      /\ CountIn(c, Tail(batch[w])) \in Nat
  <2>1. Tail(batch[w]) \in Seq(Commands)
    BY <1>2
  <2>. QED
    BY <1>2, <2>1, CountTail, CountType
<1>7. PICK k \in Nat : k = One(Head(batch[w]), c)
  BY OneType
<1>8. ran' = Append(ran, Head(batch[w])) => CountIn(c, ran') = CountIn(c, ran) + k
  BY <1>2, <1>7, CountAppend
<1>9. CASE ran' = Append(ran, Head(batch[w])) /\ batch' = [batch EXCEPT ![w] = Tail(batch[w])]
  <2>1. batch'[w] = Tail(batch[w])
    BY <1>9 DEF Typed, TypeOK, WorkerTypeOK
  <2>2. CountIn(c, batch[w]) = k + CountIn(c, batch'[w])
    BY <1>6, <1>7, <2>1
  <2>3. CountIn(c, ran') = CountIn(c, ran) + k
    BY <1>8, <1>9
  <2>4. HeldBy(w, c)' + CountIn(c, ran') = HeldBy(w, c) + CountIn(c, ran)
    BY <1>3, <1>4, <1>5, <2>2, <2>3
  <2>. QED
    BY <1>1, <2>4, WorkerSame
<1>10. CASE /\ ran' = ran \/ ran' = Append(ran, Head(batch[w]))
            /\ batch' = [batch EXCEPT ![w] = << >>]
            /\ ToSet(batch[w]) \subseteq dropped'
  <2>1. CountIn(c, batch'[w]) = 0
    BY <1>10, CountFew DEF Typed, TypeOK, WorkerTypeOK
  <2>2. PICK l \in Nat : l = CountIn(c, ran') - CountIn(c, ran) /\ l <= CountIn(c, batch[w])
    <3>1. CASE ran' = ran
      BY <1>3, <3>1
    <3>2. CASE ran' = Append(ran, Head(batch[w]))
      BY <1>3, <1>6, <1>7, <1>8, <3>2, SMTT(30)
    <3>. QED
      BY <1>10, <3>1, <3>2
  <2>3. PICK n \in Nat : n = CountIn(c, batch[w]) - l
    BY <1>3, <2>2
  <2>4. HeldBy(w, c)' + CountIn(c, ran') + n = HeldBy(w, c) + CountIn(c, ran)
    BY <1>3, <1>4, <1>5, <2>1, <2>2, <2>3, SMTT(30)
  <2>5. n # 0 => c \in dropped'
    <3>1. n # 0 => CountIn(c, batch[w]) # 0
      BY <1>3, <2>2, <2>3
    <3>. QED
      BY <1>2, <1>10, <3>1, CountType
  <2>. QED
    BY <1>1, <2>4, <2>5, WorkerFewer
<1>. QED
  BY <1>9, <1>10

(* What comes back to a queue is counted there.                            *)
LEMMA RequeuedCount ==
    ASSUME Typed, NEW w \in Workers, Requeued(w), NEW c
    PROVE  /\ CountIn(c, queue'[w]) = CountIn(c, OneOf(unacked[w])) + CountIn(c, queue[w])
           /\ CountIn(c, OneOf(unacked[w])) \in {0, 1}
           /\ queue'["frontend"] = queue["frontend"]
           /\ \A x \in Workers \ {w} : queue'[x] = queue[x]
<1>1. /\ queue'["frontend"] = queue["frontend"]
      /\ \A x \in Workers \ {w} : queue'[x] = queue[x]
      /\ queue'[w] = IF unacked[w] = None THEN queue[w] ELSE <<unacked[w]>> \o queue[w]
  BY QueueNames DEF Requeued, Typed, TypeOK, BrokerTypeOK
<1>2. queue[w] \in Seq(Commands) /\ CountIn(c, queue[w]) \in Nat
  BY SequencesTyped, NumbersTyped
<1>3. CASE unacked[w] = None
  BY <1>1, <1>2, <1>3, CountOneOf
<1>4. CASE unacked[w] # None
  <2>1. unacked[w] \in Commands
    BY <1>4 DEF Typed, CommandsOnly
  <2>2. <<unacked[w]>> \in Seq(Commands) /\ queue'[w] = <<unacked[w]>> \o queue[w]
    BY <1>1, <1>4, <2>1
  <2>3. CountIn(c, queue'[w]) = CountIn(c, <<unacked[w]>>) + CountIn(c, queue[w])
    BY <1>2, <2>2, CountJoined, ZenonT(40)
  <2>4. CountIn(c, OneOf(unacked[w])) = CountIn(c, <<unacked[w]>>)
    BY <1>4 DEF OneOf
  <2>5. CountIn(c, OneOf(unacked[w])) \in {0, 1}
    BY <1>4, CountOneOf DEF One
  <2>. QED
    BY <1>1, <2>3, <2>4, <2>5
<1>. QED
  BY <1>3, <1>4

(* A command in one of two sequences is in both together.                  *)
LEMMA JoinedToSet ==
    ASSUME NEW S, NEW s \in Seq(S), NEW t \in Seq(S), NEW c, c \in ToSet(s) \/ c \in ToSet(t)
    PROVE  s \o t \in Seq(S) /\ c \in ToSet(s \o t)
<1>1. s \o t \in Seq(S)
  OBVIOUS
<1>2. /\ CountIn(c, s) \in Nat /\ CountIn(c, t) \in Nat
      /\ CountIn(c, s) # 0 \/ CountIn(c, t) # 0
  BY CountType
<1>3. CountIn(c, s \o t) # 0
  BY <1>2, CountJoined
<1>. QED
  BY <1>1, <1>3, CountType

(* The consumer of a worker loses its connection: a command that it has    *)
(* not acknowledged is there once more.                                    *)
LEMMA BreakKept ==
    ASSUME IsFiniteSet(Workers), Typed, Typed', NEW w \in Workers,
           OfAConnection(BreakConsumer(w))
    PROVE  AllKept
<1>. USE DEF OfAConnection, BreakConsumer, manager, worker, frontend
<1>. SUFFICES ASSUME NEW c \in Commands PROVE Kept(c)
  BY DEF AllKept
<1>0. Requeued(w) /\ UNCHANGED <<incoming, buffer, batch, ran>>
  OBVIOUS
<1>1. AtOnly(w, c)
  BY <1>0, RequeuedCount, OthersHeld
<1>2. PICK n \in Int : n = CountIn(c, OneOf(unacked[w])) /\ n \in {0, 1}
  BY <1>0, RequeuedCount
<1>3. CountIn(c, queue'[w]) = n + CountIn(c, queue[w])
  BY <1>0, <1>2, RequeuedCount
<1>4. HeldBy(w, c)' = HeldBy(w, c) + n
  <2>1. HeldBy(w, c) = CountIn(c, queue[w]) + CountIn(c, OneOf(incoming[w]))
                       + CountIn(c, buffer[w]) + CountIn(c, batch[w])
    BY DEF HeldBy
  <2>2. HeldBy(w, c)' = CountIn(c, queue'[w]) + CountIn(c, OneOf(incoming[w]))
                        + CountIn(c, buffer[w]) + CountIn(c, batch[w])
    BY <1>0, HeldByNext
  <2>3. /\ CountIn(c, queue[w]) \in Nat /\ CountIn(c, OneOf(incoming[w])) \in Nat
        /\ CountIn(c, buffer[w]) \in Nat /\ CountIn(c, batch[w]) \in Nat
    BY NumbersTyped
  <2>. QED
    BY <1>3, <2>1, <2>2, <2>3
<1>5. Elsewhere(c)' - CountIn(c, ran') = Elsewhere(c) - CountIn(c, ran)
  BY <1>0, RequeuedCount, OutsideAt
<1>6. /\ Elsewhere(c) \in Nat /\ Elsewhere(c)' \in Nat /\ HeldBy(w, c) \in Nat
      /\ CountIn(c, ran) \in Nat /\ ran' = ran
  BY <1>0, NumbersTyped, NumbersTypedNext
<1>7. Elsewhere(c)' + HeldBy(w, c)' = Elsewhere(c) + HeldBy(w, c) + n
  BY <1>4, <1>5, <1>6
<1>8. n <= faults' - faults
  <2>1. faults' = faults + 1 /\ faults \in Int
    BY DEF Fault, Typed, TypeOK, BrokerTypeOK
  <2>. QED
    BY <1>2, <2>1
<1>9. ~(n < 0)
  BY <1>2
<1>. QED
  BY <1>1, <1>7, <1>8, <1>9, KeptBy

(* The container of a worker stops: what it had in its buffers is lost,    *)
(* but a command that is not acknowledged, or that never arrived, is in    *)
(* its queue.                                                              *)
LEMMA DiesKept ==
    ASSUME IsFiniteSet(Workers), Typed, Typed', InHand, NEW w \in Workers,
           InAWorker(WorkerDies(w))
    PROVE  AllKept
<1>. USE DEF InAWorker, WorkerDies, manager, frontend
<1>0. /\ Requeued(w) /\ UNCHANGED <<ran, communication, send_buffer, publish_buffer>>
      /\ dropped' = dropped \cup ToSet(buffer[w] \o batch[w] \o responses[w])
      /\ faults' = faults + 1
  BY DEF Fault
<1>1. /\ incoming'[w] = None /\ buffer'[w] = << >> /\ batch'[w] = << >>
      /\ \A x \in Workers \ {w} : /\ incoming'[x] = incoming[x] /\ buffer'[x] = buffer[x]
                                  /\ batch'[x] = batch[x]
  BY DEF Typed, TypeOK, WorkerTypeOK
<1>. SUFFICES ASSUME NEW c \in Commands PROVE Kept(c)
  BY <1>0 DEF AllKept
<1>2. AtOnly(w, c)
  BY <1>0, <1>1, RequeuedCount, OthersHeld
<1>3. /\ CountIn(c, OneOf(incoming'[w])) = 0 /\ CountIn(c, buffer'[w]) = 0
      /\ CountIn(c, batch'[w]) = 0
  BY <1>1, CountFew, CountOneOf
<1>4. PICK k \in Int : k = CountIn(c, OneOf(unacked[w])) /\ k \in {0, 1}
  <2>1. CountIn(c, OneOf(unacked[w])) \in {0, 1}
    BY <1>0, RequeuedCount
  <2>. QED
    BY <2>1
<1>5. CountIn(c, queue'[w]) = k + CountIn(c, queue[w])
  BY <1>0, <1>4, RequeuedCount
<1>6. /\ CountIn(c, queue[w]) \in Nat /\ CountIn(c, OneOf(incoming[w])) \in Nat
      /\ CountIn(c, buffer[w]) \in Nat /\ CountIn(c, batch[w]) \in Nat
  BY NumbersTyped
<1>7. PICK n \in Int : n = k - CountIn(c, OneOf(incoming[w])) - CountIn(c, buffer[w])
                           - CountIn(c, batch[w])
  BY <1>6
<1>8. HeldBy(w, c)' = k + CountIn(c, queue[w])
  <2>1. HeldBy(w, c)' = CountIn(c, queue'[w]) + 0 + 0 + 0
    BY <1>3, HeldByNext
  <2>. QED
    BY <1>5, <1>6, <2>1
<1>9. HeldBy(w, c)' = HeldBy(w, c) + n
  <2>1. HeldBy(w, c) = CountIn(c, queue[w]) + CountIn(c, OneOf(incoming[w]))
                       + CountIn(c, buffer[w]) + CountIn(c, batch[w])
    BY DEF HeldBy
  <2>. QED
    BY <1>6, <1>7, <1>8, <2>1
<1>10. Elsewhere(c)' - CountIn(c, ran') = Elsewhere(c) - CountIn(c, ran)
  BY <1>0, RequeuedCount, OutsideAt
<1>11. /\ Elsewhere(c) \in Nat /\ Elsewhere(c)' \in Nat /\ HeldBy(w, c) \in Nat
       /\ CountIn(c, ran) \in Nat /\ ran' = ran
  BY <1>0, NumbersTyped, NumbersTypedNext
<1>12. Elsewhere(c)' + HeldBy(w, c)' = Elsewhere(c) + HeldBy(w, c) + n
  BY <1>9, <1>10, <1>11
<1>13. n <= faults' - faults
  <2>1. faults \in Int
    BY DEF Typed, TypeOK, BrokerTypeOK
  <2>2. n <= 1
    BY <1>4, <1>6, <1>7
  <2>3. \A m, x, y \in Int : m <= 1 /\ y = x + 1 => m <= y - x
    OBVIOUS
  <2>4. faults' \in Int
    BY <1>0, <2>1
  <2>. QED
    BY <1>0, <2>1, <2>2, <2>3, <2>4
<1>14. ASSUME n < 0 PROVE c \in dropped' \/ HeldBy(w, c)' # 0
  <2>1. CASE CountIn(c, buffer[w]) # 0 \/ CountIn(c, batch[w]) # 0
    <3>1. /\ buffer[w] \in Seq(Messages) /\ batch[w] \in Seq(Messages)
          /\ responses[w] \in Seq(Messages)
      <4>1. \A s \in Seq(Commands) : s \in Seq(Messages)
        BY DEF Messages
      <4>. QED
        BY <4>1 DEF Typed, TypeOK, WorkerTypeOK
    <3>2. c \in ToSet(buffer[w]) \/ c \in ToSet(batch[w])
      BY <2>1, <3>1, CountType
    <3>3. buffer[w] \o batch[w] \in Seq(Messages) /\ c \in ToSet(buffer[w] \o batch[w])
      BY <3>1, <3>2, JoinedToSet
    <3>4. c \in ToSet((buffer[w] \o batch[w]) \o responses[w])
      BY <3>1, <3>3, JoinedToSet
    <3>. QED
      BY <1>0, <3>4
  <2>2. CASE CountIn(c, buffer[w]) = 0 /\ CountIn(c, batch[w]) = 0
    <3>1. CountIn(c, OneOf(incoming[w])) # k /\ CountIn(c, OneOf(incoming[w])) # 0
      BY <1>4, <1>6, <1>7, <1>14, <2>2
    <3>2. incoming[w] = c /\ incoming[w] # None
      BY <3>1, CountOneOf DEF One
    <3>3. unacked[w] # incoming[w]
      BY <1>4, <3>1
    <3>4. queue[w] # << >> /\ Head(queue[w]) = c /\ queue[w] \in Seq(Commands)
      BY <3>2, <3>3, SequencesTyped DEF InHand
    <3>5. c \in ToSet(queue[w])
      BY <3>4, HeadTailIn
    <3>6. CountIn(c, queue[w]) # 0
      BY <3>4, <3>5, CountType
    <3>. QED
      BY <1>4, <1>6, <1>8, <3>6
  <2>. QED
    BY <2>1, <2>2
<1>15. HeldBy(w, c)' # 0 => Elsewhere(c)' + HeldBy(w, c)' # 0
  BY NumbersTypedNext
<1>. QED
  BY <1>2, <1>12, <1>13, <1>14, <1>15, KeptBy

-----------------------------------------------------------------------------
(* The steps of a worker keep the copies.                                  *)
LEMMA WorkerKept ==
    ASSUME IsFiniteSet(Workers), Typed, Typed', InHand, NEW w \in Workers,
           InAWorker(WorkerThreads(w) \/ Notify(w) \/ Stops(w))
    PROVE  AllKept
<1>1. CASE InAWorker(AckArrives(w) \/ Notify(w))
  <2>1. Still
    BY <1>1, FaultsSame
    DEF InAWorker, AckArrives, Notify, manager, worker, frontend, broker, Still
  <2>. QED
    BY <2>1, StillKept
<1>2. CASE InAWorker(HandleCommand(w))
  BY <1>2, FaultsSame, RunKept DEF InAWorker, HandleCommand, manager, frontend, broker
<1>3. CASE InAWorker(MainEnds(w))
  <2>1. faults <= faults'
    BY <1>3 DEF InAWorker, MainEnds, Fault, Typed, TypeOK, BrokerTypeOK
  <2>2. /\ UNCHANGED <<queue, incoming, buffer, communication, send_buffer, publish_buffer>>
        /\ batch[w] # << >> /\ dropped \subseteq dropped'
        /\ ran' = ran \/ ran' = Append(ran, Head(batch[w]))
        /\ batch' = [batch EXCEPT ![w] = << >>]
        /\ ToSet(batch[w]) \subseteq dropped'
    BY <1>3 DEF InAWorker, MainEnds, manager, frontend
  <2>. QED
    BY <2>1, <2>2, RunKept
<1>. QED
  BY <1>1, <1>2, <1>3, DeliverKept, CallbackKept, NeverKept, TakeKept, DiesKept
  DEF InAWorker, WorkerThreads, Stops

(* A response is none.                                                     *)
LEMMA RespondKept ==
    ASSUME IsFiniteSet(Workers), Typed, Typed', NEW w \in Workers, Respond(w)
    PROVE  AllKept
<1>1. \A q \in Queues \ {"confirm"} : queue'[q] = queue[q]
  BY DEF Respond, PublishResponse, Published, Typed, TypeOK, BrokerTypeOK
<1>2. dropped \subseteq dropped'
  BY DEF Respond, PublishResponse, Published
<1>3. Still
  BY <1>1, <1>2, FaultsSame DEF Respond, PublishResponse, manager, Still
<1>. QED
  BY <1>3, StillKept

(* The first commands of a queue that are lost are counted as dropped.     *)
LEMMA LostFirst ==
    ASSUME NEW S, NEW s \in Seq(S), NEW n \in 0..Len(s), NEW c
    PROVE  \E k \in Nat : /\ CountIn(c, s) = k + CountIn(c, SubSeq(s, n + 1, Len(s)))
                          /\ k # 0 => c \in ToSet(SubSeq(s, 1, n))
<1>. DEFINE a == SubSeq(s, 1, n)
<1>1. /\ a \in Seq(S)
      /\ CountIn(c, s) = CountIn(c, a) + CountIn(c, SubSeq(s, n + 1, Len(s)))
  BY CountSuffix
<1>. HIDE DEF a
<1>2. CountIn(c, a) \in Nat /\ (CountIn(c, a) # 0 => c \in ToSet(a))
  BY <1>1, CountType
<1>. QED
  BY <1>1, <1>2 DEF a

(* A connection breaks, or is made again.                                  *)
LEMMA ConnectionKept ==
    ASSUME IsFiniteSet(Workers), Typed, Typed',
           \/ \E q \in Queues : ConsumerBack(q)
           \/ \E p \in Publishers : PublisherBack(p)
           \/ OfAConnection(Breaks)
    PROVE  AllKept
<1>0. UNCHANGED <<manager, worker, frontend>>
  BY DEF ConsumerBack, PublisherBack, OfAConnection
<1>1. CASE UNCHANGED <<queue, dropped>> /\ faults <= faults'
  <2>1. Still
    BY <1>0, <1>1 DEF manager, worker, Still
  <2>. QED
    BY <2>1, StillKept
<1>2. CASE \E w \in Workers : BreakConsumer(w)
  BY <1>0, <1>2, BreakKept DEF OfAConnection
<1>3. CASE \E q \in Queues : \E n \in 0..Len(queue[q]) : BreakAutoAck(q, n)
  <2>1. PICK q \in Queues : \E n \in 0..Len(queue[q]) : BreakAutoAck(q, n)
    BY <1>3
  <2>2. PICK n \in 0..Len(queue[q]) : BreakAutoAck(q, n)
    BY <2>1
  <2>3. /\ q \in {"frontend", "confirm"} /\ faults <= faults'
        /\ dropped' = dropped \cup ToSet(SubSeq(queue[q], 1, n))
    BY <2>2 DEF BreakAutoAck, Fault, Typed, TypeOK, BrokerTypeOK
  <2>4. queue' = [queue EXCEPT ![q] = SubSeq(queue[q], n + 1, Len(queue[q]))]
    BY <2>2 DEF BreakAutoAck
  <2>5. /\ \A x \in Queues \ {q} : queue'[x] = queue[x]
        /\ queue'[q] = SubSeq(queue[q], n + 1, Len(queue[q]))
    BY <2>4 DEF Typed, TypeOK, BrokerTypeOK
  <2>6. CASE q = "confirm"
    <3>1. Still
      BY <1>0, <2>3, <2>5, <2>6 DEF manager, worker, Still
    <3>. QED
      BY <3>1, StillKept
  <2>7. CASE q = "frontend"
    <3>. SUFFICES ASSUME NEW c \in Commands PROVE Kept(c)
      BY <2>3 DEF AllKept
    <3>. DEFINE f == queue["frontend"]
    <3>1. PICK w \in Workers : TRUE
      BY CommandsAssumption
    <3>2. \A x \in Workers : queue'[x] = queue[x]
      BY <2>5, <2>7, QueueNames
    <3>3. AtOnly(w, c)
      BY <1>0, <3>2, OthersHeld DEF worker
    <3>4. HeldBy(w, c)' = HeldBy(w, c)
      BY <1>0, <3>2, HeldByNext DEF HeldBy, worker
    <3>5. /\ f \in Seq(Commands) /\ n \in 0..Len(f)
          /\ queue'["frontend"] = SubSeq(f, n + 1, Len(f))
          /\ dropped' = dropped \cup ToSet(SubSeq(f, 1, n))
      BY <2>3, <2>5, <2>7, SequencesTyped
    <3>. HIDE DEF f
    <3>6. PICK k \in Nat : /\ CountIn(c, f) = k + CountIn(c, queue'["frontend"])
                           /\ k # 0 => c \in dropped'
      BY <3>5, LostFirst
    <3>7. Elsewhere(c)' + k = Elsewhere(c)
      <4>1. Elsewhere(c) = CountIn(c, f) + CountIn(c, communication) + CountIn(c, send_buffer)
                           + CountIn(c, Seconds(publish_buffer)) + CountIn(c, ran)
        BY DEF Elsewhere, f
      <4>2. Elsewhere(c)' = CountIn(c, queue'["frontend"]) + CountIn(c, communication)
                            + CountIn(c, send_buffer) + CountIn(c, Seconds(publish_buffer))
                            + CountIn(c, ran)
        BY <1>0, ElsewhereNext DEF manager, worker
      <4>3. /\ CountIn(c, queue'["frontend"]) \in Nat /\ CountIn(c, communication) \in Nat
            /\ CountIn(c, send_buffer) \in Nat /\ CountIn(c, Seconds(publish_buffer)) \in Nat
            /\ CountIn(c, ran) \in Nat
        BY NumbersTyped, NumbersTypedNext
      <4>. QED
        BY <3>6, <4>1, <4>2, <4>3
    <3>8. Elsewhere(c)' + HeldBy(w, c)' + k = Elsewhere(c) + HeldBy(w, c)
      <4>1. /\ Elsewhere(c) \in Nat /\ Elsewhere(c)' \in Nat
            /\ HeldBy(w, c) \in Nat /\ HeldBy(w, c)' \in Nat
        BY NumbersTyped, NumbersTypedNext
      <4>. QED
        BY <3>4, <3>7, <4>1
    <3>. QED
      BY <2>3, <3>3, <3>6, <3>8, FewerKept
  <2>. QED
    BY <2>3, <2>6, <2>7
<1>4. CASE (\E q \in Queues : ConsumerBack(q)) \/ \E p \in Publishers : PublisherBack(p)
  <2>1. UNCHANGED <<queue, dropped, faults>>
    BY <1>4 DEF ConsumerBack, PublisherBack, OfAConnection, Connect, OnChannelClosed,
                ReconnectPublisher
  <2>. QED
    BY <1>1, <2>1, FaultsSame
<1>5. CASE \E p \in Publishers : BreakPublisher(p)
  <2>1. UNCHANGED <<queue, dropped>> /\ faults <= faults'
    BY <1>5 DEF BreakPublisher, Fault, Typed, TypeOK, BrokerTypeOK
  <2>. QED
    BY <1>1, <2>1
<1>. QED
  BY <1>2, <1>3, <1>4, <1>5 DEF OfAConnection, Breaks

(* The manager starts again: what it held is lost.                         *)
LEMMA RestartKept ==
    ASSUME IsFiniteSet(Workers), Typed, Typed', Restarts
    PROVE  AllKept
<1>. DEFINE f == queue["frontend"]
<1>1. PICK n \in 0..Len(f) : \E k \in 0..Len(queue["confirm"]) : ManagerRestarts(alive, n, k)
  BY DEF Restarts
<1>2. PICK k \in 0..Len(queue["confirm"]) : ManagerRestarts(alive, n, k)
  BY <1>1
<1>3. UNCHANGED <<incoming, buffer, batch, ran>>
  BY DEF Restarts, WorkersRestart
<1>4. /\ communication' = << >> /\ send_buffer' = << >> /\ publish_buffer' = << >>
      /\ dropped \subseteq dropped' /\ ToSet(SubSeq(f, 1, n)) \subseteq dropped'
      /\ ToSet(communication \o send_buffer) \subseteq dropped'
      /\ {p[2] : p \in ToSet(publish_buffer)} \subseteq dropped'
  BY <1>2 DEF ManagerRestarts
<1>5. /\ \A w \in Workers : queue'[w] = queue[w]
      /\ queue'["frontend"] = SubSeq(f, n + 1, Len(f))
  BY <1>2, QueueNames DEF ManagerRestarts, Typed, TypeOK, BrokerTypeOK
<1>6. faults <= faults'
  BY <1>2 DEF ManagerRestarts, Fault, Typed, TypeOK, BrokerTypeOK
<1>. SUFFICES ASSUME NEW c \in Commands PROVE Kept(c)
  BY <1>4 DEF AllKept
<1>7. PICK w \in Workers : TRUE
  BY CommandsAssumption
<1>8. AtOnly(w, c) /\ HeldBy(w, c)' = HeldBy(w, c)
  BY <1>3, <1>5, OthersHeld, HeldByNext DEF HeldBy
<1>9. f \in Seq(Commands)
  BY SequencesTyped
<1>. HIDE DEF f
<1>10. PICK l \in Nat : /\ CountIn(c, f) = l + CountIn(c, queue'["frontend"])
                        /\ l # 0 => c \in dropped'
  BY <1>4, <1>5, <1>9, LostFirst
<1>11. /\ CountIn(c, queue'["frontend"]) \in Nat /\ CountIn(c, communication) \in Nat
       /\ CountIn(c, send_buffer) \in Nat /\ CountIn(c, Seconds(publish_buffer)) \in Nat
       /\ CountIn(c, ran) \in Nat
  BY NumbersTyped, NumbersTypedNext
<1>12. PICK m \in Nat : m = l + CountIn(c, communication) + CountIn(c, send_buffer)
                            + CountIn(c, Seconds(publish_buffer))
  BY <1>11
<1>13. Elsewhere(c)' + m = Elsewhere(c)
  <2>1. Elsewhere(c) = CountIn(c, f) + CountIn(c, communication) + CountIn(c, send_buffer)
                       + CountIn(c, Seconds(publish_buffer)) + CountIn(c, ran)
    BY DEF Elsewhere, f
  <2>2. Seconds(publish_buffer') = << >>
    BY <1>4 DEF Seconds
  <2>3. Elsewhere(c)' = CountIn(c, queue'["frontend"]) + 0 + 0 + 0 + CountIn(c, ran)
    BY <1>3, <1>4, <2>2, ElsewhereNext, CountFew
  <2>4. PICK q \in Nat, a \in Nat, b \in Nat, p \in Nat, r \in Nat :
            /\ q = CountIn(c, queue'["frontend"]) /\ a = CountIn(c, communication)
            /\ b = CountIn(c, send_buffer) /\ p = CountIn(c, Seconds(publish_buffer))
            /\ r = CountIn(c, ran)
    BY <1>11
  <2>5. Elsewhere(c) = (l + q) + a + b + p + r /\ Elsewhere(c)' = q + r /\ m = l + a + b + p
    BY <1>10, <1>12, <2>1, <2>3, <2>4
  <2>. HIDE <2>4
  <2>. QED
    BY <2>5
<1>14. ASSUME m # 0 PROVE c \in dropped'
  <2>1. /\ communication \in Seq(Commands) /\ send_buffer \in Seq(Commands)
        /\ Seconds(publish_buffer) \in Seq(Commands)
        /\ publish_buffer \in Seq(Workers \X Commands)
    BY SequencesTyped DEF Typed, TypeOK, ManagerTypeOK
  <2>2. CASE l # 0
    BY <1>10, <2>2
  <2>3. CASE CountIn(c, communication) # 0 \/ CountIn(c, send_buffer) # 0
    <3>1. c \in ToSet(communication) \/ c \in ToSet(send_buffer)
      BY <2>1, <2>3, CountType
    <3>. QED
      BY <1>4, <2>1, <3>1, JoinedToSet
  <2>4. CASE CountIn(c, Seconds(publish_buffer)) # 0
    <3>1. c \in ToSet(Seconds(publish_buffer))
      BY <2>1, <2>4, CountType
    <3>2. PICK i \in 1..Len(publish_buffer) : c = publish_buffer[i][2]
      BY <2>1, <3>1, SecondsType, ToSetOf
    <3>3. publish_buffer[i] \in ToSet(publish_buffer)
      BY <2>1, ToSetOf
    <3>. QED
      BY <1>4, <3>2, <3>3
  <2>. QED
    BY <1>11, <1>12, <1>14, <2>2, <2>3, <2>4
<1>15. Elsewhere(c)' + HeldBy(w, c)' + m = Elsewhere(c) + HeldBy(w, c)
  <2>1. /\ Elsewhere(c) \in Nat /\ Elsewhere(c)' \in Nat
        /\ HeldBy(w, c) \in Nat /\ HeldBy(w, c)' \in Nat
    BY NumbersTyped, NumbersTypedNext
  <2>. QED
    BY <1>8, <1>13, <2>1
<1>. QED
  BY <1>6, <1>8, <1>14, <1>15, FewerKept

-----------------------------------------------------------------------------
(* A command that has not been published is nowhere.                       *)
LEMMA NoneBefore ==
    ASSUME IsFiniteSet(Workers), Typed, Lines, NEW d, d \notin ToSet(submitted)
    PROVE  Copies(d) = 0
<1>1. ASSUME NEW w \in Workers, NEW k \in Places PROVE CountIn(d, Line(w)[k]) = 0
  <2>1. Line(w) \in [Places -> Seq(Commands)]
    BY LineType
  <2>2. ToSet(Line(w)[k]) \subseteq Allowed(w)[k]
    BY <2>1 DEF Lines, LineOK, Arranged
  <2>3. Allowed(w)[k] \subseteq ToSet(submitted)
    BY DEF Allowed
  <2>4. Line(w)[k] \in Seq(Commands) /\ d \notin ToSet(Line(w)[k])
    BY <2>1, <2>2, <2>3
  <2>. QED
    BY <2>4, CountType
<1>2. ASSUME NEW w \in Workers PROVE Elsewhere(d) = 0 /\ HeldBy(w, d) = 0
  <2>1. /\ CountIn(d, Line(w)[1]) = 0 /\ CountIn(d, Line(w)[2]) = 0
        /\ CountIn(d, Line(w)[3]) = 0 /\ CountIn(d, Line(w)[4]) = 0
        /\ CountIn(d, Line(w)[6]) = 0 /\ CountIn(d, Line(w)[7]) = 0
        /\ CountIn(d, Line(w)[8]) = 0 /\ CountIn(d, Line(w)[9]) = 0
        /\ CountIn(d, Line(w)[10]) = 0
    BY <1>1 DEF Places
  <2>2. /\ Line(w)[1] = ran /\ Line(w)[2] = batch[w] /\ Line(w)[3] = buffer[w]
        /\ Line(w)[4] = OneOf(incoming[w]) /\ Line(w)[6] = queue[w]
        /\ Line(w)[7] = Seconds(publish_buffer) /\ Line(w)[8] = send_buffer
        /\ Line(w)[9] = communication /\ Line(w)[10] = queue["frontend"]
    BY LineAt
  <2>3. /\ CountIn(d, ran) = 0 /\ CountIn(d, batch[w]) = 0 /\ CountIn(d, buffer[w]) = 0
        /\ CountIn(d, OneOf(incoming[w])) = 0 /\ CountIn(d, queue[w]) = 0
        /\ CountIn(d, Seconds(publish_buffer)) = 0 /\ CountIn(d, send_buffer) = 0
        /\ CountIn(d, communication) = 0 /\ CountIn(d, queue["frontend"]) = 0
    BY <2>1, <2>2, Zenon
  <2>. QED
    BY <2>3 DEF Elsewhere, HeldBy
<1>3. Elsewhere(d) = 0
  BY <1>2, CommandsAssumption
<1>. DEFINE f == [w \in Workers |-> HeldBy(w, d)]
<1>4. /\ Copies(d) = Elsewhere(d) + SumFunction(f) /\ f \in [Workers -> Int]
      /\ \A w \in Workers : f[w] = 0
  BY <1>2, CopiesAre
<1>. HIDE DEF f
<1>5. SumFunction(f) = 0
  BY <1>4, SumOfZeros
<1>. QED
  BY <1>3, <1>4, <1>5

(* One that is published now is there once, or is dropped; there are no    *)
(* more and no fewer of the others.                                        *)
LEMMA SubmitKept ==
    ASSUME IsFiniteSet(Workers), Typed, Typed', Lines, NEW d \in Commands,
           d \notin ToSet(submitted), Published("frontend", d),
           UNCHANGED <<manager, worker, faults>>
    PROVE  /\ dropped \subseteq dropped'
           /\ \A c \in Commands \ {d} : Kept(c)
           /\ Copies(d)' <= 1 /\ (Copies(d)' = 0 => d \in dropped')
<1>. DEFINE f == queue["frontend"]
<1>1. \/ queue' = [queue EXCEPT !["frontend"] = Append(f, d)] /\ dropped' = dropped
      \/ queue' = queue /\ dropped' = dropped \cup {d}
  BY DEF Published
<1>2. /\ \A x \in Workers : queue'[x] = queue[x]
      /\ queue'["frontend"] = Append(f, d) \/ (queue'["frontend"] = f /\ d \in dropped')
      /\ dropped \subseteq dropped'
  BY <1>1, QueueNames DEF Typed, TypeOK, BrokerTypeOK
<1>3. PICK w \in Workers : TRUE
  BY CommandsAssumption
<1>4. \A c : AtOnly(w, c) /\ HeldBy(w, c)' = HeldBy(w, c)
  BY <1>2, OthersHeld, HeldByNext DEF HeldBy, worker
<1>5. f \in Seq(Commands)
  BY SequencesTyped
<1>. HIDE DEF f
<1>6. ASSUME NEW c
      PROVE  /\ Elsewhere(c)' = Elsewhere(c) - CountIn(c, f) + CountIn(c, queue'["frontend"])
             /\ CountIn(c, f) \in Nat /\ CountIn(c, queue'["frontend"]) \in Nat
             /\ Elsewhere(c) \in Nat /\ Elsewhere(c)' \in Nat
             /\ HeldBy(w, c) \in Nat /\ HeldBy(w, c)' \in Nat
  <2>1. Elsewhere(c) = CountIn(c, f) + CountIn(c, communication) + CountIn(c, send_buffer)
                       + CountIn(c, Seconds(publish_buffer)) + CountIn(c, ran)
    BY DEF Elsewhere, f
  <2>2. Elsewhere(c)' = CountIn(c, queue'["frontend"]) + CountIn(c, communication)
                        + CountIn(c, send_buffer) + CountIn(c, Seconds(publish_buffer))
                        + CountIn(c, ran)
    BY ElsewhereNext DEF manager, worker
  <2>3. /\ CountIn(c, queue'["frontend"]) \in Nat /\ CountIn(c, communication) \in Nat
        /\ CountIn(c, send_buffer) \in Nat /\ CountIn(c, Seconds(publish_buffer)) \in Nat
        /\ CountIn(c, ran) \in Nat /\ CountIn(c, f) \in Nat
    BY NumbersTyped, NumbersTypedNext DEF f
  <2>4. /\ Elsewhere(c) \in Nat /\ Elsewhere(c)' \in Nat
        /\ HeldBy(w, c) \in Nat /\ HeldBy(w, c)' \in Nat
    BY NumbersTyped, NumbersTypedNext
  <2>. QED
    BY <2>1, <2>2, <2>3, <2>4
<1>7. ASSUME NEW c \in Commands \ {d} PROVE Kept(c)
  <2>1. CountIn(c, queue'["frontend"]) = CountIn(c, f)
    <3>1. CountIn(c, Append(f, d)) = CountIn(c, f) + One(d, c)
      BY <1>5, CountAppend
    <3>2. One(d, c) = 0
      BY DEF One
    <3>3. CountIn(c, f) \in Nat
      BY <1>6
    <3>4. CountIn(c, Append(f, d)) = CountIn(c, f)
      BY <3>1, <3>2, <3>3
    <3>. QED
      BY <1>2, <3>4
  <2>2. Elsewhere(c)' + HeldBy(w, c)' = Elsewhere(c) + HeldBy(w, c)
    BY <1>4, <1>6, <2>1
  <2>. QED
    BY <1>4, <2>2, FaultsSame, SameKept
<1>8. Copies(d) = 0
  BY NoneBefore
<1>9. /\ Copies(d)' \in Nat
      /\ Copies(d)' = CountIn(d, queue'["frontend"]) - CountIn(d, f)
  <2>1. /\ Copies(d)' \in Nat
        /\ Copies(d)' - 0 = (Elsewhere(d)' + HeldBy(w, d)') - (Elsewhere(d) + HeldBy(w, d))
    BY <1>4, <1>8, CopiesChange
  <2>2. Elsewhere(d)' + HeldBy(w, d)' - (Elsewhere(d) + HeldBy(w, d))
        = CountIn(d, queue'["frontend"]) - CountIn(d, f)
    BY <1>4, <1>6
  <2>. QED
    BY <1>6, <2>1, <2>2
<1>10. CASE queue'["frontend"] = Append(f, d)
  <2>1. CountIn(d, queue'["frontend"]) = CountIn(d, f) + 1
    BY <1>5, <1>10, CountAppend DEF One
  <2>2. Copies(d)' = 1
    BY <1>6, <1>9, <2>1
  <2>. QED
    BY <1>2, <1>7, <2>2
<1>11. CASE queue'["frontend"] = f /\ d \in dropped'
  <2>1. Copies(d)' = 0
    BY <1>6, <1>9, <1>11
  <2>. QED
    BY <1>2, <1>7, <1>11, <2>1
<1>. QED
  BY <1>2, <1>10, <1>11

-----------------------------------------------------------------------------
(* What a worker has in hand stays so when only new commands join the      *)
(* queues.                                                                 *)
LEMMA InHandSame ==
    ASSUME Typed, Typed', InHand, NEW w \in Workers,
           incoming'[w] = incoming[w], unacked'[w] = unacked[w], consumer'[w] = consumer[w],
           queue'[w] = queue[w] \/ \E d \in Commands : queue'[w] = Append(queue[w], d)
    PROVE  incoming'[w] # None =>
               \/ consumer'[w] = "up" /\ unacked'[w] = incoming'[w]
               \/ consumer'[w] = "down" /\ queue'[w] # << >> /\ Head(queue'[w]) = incoming'[w]
<1>1. queue[w] \in Seq(Commands)
  BY SequencesTyped
<1>2. queue[w] # << >> => queue'[w] # << >> /\ Head(queue'[w]) = Head(queue[w])
  BY <1>1
<1>. QED
  BY <1>2 DEF InHand

(* Every step keeps what the workers have in hand.                         *)
LEMMA InHandNext == Typed /\ Typed' /\ InHand /\ [Next]_vars => InHand'
<1>. SUFFICES ASSUME Typed, Typed', InHand, [Next]_vars,
                     NEW w \in Workers, incoming'[w] # None
              PROVE  \/ consumer'[w] = "up" /\ unacked'[w] = incoming'[w]
                     \/ consumer'[w] = "down" /\ queue'[w] # << >> /\ Head(queue'[w]) = incoming'[w]
  BY DEF InHand
<1>. DEFINE Same == incoming'[w] = incoming[w] /\ unacked'[w] = unacked[w]
                    /\ consumer'[w] = consumer[w]
            More == queue'[w] = queue[w] \/ \E d \in Commands : queue'[w] = Append(queue[w], d)
<1>1. Same /\ More => \/ consumer'[w] = "up" /\ unacked'[w] = incoming'[w]
                      \/ consumer'[w] = "down" /\ queue'[w] # << >> /\ Head(queue'[w]) = incoming'[w]
  BY InHandSame
<1>2. CASE UNCHANGED vars
  BY <1>1, <1>2 DEF vars
<1>3. CASE InTheManager(ManagerStep)
  <2>1. Same
    BY <1>3 DEF InTheManager, ManagerStep, BalancerStep, Consume, Balance, ForwardDumplog,
                Forward, NoSuchWorker, PublishCommand, OnReceive, worker, broker
  <2>2. CASE PublishCommand
    <3>1. Head(publish_buffer) \in Workers \X Commands
      BY <2>2 DEF PublishCommand, Typed, TypeOK, ManagerTypeOK
    <3>2. PICK x \in Workers, d \in Commands : Head(publish_buffer) = <<x, d>>
      BY <3>1
    <3>3. queue' = queue \/ queue' = [queue EXCEPT ![x] = Append(queue[x], d)]
      BY <2>2, <3>2 DEF PublishCommand, Published
    <3>4. queue'[w] = queue[w] \/ queue'[w] = Append(queue[w], d)
      BY <3>3, QueueNames DEF Typed, TypeOK, BrokerTypeOK
    <3>. QED
      BY <1>1, <2>1, <3>4
  <2>3. CASE ~PublishCommand
    <3>1. queue'[w] = queue[w]
      BY <1>3, <2>3, QueueNames
      DEF InTheManager, ManagerStep, BalancerStep, Consume, Balance, ForwardDumplog,
          Forward, NoSuchWorker, OnReceive, broker, Delivered, Typed, TypeOK, BrokerTypeOK
    <3>. QED
      BY <1>1, <2>1, <3>1
  <2>. QED
    BY <2>2, <2>3
<1>4. ASSUME NEW x \in Workers, InAWorker(WorkerThreads(x) \/ Notify(x) \/ Stops(x))
      PROVE  \/ consumer'[w] = "up" /\ unacked'[w] = incoming'[w]
             \/ consumer'[w] = "down" /\ queue'[w] # << >> /\ Head(queue'[w]) = incoming'[w]
  <2>1. CASE Deliver(x) /\ x = w
    BY <2>1 DEF Deliver, Typed, TypeOK, BrokerTypeOK, WorkerTypeOK, CommandsOnly
  <2>2. CASE Deliver(x) /\ x # w
    <3>1. queue' = [queue EXCEPT ![x] = Tail(queue[x])]
      BY <2>2 DEF Deliver, Delivered
    <3>2. Same /\ More
      BY <2>2, <3>1, QueueNames DEF Deliver, Typed, TypeOK, BrokerTypeOK, WorkerTypeOK, CommandsOnly
    <3>. QED
      BY <1>1, <3>2
  <2>3. CASE QueueCallback(x) \/ NeverArrives(x)
    <3>1. x # w
      BY <2>3 DEF QueueCallback, NeverArrives, Typed, TypeOK, WorkerTypeOK
    <3>2. Same /\ More
      BY <2>3, <3>1 DEF QueueCallback, NeverArrives, broker, Typed, TypeOK, WorkerTypeOK
    <3>. QED
      BY <1>1, <3>2
  <2>4. CASE AckArrives(x)
    <3>1. x # w
      BY <2>4 DEF AckArrives, worker
    <3>2. Same /\ More
      BY <2>4, <3>1 DEF AckArrives, worker, Typed, CommandsOnly
    <3>. QED
      BY <1>1, <3>2
  <2>5. CASE TakeBuffer(x) \/ HandleCommand(x) \/ Notify(x) \/ MainEnds(x)
    BY <1>1, <2>5 DEF TakeBuffer, HandleCommand, Notify, MainEnds, broker
  <2>6. CASE WorkerDies(x)
    <3>1. x # w
      BY <2>6 DEF WorkerDies, Typed, TypeOK, WorkerTypeOK
    <3>2. queue'[w] = queue[w]
      BY <2>6, <3>1, RequeuedCount DEF WorkerDies
    <3>3. Same
      BY <2>6, <3>1 DEF WorkerDies, Requeued, Typed, TypeOK, BrokerTypeOK, WorkerTypeOK, CommandsOnly
    <3>. QED
      BY <1>1, <3>2, <3>3
  <2>. QED
    BY <1>4, <2>1, <2>2, <2>3, <2>4, <2>5, <2>6 DEF InAWorker, WorkerThreads, Stops
<1>5. CASE \E x \in Workers : Respond(x)
  <2>1. queue'[w] = queue[w]
    BY <1>5, QueueNames DEF Respond, PublishResponse, Published, Typed, TypeOK, BrokerTypeOK
  <2>2. Same
    BY <1>5 DEF Respond, PublishResponse
  <2>. QED
    BY <1>1, <2>1, <2>2
<1>6. CASE InTheFrontend(FrontendStep)
  <2>1. queue'[w] = queue[w]
    BY <1>6, QueueNames DEF InTheFrontend, FrontendStep, PublishRequest, GetAnswer, Post, Ask,
                            Published, broker, Typed, TypeOK, BrokerTypeOK
  <2>2. Same
    BY <1>6 DEF InTheFrontend, FrontendStep, PublishRequest, GetAnswer, Post, Ask, broker, worker
  <2>. QED
    BY <1>1, <2>1, <2>2
<1>7. ASSUME NEW q \in Queues, ConsumerBack(q)
      PROVE  \/ consumer'[w] = "up" /\ unacked'[w] = incoming'[w]
             \/ consumer'[w] = "down" /\ queue'[w] # << >> /\ Head(queue'[w]) = incoming'[w]
  <2>1. incoming' = incoming /\ queue' = queue /\ unacked' = unacked
    BY <1>7 DEF ConsumerBack, OfAConnection, Connect, worker
  <2>2. q # w
    BY <1>7, <2>1 DEF ConsumerBack
  <2>3. consumer'[w] = consumer[w]
    BY <1>7, <2>2 DEF ConsumerBack, OfAConnection, Connect, Typed, TypeOK, BrokerTypeOK
  <2>. QED
    BY <1>1, <2>1, <2>3
<1>8. CASE \E p \in Publishers : PublisherBack(p)
  <2>1. Same /\ More
    BY <1>8 DEF PublisherBack, OfAConnection, OnChannelClosed, ReconnectPublisher, worker
  <2>. QED
    BY <1>1, <2>1
<1>9. CASE OfAConnection(Breaks)
  <2>1. incoming' = incoming
    BY <1>9 DEF OfAConnection, worker
  <2>2. ASSUME NEW q \in Queues, NEW n \in 0..Len(queue[q]), BreakAutoAck(q, n)
        PROVE  Same /\ More
    <3>1. q # w
      BY <2>2, QueueNames DEF BreakAutoAck
    <3>2. queue'[w] = queue[w] /\ consumer'[w] = consumer[w] /\ unacked' = unacked
      BY <2>2, <3>1, QueueNames DEF BreakAutoAck, Typed, TypeOK, BrokerTypeOK
    <3>. QED
      BY <2>1, <3>2
  <2>3. ASSUME NEW x \in Workers, BreakConsumer(x)
        PROVE  \/ consumer'[w] = "up" /\ unacked'[w] = incoming'[w]
               \/ consumer'[w] = "down" /\ queue'[w] # << >> /\ Head(queue'[w]) = incoming'[w]
    <3>1. CASE x = w
      <4>1. incoming[w] # None /\ unacked[w] = incoming[w] /\ unacked[w] # None
        BY <2>1, <2>3, <3>1 DEF BreakConsumer, InHand
      <4>2. queue' = [queue EXCEPT ![w] = <<unacked[w]>> \o queue[w]]
        BY <2>3, <3>1, <4>1 DEF BreakConsumer, Requeued
      <4>3. queue'[w] = <<unacked[w]>> \o queue[w] /\ w \in Queues
        BY <4>2, QueueNames DEF Typed, TypeOK, BrokerTypeOK
      <4>4. unacked[w] \in Commands /\ queue[w] \in Seq(Commands)
        BY <4>1, SequencesTyped DEF Typed, CommandsOnly
      <4>5. queue'[w] # << >> /\ Head(queue'[w]) = unacked[w]
        BY <4>3, <4>4
      <4>6. consumer'[w] = "down"
        BY <2>3, <3>1, <4>3 DEF BreakConsumer, Typed, TypeOK, BrokerTypeOK
      <4>. QED
        BY <2>1, <4>1, <4>5, <4>6
    <3>2. CASE x # w
      <4>1. queue'[w] = queue[w]
        BY <2>3, <3>2, RequeuedCount DEF BreakConsumer
      <4>2. unacked'[w] = unacked[w] /\ consumer'[w] = consumer[w]
        BY <2>3, <3>2, QueueNames DEF BreakConsumer, Requeued, Typed, TypeOK, BrokerTypeOK, CommandsOnly
      <4>. QED
        BY <1>1, <2>1, <4>1, <4>2
    <3>. QED
      BY <3>1, <3>2
  <2>4. ASSUME NEW p \in Publishers, BreakPublisher(p) PROVE Same /\ More
    BY <2>1, <2>4 DEF BreakPublisher
  <2>. QED
    BY <1>1, <1>9, <2>2, <2>3, <2>4 DEF OfAConnection, Breaks
<1>10. CASE Restarts
  <2>1. PICK n \in 0..Len(queue["frontend"]), k \in 0..Len(queue["confirm"]) :
            ManagerRestarts(alive, n, k)
    BY <1>10 DEF Restarts
  <2>2. queue'[w] = queue[w] /\ consumer'[w] = consumer[w] /\ unacked' = unacked
    BY <2>1, QueueNames DEF ManagerRestarts, Typed, TypeOK, BrokerTypeOK
  <2>3. incoming' = incoming
    BY <1>10 DEF Restarts, WorkersRestart
  <2>. QED
    BY <1>1, <2>2, <2>3
<1>11. CASE InTheManager(CannotParse)
  <2>1. Same /\ More
    BY <1>11, CannotParseIs DEF worker
  <2>. QED
    BY <1>1, <2>1
<1>. QED
  BY <1>2, <1>3, <1>4, <1>5, <1>6, <1>7, <1>8, <1>9, <1>10, <1>11 DEF Next

THEOREM InHandHolds == Spec => []InHand
<1>1. Init => InHand
  BY DEF Init, WorkerInit, InHand
<1>2. Init /\ []Typed /\ [][Next]_vars => []InHand
  BY <1>1, InHandNext, PTL
<1>. QED
  BY <1>2, TypedHolds, PTL DEF Spec

-----------------------------------------------------------------------------
(* The steps that publish no command keep the copies of those published.   *)
LEMMA KeptOnce ==
    ASSUME IsFiniteSet(Workers), Typed, Typed', RunOnce, AllKept, UNCHANGED submitted
    PROVE  RunOnce'
<1>. SUFFICES ASSUME NEW c \in ToSet(submitted)
              PROVE  Copies(c)' <= 1 + faults' /\ (Copies(c)' = 0 => c \in dropped')
  BY DEF RunOnce
<1>1. c \in Commands
  BY ToSetType DEF Typed, TypeOK, FrontendTypeOK
<1>2. /\ Copies(c) <= 1 + faults /\ (Copies(c) = 0 => c \in dropped)
      /\ Copies(c)' <= Copies(c) + (faults' - faults)
      /\ Copies(c)' = 0 => Copies(c) = 0 \/ c \in dropped'
      /\ dropped \subseteq dropped'
  BY <1>1 DEF RunOnce, AllKept, Kept
<1>3. Copies(c) \in Int /\ Copies(c)' \in Int /\ faults \in Int /\ faults' \in Int
  BY CopiesTyped DEF Typed, TypeOK, BrokerTypeOK
<1>4. Copies(c)' <= 1 + faults'
  <2>1. \A a, b, x, y \in Int : a <= 1 + x /\ b <= a + (y - x) => b <= 1 + y
    OBVIOUS
  <2>. QED
    BY <1>2, <1>3, <2>1
<1>. QED
  BY <1>2, <1>4

(* One that publishes a command that was not published before.             *)
LEMMA SubmittedOnce ==
    ASSUME IsFiniteSet(Workers), Typed, Typed', Lines, RunOnce, NEW d \in Commands,
           d \notin ToSet(submitted), Published("frontend", d),
           submitted' = Append(submitted, d), UNCHANGED <<manager, worker, faults>>
    PROVE  RunOnce'
<1>1. /\ dropped \subseteq dropped' /\ \A c \in Commands \ {d} : Kept(c)
      /\ Copies(d)' <= 1 /\ (Copies(d)' = 0 => d \in dropped')
  BY SubmitKept
<1>2. faults' = faults /\ faults \in Nat
  BY FaultsAssumption DEF Typed, TypeOK, BrokerTypeOK
<1>3. submitted \in Seq(Commands) /\ ToSet(submitted') = ToSet(submitted) \cup {d}
  BY AppendToSet DEF Typed, TypeOK, FrontendTypeOK
<1>4. Copies(d)' \in Int /\ \A c : Copies(c) \in Int /\ Copies(c)' \in Int
  BY CopiesTyped
<1>5. ASSUME NEW c \in ToSet(submitted)
      PROVE  Copies(c)' <= 1 + faults' /\ (Copies(c)' = 0 => c \in dropped')
  <2>1. c \in Commands \ {d}
    BY <1>3, ToSetType
  <2>2. /\ Copies(c) <= 1 + faults /\ (Copies(c) = 0 => c \in dropped)
        /\ Copies(c)' <= Copies(c) + (faults' - faults)
        /\ Copies(c)' = 0 => Copies(c) = 0 \/ c \in dropped'
    BY <1>1, <2>1 DEF RunOnce, Kept
  <2>3. \A a, b, x \in Int : a <= 1 + x /\ b <= a + (x - x) => b <= 1 + x
    OBVIOUS
  <2>4. Copies(c)' <= 1 + faults'
    BY <1>2, <1>4, <2>2, <2>3
  <2>. QED
    BY <1>1, <2>2, <2>4
<1>6. Copies(d)' <= 1 + faults'
  BY <1>1, <1>2, <1>4
<1>. QED
  BY <1>1, <1>3, <1>5, <1>6 DEF RunOnce

LEMMA RunOnceNext ==
    ASSUME IsFiniteSet(Workers)
    PROVE  Typed /\ Typed' /\ OnTheWay /\ InHand /\ RunOnce /\ [Next]_vars => RunOnce'
<1>. SUFFICES ASSUME Typed, Typed', OnTheWay, InHand, RunOnce, [Next]_vars PROVE RunOnce'
  OBVIOUS
<1>1. CASE AllKept /\ UNCHANGED submitted
  BY <1>1, KeptOnce
<1>2. CASE UNCHANGED vars
  <2>1. Still /\ UNCHANGED submitted
    BY <1>2, FaultsSame DEF vars, Still
  <2>. QED
    BY <1>1, <2>1, StillKept
<1>3. CASE InTheManager(ManagerStep)
  BY <1>1, <1>3, ManagerKept DEF InTheManager, frontend
<1>9. CASE InTheManager(CannotParse)
  <2>1. Still /\ UNCHANGED submitted
    BY <1>9, CannotParseIs DEF Still, worker, frontend
  <2>. QED
    BY <1>1, <2>1, StillKept
<1>4. CASE \E w \in Workers : InAWorker(WorkerThreads(w) \/ Notify(w) \/ Stops(w))
  BY <1>1, <1>4, WorkerKept DEF InAWorker, frontend
<1>5. CASE \E w \in Workers : Respond(w)
  BY <1>1, <1>5, RespondKept DEF Respond
<1>6. CASE \/ \E q \in Queues : ConsumerBack(q)
           \/ \E p \in Publishers : PublisherBack(p)
           \/ OfAConnection(Breaks)
  <2>1. UNCHANGED submitted
    BY <1>6 DEF ConsumerBack, PublisherBack, OfAConnection, frontend
  <2>. QED
    BY <1>1, <1>6, <2>1, ConnectionKept
<1>7. CASE Restarts
  BY <1>1, <1>7, RestartKept DEF Restarts, frontend
<1>8. CASE InTheFrontend(FrontendStep)
  <2>0. UNCHANGED <<manager, worker>>
    BY <1>8 DEF InTheFrontend
  <2>1. CASE PublishRequest
    <3>1. /\ asking \in Commands /\ submitted' = Append(submitted, asking)
          /\ Published("frontend", asking) /\ UNCHANGED faults
      BY <2>1, WebAssumption DEF PublishRequest, Typed, TypeOK, FrontendTypeOK
    <3>2. asking \notin ToSet(submitted)
      BY <2>1, WebAssumption DEF PublishRequest, OnTheWay, NotYet, Typed, TypeOK, FrontendTypeOK
    <3>. QED
      BY <2>0, <3>1, <3>2, SubmittedOnce DEF OnTheWay
  <2>2. CASE Post
    <3>. DEFINE d == Workload[posted + 1]
    <3>1. /\ posted + 1 \in 1..Len(Workload) /\ posted \in Nat
          /\ submitted' = Append(submitted, d) /\ Published("frontend", d) /\ UNCHANGED faults
      BY <2>2, WorkloadAssumption DEF Post, Typed, TypeOK, FrontendTypeOK
    <3>2. d \in Commands
      BY <3>1, WorkloadAssumption
    <3>3. d \notin ToSet(submitted)
      BY <3>1 DEF OnTheWay, NotYet
    <3>4. PICK e \in Commands : e = d
      BY <3>2
    <3>. HIDE DEF d
    <3>. QED
      BY <2>0, <3>1, <3>3, <3>4, SubmittedOnce DEF OnTheWay
  <2>3. CASE GetAnswer \/ \E c \in Web : Ask(c)
    <3>1. Still /\ UNCHANGED submitted
      BY <2>0, <2>3, FaultsSame DEF GetAnswer, Ask, broker, manager, worker, Still
    <3>. QED
      BY <1>1, <3>1, StillKept
  <2>. QED
    BY <1>8, <2>1, <2>2, <2>3 DEF InTheFrontend, FrontendStep
<1>. QED
  BY <1>2, <1>3, <1>4, <1>5, <1>6, <1>7, <1>8, <1>9 DEF Next

(***************************************************************************)
(* However connections break, containers stop and the manager starts       *)
(* again, a command has at most one copy more than there were faults, and  *)
(* one that was published and is nowhere is among those that were lost:    *)
(* with a connection, a buffer, or for want of a queue.  A command is run  *)
(* twice after a redelivery only.                                          *)
(***************************************************************************)
THEOREM CommandsRunOnce ==
    ASSUME IsFiniteSet(Workers)
    PROVE  Spec => []RunOnce
<1>1. Init => RunOnce
  BY EmptySorted DEF Init, FrontendInit, RunOnce
<1>2. Init /\ []Typed /\ []OnTheWay /\ []InHand /\ [][Next]_vars => []RunOnce
  BY <1>1, RunOnceNext, PTL
<1>. QED
  BY <1>2, TypedHolds, OnTheWayHolds, InHandHolds, PTL DEF Spec
===================================================================================
