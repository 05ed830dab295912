----------------------------- MODULE ProxyProofs -----------------------------
(***************************************************************************)
(* Theorems about Proxy, for every number of connections and of lines and  *)
(* whatever clients ask for, servers fail and stacks hold.                 *)
(***************************************************************************)
EXTENDS Proxy, Induction

Entered == In({"entered"})
Inside == In({"entered", "send", "leave"})   \* those read_cnt counts

\* What of th the protocol depends on.
Shape ==
  /\ DOMAIN th = Conns
  /\ \A c \in Conns : "pc" \in DOMAIN th[c]
  /\ curr_time \in Nat /\ load \in Loads
  /\ \A c \in Conns : c > curr_time => th[c].pc = "none"

(***************************************************************************)
(* The inductive invariant.  ReadersWriters alone is not: that the first   *)
(* reader is the one whose increment gave 1 needs that one thread at most  *)
(* holds mutex, and that an accepted connection disturbs nobody needs that *)
(* its thread has not been started.                                        *)
(***************************************************************************)
Protocol ==
  /\ Shape
  /\ \A c, d \in Writers : c = d
  /\ \A c, d \in Entered : c = d
  /\ Writers = {} \/ Readers = {}
  /\ read_cnt = Cardinality(Inside)
  /\ sem \in [{"mutex", "w"} -> Nat]
  /\ sem["w"] = IF Writers \cup Readers = {} THEN 1 ELSE 0
  /\ sem["mutex"] = IF Entered = {} THEN 1 ELSE 0

-----------------------------------------------------------------------------
LEMMA Sets ==
  /\ IsFiniteSet(Conns) /\ IsFiniteSet(Writers) /\ IsFiniteSet(Readers)
  /\ IsFiniteSet(Entered) /\ IsFiniteSet(Inside)
  /\ Inside = Readers \cup Entered /\ Readers \cap Entered = {}
<1>1. IsFiniteSet(Conns)
  BY FS_Interval, ProxyAssumption DEF Conns
<1>2. Writers \subseteq Conns /\ Readers \subseteq Conns /\ Entered \subseteq Conns /\ Inside \subseteq Conns
  BY DEF Writers, Readers, Entered, Inside, In
<1>3. Inside = Readers \cup Entered /\ Readers \cap Entered = {}
  BY DEF Readers, Entered, Inside, In
<1> QED BY <1>1, <1>2, <1>3, FS_Subset

LEMMA Solo ==
  ASSUME NEW S, IsFiniteSet(S), \A x, y \in S : x = y
  PROVE  Cardinality(S) \in {0, 1}
<1>1. CASE S = {}
  BY <1>1, FS_EmptySet
<1>2. CASE S # {}
  <2>1. PICK x \in S : S = {x}
    BY <1>2
  <2> QED BY <2>1, FS_Singleton
<1> QED BY <1>1, <1>2

\* The invariant says what the comments of proxy.c promise.
LEMMA ProtocolSuffices == Protocol => ReadersWriters
<1> SUFFICES ASSUME Protocol PROVE ReadersWriters
  OBVIOUS
<1>1. Cardinality(Writers) <= 1
  BY Sets, Solo DEF Protocol
<1>2. Cardinality(Inside) = Cardinality(Readers) + Cardinality(Entered)
  <2>1. Cardinality(Readers \cap Entered) = 0
    BY Sets, FS_EmptySet
  <2>2. Cardinality(Readers) \in Nat /\ Cardinality(Entered) \in Nat
    BY Sets, FS_CardinalityType
  <2> QED BY Sets, <2>1, <2>2, FS_Union
<1> QED BY <1>1, <1>2 DEF Protocol, ReadersWriters, Entered

LEMMA ProtocolInit == Init => Protocol
<1> SUFFICES ASSUME Init PROVE Protocol
  OBVIOUS
<1>1. Shape
  BY DEF Init, Shape
<1>2. Writers = {} /\ Readers = {} /\ Entered = {} /\ Inside = {}
  BY DEF Init, Writers, Readers, Entered, Inside, In
<1> QED BY <1>1, <1>2, FS_EmptySet DEF Init, Protocol

-----------------------------------------------------------------------------
\* Thread c goes from one label to another, and nobody else does.
Moves(c, from, to) ==
  /\ th[c].pc = from /\ th'[c].pc = to
  /\ DOMAIN th' = Conns
  /\ \A d \in Conns : "pc" \in DOMAIN th'[d]
  /\ \A d \in Conns : d # c => th'[d].pc = th[d].pc
  /\ curr_time' = curr_time /\ load' = load

LEMMA MovedShape ==
  ASSUME Shape, NEW c \in Conns, NEW from, NEW to, Moves(c, from, to), from # "none"
  PROVE  Shape'
BY DEF Shape, Moves, Conns

LEMMA MovedSets ==
  ASSUME NEW c \in Conns, NEW from, NEW to, Moves(c, from, to), NEW labels
  PROVE  In(labels)' = IF to \in labels THEN In(labels) \cup {c} ELSE In(labels) \ {c}
BY DEF Moves, In
W == {"touched", "stamp", "tag", "validate"}
R == {"send", "leave"}

\* Who is inside after a move, set by set.
LEMMA MovedAll ==
  ASSUME NEW c \in Conns, NEW from, NEW to, Moves(c, from, to)
  PROVE  /\ Writers' = IF to \in W THEN Writers \cup {c} ELSE Writers \ {c}
         /\ Readers' = IF to \in R THEN Readers \cup {c} ELSE Readers \ {c}
         /\ Entered' = IF to = "entered" THEN Entered \cup {c} ELSE Entered \ {c}
         /\ Inside' = IF to \in R \cup {"entered"} THEN Inside \cup {c} ELSE Inside \ {c}
         /\ c \in Writers <=> from \in W
         /\ c \in Readers <=> from \in R
         /\ c \in Entered <=> from = "entered"
         /\ c \in Inside <=> from \in R \cup {"entered"}
<1>1. In(W)' = IF to \in W THEN In(W) \cup {c} ELSE In(W) \ {c}
  BY MovedSets
<1>2. In(R)' = IF to \in R THEN In(R) \cup {c} ELSE In(R) \ {c}
  BY MovedSets
<1>3. In({"entered"})' = IF to \in {"entered"} THEN In({"entered"}) \cup {c} ELSE In({"entered"}) \ {c}
  BY MovedSets
<1>4. In(R \cup {"entered"})' = IF to \in R \cup {"entered"} THEN In(R \cup {"entered"}) \cup {c}
                                ELSE In(R \cup {"entered"}) \ {c}
  BY MovedSets
<1>5. /\ Writers = In(W) /\ Readers = In(R) /\ Entered = In({"entered"})
      /\ Inside = In(R \cup {"entered"})
  BY DEF Writers, Readers, Entered, Inside, In, W, R
<1>6. /\ Writers' = In(W)' /\ Readers' = In(R)' /\ Entered' = In({"entered"})'
      /\ Inside' = In(R \cup {"entered"})'
  BY DEF Writers, Readers, Entered, Inside, In, W, R
<1>7. \A labels : c \in In(labels) <=> from \in labels
  BY DEF Moves, In
<1> QED BY <1>1, <1>2, <1>3, <1>4, <1>5, <1>6, <1>7

\* A move between labels of one kind, without a semaphore.
LEMMA Neutral ==
  ASSUME Protocol, NEW c \in Conns, NEW from, NEW to, Moves(c, from, to), from # "none",
         from \in W <=> to \in W, from \in R <=> to \in R, from = "entered" <=> to = "entered",
         sem' = sem, read_cnt' = read_cnt
  PROVE  Protocol'
<1>1. Shape'
  BY MovedShape DEF Protocol
<1>2. Writers' = Writers /\ Readers' = Readers /\ Entered' = Entered /\ Inside' = Inside
  BY MovedAll
<1> QED BY <1>1, <1>2 DEF Protocol

LEMMA WriterEnters ==
  ASSUME Protocol, NEW c \in Conns, NEW from, NEW to, Moves(c, from, to), from # "none",
         from \notin W \cup R \cup {"entered"}, to \in W, P("w"), read_cnt' = read_cnt
  PROVE  Protocol'
<1>1. Shape'
  BY MovedShape DEF Protocol
<1>2. Writers = {} /\ Readers = {} /\ sem["w"] = 1
  BY DEF Protocol, P
<1>3. to \notin R /\ to # "entered"
  BY DEF W, R
<1>4. Writers' = {c} /\ Readers' = {} /\ Entered' = Entered /\ Inside' = Inside
  BY <1>2, <1>3, MovedAll
<1>5. /\ sem' \in [{"mutex", "w"} -> Nat]
      /\ sem'["w"] = 0 /\ sem'["mutex"] = sem["mutex"]
  BY <1>2 DEF Protocol, P
<1> QED BY <1>1, <1>2, <1>4, <1>5 DEF Protocol

LEMMA WriterLeaves ==
  ASSUME Protocol, NEW c \in Conns, NEW from, NEW to, Moves(c, from, to), from # "none",
         from \in W, to \notin W \cup R \cup {"entered"}, V("w"), read_cnt' = read_cnt
  PROVE  Protocol'
<1>1. Shape'
  BY MovedShape DEF Protocol
<1>2. c \in Writers /\ from \notin R /\ from # "entered"
  BY MovedAll DEF W, R
<1>3. Writers = {c} /\ Readers = {} /\ sem["w"] = 0
  BY <1>2 DEF Protocol
<1>4. Writers' = {} /\ Readers' = {} /\ Entered' = Entered /\ Inside' = Inside
  BY <1>2, <1>3, MovedAll
<1>5. /\ sem' \in [{"mutex", "w"} -> Nat]
      /\ sem'["w"] = 1 /\ sem'["mutex"] = sem["mutex"]
  BY <1>3 DEF Protocol, V
<1> QED BY <1>1, <1>4, <1>5 DEF Protocol

-----------------------------------------------------------------------------
LEMMA ReaderCounts ==
  ASSUME Protocol, NEW c \in Conns, ReaderCount(c), load' = load
  PROVE  Protocol'
<1>1. Moves(c, "enter", "entered")
  BY DEF Protocol, Shape, ReaderCount, At, Goto, Moves
<1>2. Shape'
  BY <1>1, MovedShape DEF Protocol
<1>3. sem["mutex"] = 1 /\ Entered = {}
  BY DEF Protocol, ReaderCount, P
<1>4. /\ Writers' = Writers /\ Readers' = Readers /\ Entered' = {c}
      /\ Inside' = Inside \cup {c} /\ c \notin Inside
  BY <1>1, <1>3, MovedAll DEF W, R
<1>5. Cardinality(Inside') = Cardinality(Inside) + 1
  BY <1>4, Sets, FS_AddElement
<1>6. /\ sem' \in [{"mutex", "w"} -> Nat] /\ read_cnt' = read_cnt + 1
      /\ sem'["mutex"] = 0 /\ sem'["w"] = sem["w"]
  BY <1>3 DEF Protocol, ReaderCount, P
<1> QED BY <1>2, <1>4, <1>5, <1>6 DEF Protocol

LEMMA ReaderEnters ==
  ASSUME Protocol, NEW c \in Conns, ReaderEnter(c), load' = load
  PROVE  Protocol'
<1>1. Moves(c, "entered", "send")
  BY DEF Protocol, Shape, ReaderEnter, At, Goto, Moves
<1>2. Shape'
  BY <1>1, MovedShape DEF Protocol
<1>3. c \in Entered /\ Entered = {c} /\ c \in Inside
  BY <1>1, MovedAll DEF Protocol
<1>4. Writers' = Writers \ {c} /\ c \notin Writers /\ Readers' = Readers \cup {c}
      /\ Entered' = {} /\ Inside' = Inside
  BY <1>1, <1>3, MovedAll DEF W, R
<1>5. /\ sem' \in [{"mutex", "w"} -> Nat] /\ read_cnt' = read_cnt /\ sem'["mutex"] = 1
      /\ sem'["w"] = IF read_cnt = 1 THEN sem["w"] - 1 ELSE sem["w"]
      /\ read_cnt = 1 => sem["w"] > 0
  BY DEF Protocol, ReaderEnter
<1>6. CASE read_cnt = 1
  <2>1. sem["w"] = 1 /\ Writers = {}
    BY <1>5, <1>6 DEF Protocol
  <2> QED BY <1>2, <1>4, <1>5, <1>6, <2>1 DEF Protocol
<1>7. CASE read_cnt # 1
  <2>1. Readers # {}
    <3> SUFFICES ASSUME Readers = {} PROVE FALSE
      OBVIOUS
    <3>1. Inside = {c}
      BY <1>3, Sets
    <3> QED BY <1>7, <3>1, FS_Singleton DEF Protocol
  <2>2. Writers = {} /\ sem["w"] = 0
    BY <2>1 DEF Protocol
  <2> QED BY <1>2, <1>4, <1>5, <1>7, <2>2 DEF Protocol
<1> QED BY <1>6, <1>7

LEMMA ReaderLeaves ==
  ASSUME Protocol, NEW c \in Conns, ReaderLeave(c), load' = load
  PROVE  Protocol'
<1>1. Moves(c, "leave", "close")
  BY DEF Protocol, Shape, ReaderLeave, At, Goto, Moves
<1>2. Shape'
  BY <1>1, MovedShape DEF Protocol
<1>3. Entered = {} /\ Inside = Readers
  BY Sets DEF Protocol, ReaderLeave
<1>4. c \in Readers /\ Writers = {} /\ sem["w"] = 0
  BY <1>1, MovedAll DEF Protocol, R
<1>5. Writers' = {} /\ Readers' = Readers \ {c} /\ Entered' = {} /\ Inside' = Readers \ {c}
  BY <1>1, <1>3, <1>4, MovedAll DEF W, R
<1>6. Cardinality(Inside') = Cardinality(Inside) - 1
  BY <1>3, <1>4, <1>5, Sets, FS_RemoveElement
<1>7. read_cnt = 1 <=> Readers \ {c} = {}
  <2>1. ASSUME read_cnt = 1 PROVE Readers = {c}
    <3>1. Cardinality(Readers) = 1 /\ IsFiniteSet(Readers)
      BY <1>3, <2>1, Sets DEF Protocol
    <3>2. PICK x : Readers = {x}
      BY <3>1, FS_Singleton
    <3> QED BY <1>4, <3>2
  <2>2. Readers \ {c} = {} => Readers = {c}
    BY <1>4
  <2>3. Readers = {c} => read_cnt = 1
    BY <1>3, FS_Singleton DEF Protocol
  <2> QED BY <2>1, <2>2, <2>3
<1>8. /\ sem' \in [{"mutex", "w"} -> Nat] /\ read_cnt' = read_cnt - 1
      /\ sem'["mutex"] = sem["mutex"]
      /\ sem'["w"] = IF read_cnt = 1 THEN 1 ELSE 0
  BY <1>4 DEF Protocol, ReaderLeave
<1> QED BY <1>2, <1>3, <1>5, <1>6, <1>7, <1>8 DEF Protocol
-----------------------------------------------------------------------------
\* The steps of serve that take no semaphore; after Exit nobody moves.
LEMMA Unlocked ==
  ASSUME Protocol, NEW c \in Conns, load' = load,
         \/ ParseRequest(c) \/ CheckLine(c) \/ SendCached(c) \/ Connect(c) \/ ConnectFails(c)
         \/ RelayChunk(c) \/ RelayEnd(c) \/ ChooseLine(c) \/ WriteTimestamp(c) \/ WriteHash(c)
         \/ CloseServer(c) \/ CloseClient(c)
  PROVE  Protocol'
<1> USE DEF Protocol, Shape, At, Goto, Exit, Undefined, Moves, W, R
<1>1. CASE ParseRequest(c)
  <2>1. Moves(c, "parse", "check") \/ Moves(c, "parse", "parse")
    BY <1>1 DEF ParseRequest
  <2>2. sem' = sem /\ read_cnt' = read_cnt
    BY <1>1 DEF ParseRequest
  <2> QED BY <2>1, <2>2, Neutral
<1>2. CASE CheckLine(c)
  <2>1. Moves(c, "check", "touch") \/ Moves(c, "check", "check") \/ Moves(c, "check", "connect")
    BY <1>2 DEF CheckLine
  <2>2. sem' = sem /\ read_cnt' = read_cnt
    BY <1>2 DEF CheckLine
  <2> QED BY <2>1, <2>2, Neutral
<1>3. CASE SendCached(c)
  <2>1. Moves(c, "send", "leave") /\ sem' = sem /\ read_cnt' = read_cnt
    BY <1>3 DEF SendCached
  <2> QED BY <2>1, Neutral
<1>4. CASE Connect(c)
  <2>1. /\ sem' = sem /\ read_cnt' = read_cnt
        /\ \/ Moves(c, "connect", "relay") \/ Moves(c, "connect", "choose") \/ Moves(c, "connect", "close")
    BY <1>4 DEF Connect, Fetched
  <2> QED BY <2>1, Neutral
<1>5. CASE ConnectFails(c)
  <2>1. /\ sem' = sem /\ read_cnt' = read_cnt
        /\ Moves(c, "connect", "choose") \/ Moves(c, "connect", "close")
    BY <1>5 DEF ConnectFails, Fetched
  <2> QED BY <2>1, Neutral
<1>6. CASE RelayChunk(c)
  <2>1. Moves(c, "relay", "relay") /\ sem' = sem /\ read_cnt' = read_cnt
    BY <1>6 DEF RelayChunk
  <2> QED BY <2>1, Neutral
<1>7. CASE RelayEnd(c)
  <2>1. /\ sem' = sem /\ read_cnt' = read_cnt
        /\ \/ Moves(c, "relay", "choose") \/ Moves(c, "relay", "close") \/ Moves(c, "relay", "relay")
    BY <1>7 DEF RelayEnd, Fetched
  <2>2. CASE Moves(c, "relay", "choose")
    BY <2>1, <2>2, Neutral
  <2>3. CASE Moves(c, "relay", "close")
    BY <2>1, <2>3, Neutral
  <2>4. CASE Moves(c, "relay", "relay")
    BY <2>1, <2>4, Neutral
  <2> QED BY <2>1, <2>2, <2>3, <2>4
<1>8. CASE ChooseLine(c)
  <2>1. /\ sem' = sem /\ read_cnt' = read_cnt
        /\ Moves(c, "choose", "write") \/ Moves(c, "choose", "choose")
    BY <1>8 DEF ChooseLine
  <2> QED BY <2>1, Neutral
<1>9. CASE WriteTimestamp(c)
  <2>1. Moves(c, "stamp", "tag") /\ sem' = sem /\ read_cnt' = read_cnt
    BY <1>9 DEF WriteTimestamp
  <2> QED BY <2>1, Neutral
<1>10. CASE WriteHash(c)
  <2>1. Moves(c, "tag", "validate") /\ sem' = sem /\ read_cnt' = read_cnt
    BY <1>10 DEF WriteHash
  <2> QED BY <2>1, Neutral
<1>11. CASE CloseServer(c)
  <2>1. /\ sem' = sem /\ read_cnt' = read_cnt
        /\ Moves(c, "close", "closed") \/ Moves(c, "close", "close")
    BY <1>11 DEF CloseServer, Close
  <2> QED BY <2>1, Neutral
<1>12. CASE CloseClient(c)
  <2>1. /\ sem' = sem /\ read_cnt' = read_cnt
        /\ Moves(c, "closed", "done") \/ Moves(c, "closed", "closed")
    BY <1>12 DEF CloseClient, Close
  <2> QED BY <2>1, Neutral
<1> QED BY <1>1, <1>2, <1>3, <1>4, <1>5, <1>6, <1>7, <1>8, <1>9, <1>10, <1>11, <1>12

\* The steps of a writer that take or post w: of a hit's timestamp, of a line.
LEMMA WriterSteps ==
  ASSUME Protocol, NEW c \in Conns, load' = load,
         TouchLock(c) \/ TouchUnlock(c) \/ WriteContent(c) \/ WriteValid(c)
  PROVE  Protocol'
<1> USE DEF Protocol, Shape, At, Goto, Moves, W, R
<1>1. CASE TouchLock(c)
  <2>1. Moves(c, "touch", "touched") /\ P("w") /\ read_cnt' = read_cnt
    BY <1>1 DEF TouchLock
  <2> QED BY <2>1, WriterEnters
<1>2. CASE TouchUnlock(c)
  <2>1. Moves(c, "touched", "enter") /\ V("w") /\ read_cnt' = read_cnt
    BY <1>2 DEF TouchUnlock
  <2> QED BY <2>1, WriterLeaves
<1>3. CASE WriteContent(c)
  <2>1. Moves(c, "write", "stamp") /\ P("w") /\ read_cnt' = read_cnt
    BY <1>3 DEF WriteContent
  <2> QED BY <2>1, WriterEnters
<1>4. CASE WriteValid(c)
  <2>1. Moves(c, "validate", "close") /\ V("w") /\ read_cnt' = read_cnt
    BY <1>4 DEF WriteValid
  <2> QED BY <2>1, WriterLeaves
<1> QED BY <1>1, <1>2, <1>3, <1>4

\* main accepts: the thread of the new connection starts outside.
LEMMA Accepts ==
  ASSUME Protocol, NEW o, NEW stack, Accept(o, stack), load' = load
  PROVE  Protocol'
<1> DEFINE c == curr_time + 1
<1>1. load.conns \in 0..MaxConns
  BY ProxyAssumption DEF Protocol, Shape
<1>2. curr_time \in Nat /\ c \in Conns /\ th[c].pc = "none" /\ curr_time' = c
  BY <1>1, ProxyAssumption DEF Protocol, Shape, Accept, Conns
<1>3. /\ DOMAIN th' = Conns /\ th'[c].pc = "parse"
      /\ \A d \in Conns : "pc" \in DOMAIN th'[d]
      /\ \A d \in Conns : d # c => th'[d].pc = th[d].pc
  BY <1>2 DEF Protocol, Shape, Accept
<1>4. Shape'
  BY <1>2, <1>3 DEF Protocol, Shape, Conns
<1>5. Writers' = Writers /\ Readers' = Readers /\ Entered' = Entered /\ Inside' = Inside
  BY <1>2, <1>3 DEF Writers, Readers, Entered, Inside, In
<1>6. sem' = sem /\ read_cnt' = read_cnt
  BY DEF Accept
<1> QED BY <1>4, <1>5, <1>6 DEF Protocol

LEMMA ProtocolStep == Protocol /\ [Next]_vars => Protocol'
<1> SUFFICES ASSUME Protocol, [Next]_vars PROVE Protocol'
  OBVIOUS
<1>1. CASE UNCHANGED vars
  BY <1>1 DEF vars, Protocol, Shape, Writers, Readers, Entered, Inside, In
<1>2. CASE main /\ UNCHANGED load
  BY <1>2, Accepts DEF main
<1>3. ASSUME NEW c \in Conns, serve(c), UNCHANGED load PROVE Protocol'
  BY <1>3, Unlocked, WriterSteps, ReaderCounts, ReaderEnters, ReaderLeaves DEF serve
<1> QED BY <1>1, <1>2, <1>3 DEF Next

\* "w: lock cache while writing", "mutex: lock read_cnt" (proxy.c:63-64): whatever
\* the threads of serve do, one writer or any number of readers are inside, and
\* read_cnt, w and mutex say who.
THEOREM ReadersOrWriter == Spec => []ReadersWriters
BY ProtocolInit, ProtocolStep, ProtocolSuffices, PTL DEF Spec

-----------------------------------------------------------------------------
\* The fold over no chunk.
LEMMA EmptyTotal == Total(<<>>) = 0
<1> DEFINE F(iter) == [s \in SUBSET {} |->
             IF s = {} THEN 0
             ELSE LET x == CHOOSE y \in s : TRUE
                  IN  ChunkSize(<<>>[x]) + iter[s \ {x}]]
<1>1. DOMAIN <<>> = {}
  OBVIOUS
<1>2. Total(<<>>) = (CHOOSE iter : iter = F(iter))[{}]
  BY <1>1 DEF Total, FoldSeq, FoldFunction, FoldFunctionOnSet, MapThenFoldSet
<1>3. \A g : F(g) = [s \in SUBSET {} |-> 0]
  OBVIOUS
<1>4. \E iter : iter = F(iter)
  BY <1>3
<1> DEFINE G == CHOOSE iter : iter = F(iter)
<1>5. G = F(G)
  BY <1>4
<1> HIDE DEF F
<1>6. G = [s \in SUBSET {} |-> 0]
  BY <1>3, <1>5
<1> QED BY <1>2, <1>6

-----------------------------------------------------------------------------
(***************************************************************************)
(* What a line holds.  A writer works on its line step by step, so the     *)
(* invariant says of each of its labels which part is already the          *)
(* request's own, and of a line nobody fills that it was filled by a       *)
(* thread past its last use of the cache: the buffer and the request of    *)
(* such a thread no longer change.                                         *)
(***************************************************************************)
Fields == {"pc", "object", "cfd", "sfd", "idx", "oldest", "lru", "now", "buf"}
LineFields == {"content", "timestamp", "hash", "valid"}

Filling == {"stamp", "tag", "validate"}
Fills == {"choose", "write"} \cup Filling
OnLine == {"touch", "touched", "write"} \cup Filling
Over == {"close", "closed", "done"}

\* Of the thread with locals t.
Sound(t, lines) ==
  /\ DOMAIN t = Fields
  /\ t.lru \in Lines
  /\ t.pc \in OnLine => t.idx \in Lines
  /\ t.pc \in Fills => Total(t.buf) < MAX_OBJECT_SIZE
  /\ t.pc \in Filling => lines[t.idx].content = t.buf
  /\ t.pc = "validate" => lines[t.idx].hash = t.object

Settled(i, lines, ts) ==
  /\ lines[i].valid
  /\ \A c \in Conns : ts[c].pc \in Filling => ts[c].idx # i
  => \E c \in Conns : /\ ts[c].pc \in Over
                      /\ ts[c].object = lines[i].hash
                      /\ ts[c].buf = lines[i].content

Filled ==
  /\ DOMAIN th = Conns /\ DOMAIN cache = Lines
  /\ \A c \in Conns : Sound(th[c], cache)
  /\ \A i \in Lines : /\ DOMAIN cache[i] = LineFields
                      /\ Total(cache[i].content) < MAX_OBJECT_SIZE
                      /\ Settled(i, cache, th)

LEMMA FilledSuffices == Filled => NoTornLine
BY DEF Filled, Settled, NoTornLine, Writers, In, Filling

LEMMA FilledInit == Init => Filled
<1> SUFFICES ASSUME Init PROVE Filled
  OBVIOUS
<1>1. DOMAIN th = Conns /\ DOMAIN cache = Lines
  BY DEF Init
<1>2. 0 \in Lines
  BY ProxyAssumption DEF Lines
<1>3. ASSUME NEW c \in Conns PROVE Sound(th[c], cache)
  BY <1>2 DEF Init, Sound, Fields, OnLine, Fills, Filling
<1>4. ASSUME NEW i \in Lines
      PROVE  DOMAIN cache[i] = LineFields /\ cache[i].content = <<>> /\ ~cache[i].valid
  BY DEF Init, LineFields
<1> QED BY <1>1, <1>3, <1>4, EmptyTotal, ProxyAssumption DEF Filled, Settled

-----------------------------------------------------------------------------
\* Nobody but c has a step.
Only(c) ==
  /\ DOMAIN th' = Conns
  /\ \A d \in Conns : d # c => th'[d] = th[d]

\* A thread that is not filling a line leaves the lines alone.
LEMMA Aside ==
  ASSUME Filled, NEW c \in Conns, Only(c), cache' = cache,
         Sound(th'[c], cache), th[c].pc \notin Filling,
         th[c].pc \in Over => /\ th'[c].pc \in Over
                              /\ th'[c].object = th[c].object /\ th'[c].buf = th[c].buf
  PROVE  Filled'
<1>1. ASSUME NEW d \in Conns PROVE Sound(th'[d], cache')
  BY DEF Filled, Only
<1>2. ASSUME NEW i \in Lines PROVE Settled(i, cache', th')
  <2> SUFFICES ASSUME cache[i].valid, \A d \in Conns : th'[d].pc \in Filling => th'[d].idx # i
               PROVE  \E d \in Conns : /\ th'[d].pc \in Over
                                       /\ th'[d].object = cache[i].hash
                                       /\ th'[d].buf = cache[i].content
    BY DEF Settled
  <2>1. \A d \in Conns : th[d].pc \in Filling => th[d].idx # i
    BY DEF Only
  <2>2. PICK d \in Conns : /\ th[d].pc \in Over
                           /\ th[d].object = cache[i].hash
                           /\ th[d].buf = cache[i].content
    BY <2>1 DEF Filled, Settled
  <2>3. /\ th'[d].pc \in Over
        /\ th'[d].object = cache[i].hash /\ th'[d].buf = cache[i].content
    BY <2>2 DEF Only
  <2> QED BY <2>3
<1> QED BY <1>1, <1>2 DEF Filled, Only

\* The steps of a request that does not fill a line.
LEMMA Elsewhere ==
  ASSUME Filled, NEW c \in Conns,
         \/ ParseRequest(c) \/ CheckLine(c) \/ TouchLock(c)
         \/ ReaderCount(c) \/ ReaderEnter(c) \/ SendCached(c) \/ ReaderLeave(c)
         \/ Connect(c) \/ ConnectFails(c) \/ RelayChunk(c) \/ RelayEnd(c)
         \/ ChooseLine(c) \/ CloseServer(c) \/ CloseClient(c)
  PROVE  Filled'
<1>1. Sound(th[c], cache) /\ DOMAIN th = Conns
  BY DEF Filled
<1> USE <1>1 DEF At, Goto, Only, Sound, Fields, OnLine, Fills, Filling, Over
<1>2. CASE ParseRequest(c)
  <2>1. Only(c) /\ cache' = cache /\ Sound(th'[c], cache) /\ th[c].pc = "parse"
    BY <1>2 DEF ParseRequest, Exit, Undefined
  <2> QED BY <2>1, Aside
<1>3. CASE CheckLine(c)
  <2>1. Only(c) /\ cache' = cache /\ Sound(th'[c], cache) /\ th[c].pc = "check"
    BY <1>3 DEF CheckLine
  <2> QED BY <2>1, Aside
<1>4. CASE TouchLock(c)
  <2>1. Only(c) /\ cache' = cache /\ Sound(th'[c], cache) /\ th[c].pc = "touch"
    BY <1>4 DEF TouchLock
  <2> QED BY <2>1, Aside
<1>5. CASE ReaderCount(c)
  <2>1. Only(c) /\ cache' = cache /\ Sound(th'[c], cache) /\ th[c].pc = "enter"
    BY <1>5 DEF ReaderCount
  <2> QED BY <2>1, Aside
<1>6. CASE ReaderEnter(c)
  <2>1. Only(c) /\ cache' = cache /\ Sound(th'[c], cache) /\ th[c].pc = "entered"
    BY <1>6 DEF ReaderEnter
  <2> QED BY <2>1, Aside
<1>7. CASE SendCached(c)
  <2>1. Only(c) /\ cache' = cache /\ Sound(th'[c], cache) /\ th[c].pc = "send"
    BY <1>7 DEF SendCached
  <2> QED BY <2>1, Aside
<1>8. CASE ReaderLeave(c)
  <2>1. Only(c) /\ cache' = cache /\ Sound(th'[c], cache) /\ th[c].pc = "leave"
    BY <1>8 DEF ReaderLeave
  <2> QED BY <2>1, Aside
<1>9. CASE Connect(c)
  <2>1. Only(c) /\ cache' = cache /\ Sound(th'[c], cache) /\ th[c].pc = "connect"
    BY <1>9 DEF Connect, Fetched
  <2> QED BY <2>1, Aside
<1>10. CASE ConnectFails(c)
  <2>1. Only(c) /\ cache' = cache /\ Sound(th'[c], cache) /\ th[c].pc = "connect"
    BY <1>10 DEF ConnectFails, Fetched
  <2> QED BY <2>1, Aside
<1>11. CASE RelayChunk(c)
  <2>1. Only(c) /\ cache' = cache /\ Sound(th'[c], cache) /\ th[c].pc = "relay"
    BY <1>11 DEF RelayChunk
  <2> QED BY <2>1, Aside
<1>12. CASE RelayEnd(c)
  <2>1. Only(c) /\ cache' = cache /\ Sound(th'[c], cache) /\ th[c].pc = "relay"
    BY <1>12 DEF RelayEnd, Exit, Undefined, Fetched
  <2> QED BY <2>1, Aside
<1>13. CASE ChooseLine(c)
  <2>1. Only(c) /\ cache' = cache /\ Sound(th'[c], cache) /\ th[c].pc = "choose"
    BY <1>13 DEF ChooseLine
  <2> QED BY <2>1, Aside
<1>14. CASE CloseServer(c)
  <2>1. /\ Only(c) /\ cache' = cache /\ Sound(th'[c], cache) /\ th[c].pc = "close"
        /\ th'[c].pc \in Over /\ th'[c].object = th[c].object /\ th'[c].buf = th[c].buf
    BY <1>14 DEF CloseServer, Close, Exit
  <2> QED BY <2>1, Aside
<1>15. CASE CloseClient(c)
  <2>1. /\ Only(c) /\ cache' = cache /\ Sound(th'[c], cache) /\ th[c].pc = "closed"
        /\ th'[c].pc \in Over /\ th'[c].object = th[c].object /\ th'[c].buf = th[c].buf
    BY <1>15 DEF CloseClient, Close, Exit
  <2> QED BY <2>1, Aside
<1> QED BY <1>2, <1>3, <1>4, <1>5, <1>6, <1>7, <1>8, <1>9, <1>10, <1>11, <1>12, <1>13, <1>14, <1>15

\* A writer changes its own line; when it is done it is the one that filled it.
LEMMA OnItsLine ==
  ASSUME Filled, NEW c \in Conns, Only(c), th[c].pc \notin Over,
         \A d \in Conns : d # c => th[d].pc \notin Filling,
         NEW k, k = th[c].idx, DOMAIN cache' = Lines,
         \A i \in Lines : i # k => cache'[i] = cache[i],
         DOMAIN cache'[k] = LineFields, Total(cache'[k].content) < MAX_OBJECT_SIZE,
         Sound(th'[c], cache'),
         \/ th'[c].pc \in Filling /\ th'[c].idx = k
         \/ /\ th'[c].pc \in Over
            /\ th'[c].object = cache'[k].hash /\ th'[c].buf = cache'[k].content
  PROVE  Filled'
<1>1. ASSUME NEW d \in Conns, d # c PROVE Sound(th'[d], cache')
  <2>1. Sound(th[d], cache) /\ th'[d] = th[d] /\ th[d].pc \notin Filling
    BY <1>1 DEF Filled, Only
  <2> QED BY <2>1 DEF Sound, Filling
<1>2. ASSUME NEW i \in Lines PROVE Settled(i, cache', th')
  <2> SUFFICES ASSUME cache'[i].valid, \A d \in Conns : th'[d].pc \in Filling => th'[d].idx # i
               PROVE  \E d \in Conns : /\ th'[d].pc \in Over
                                       /\ th'[d].object = cache'[i].hash
                                       /\ th'[d].buf = cache'[i].content
    BY DEF Settled
  <2>1. CASE i = k
    BY <2>1
  <2>2. CASE i # k
    <3>1. \A d \in Conns : th[d].pc \in Filling => th[d].idx # i
      BY <2>2
    <3>2. cache'[i] = cache[i]
      BY <2>2
    <3>3. PICK d \in Conns : /\ th[d].pc \in Over
                             /\ th[d].object = cache[i].hash
                             /\ th[d].buf = cache[i].content
      BY <3>1, <3>2 DEF Filled, Settled
    <3>4. th'[d] = th[d]
      BY <3>3 DEF Only
    <3> QED BY <3>2, <3>3, <3>4
  <2> QED BY <2>1, <2>2
<1>3. ASSUME NEW i \in Lines
      PROVE  DOMAIN cache'[i] = LineFields /\ Total(cache'[i].content) < MAX_OBJECT_SIZE
  <2>1. CASE i = k
    BY <2>1
  <2>2. CASE i # k
    BY <2>2 DEF Filled
  <2> QED BY <2>1, <2>2
<1> QED BY <1>1, <1>2, <1>3 DEF Filled, Only

LEMMA Fillers ==
  ASSUME Filled, Protocol, NEW c \in Conns, load' = load,
         WriteContent(c) \/ WriteTimestamp(c) \/ WriteHash(c) \/ WriteValid(c)
  PROVE  Filled'
<1> DEFINE k == th[c].idx
<1>1. Sound(th[c], cache) /\ DOMAIN th = Conns /\ DOMAIN cache = Lines
  BY DEF Filled
<1>2. th[c].pc \in {"write"} \cup Filling
  BY DEF WriteContent, WriteTimestamp, WriteHash, WriteValid, At, Filling
<1>3. /\ k \in Lines /\ DOMAIN cache[k] = LineFields
      /\ Total(cache[k].content) < MAX_OBJECT_SIZE
  BY <1>1, <1>2 DEF Filled, Sound, OnLine
<1>4. \A d \in Conns : d # c => th[d].pc \notin Filling
  <2> SUFFICES ASSUME NEW d \in Conns, d # c, th[d].pc \in Filling PROVE FALSE
    OBVIOUS
  <2>1. d \in Writers
    BY DEF Writers, In, Filling
  <2>2. CASE WriteContent(c)
    BY <2>1, <2>2 DEF WriteContent, P, Protocol
  <2>3. CASE WriteTimestamp(c) \/ WriteHash(c) \/ WriteValid(c)
    <3>1. c \in Writers
      BY <2>3 DEF WriteTimestamp, WriteHash, WriteValid, At, Writers, In
    <3> QED BY <2>1, <3>1 DEF Protocol
  <2> QED BY <2>2, <2>3
<1>5. th[c].pc \notin Over
  BY <1>2 DEF Over, Filling
<1> DEFINE Result == /\ Only(c) /\ DOMAIN cache' = Lines
                     /\ \A i \in Lines : i # k => cache'[i] = cache[i]
                     /\ DOMAIN cache'[k] = LineFields
                     /\ Total(cache'[k].content) < MAX_OBJECT_SIZE
                     /\ Sound(th'[c], cache')
                     /\ \/ th'[c].pc \in Filling /\ th'[c].idx = k
                        \/ /\ th'[c].pc \in Over /\ th'[c].object = cache'[k].hash
                           /\ th'[c].buf = cache'[k].content
<1>6. CASE WriteContent(c)
  <2>1. th[c].pc = "write" /\ cache' = [cache EXCEPT ![k].content = th[c].buf]
        /\ th' = [th EXCEPT ![c].pc = "stamp", ![c].now = curr_time]
    BY <1>6 DEF WriteContent, At
  <2>2. Total(th[c].buf) < MAX_OBJECT_SIZE
    BY <1>1, <2>1 DEF Sound, Fills
  <2>3. Result
    BY <1>1, <1>3, <2>1, <2>2 DEF Only, Sound, Fields, LineFields, OnLine, Fills, Filling
  <2> QED BY <1>4, <1>5, <2>3, OnItsLine
<1>7. CASE WriteTimestamp(c)
  <2>1. th[c].pc = "stamp" /\ cache' = [cache EXCEPT ![k].timestamp = th[c].now]
        /\ th' = [th EXCEPT ![c].pc = "tag"]
    BY <1>7 DEF WriteTimestamp, At, Goto
  <2>2. Result
    BY <1>1, <1>3, <2>1 DEF Only, Sound, Fields, LineFields, OnLine, Fills, Filling
  <2> QED BY <1>4, <1>5, <2>2, OnItsLine
<1>8. CASE WriteHash(c)
  <2>1. th[c].pc = "tag" /\ cache' = [cache EXCEPT ![k].hash = th[c].object]
        /\ th' = [th EXCEPT ![c].pc = "validate"]
    BY <1>8 DEF WriteHash, At, Goto
  <2>2. Result
    BY <1>1, <1>3, <2>1 DEF Only, Sound, Fields, LineFields, OnLine, Fills, Filling
  <2> QED BY <1>4, <1>5, <2>2, OnItsLine
<1>9. CASE WriteValid(c)
  <2>1. th[c].pc = "validate" /\ cache' = [cache EXCEPT ![k].valid = TRUE]
        /\ th' = [th EXCEPT ![c].pc = "close"]
    BY <1>9 DEF WriteValid, At, Goto
  <2>2. Result
    BY <1>1, <1>3, <2>1 DEF Only, Sound, Fields, LineFields, OnLine, Fills, Filling, Over
  <2> QED BY <1>4, <1>5, <2>2, OnItsLine
<1> QED BY <1>6, <1>7, <1>8, <1>9

\* A hit's timestamp is no part of what a line holds.
LEMMA Refreshed ==
  ASSUME Filled, Protocol, NEW c \in Conns, TouchUnlock(c)
  PROVE  Filled'
<1> DEFINE k == th[c].idx
<1>1. /\ th[c].pc = "touched" /\ cache' = [cache EXCEPT ![k].timestamp = th[c].now]
      /\ th' = [th EXCEPT ![c].pc = "enter"]
  BY DEF TouchUnlock, At, Goto
<1>2. Sound(th[c], cache) /\ DOMAIN th = Conns /\ DOMAIN cache = Lines
  BY DEF Filled
<1>3. DOMAIN cache' = Lines
  BY <1>1, <1>2
<1>4. ASSUME NEW i \in Lines
      PROVE  /\ DOMAIN cache'[i] = LineFields /\ cache'[i].content = cache[i].content
             /\ cache'[i].hash = cache[i].hash /\ cache'[i].valid = cache[i].valid
  <2>1. DOMAIN cache[i] = LineFields
    BY DEF Filled
  <2> QED BY <1>1, <1>2, <2>1 DEF LineFields
<1>5. Only(c) /\ th'[c].pc = "enter" /\ Sound(th'[c], cache')
  BY <1>1, <1>2 DEF Only, Sound, Fields, OnLine, Fills, Filling
<1>6. ASSUME NEW d \in Conns, d # c PROVE Sound(th'[d], cache')
  <2>1. Sound(th[d], cache) /\ th'[d] = th[d]
    BY <1>5, <1>6 DEF Filled, Only
  <2>2. th[d].pc \in Filling => th[d].idx \in Lines
    BY <2>1 DEF Sound, OnLine
  <2> QED BY <1>4, <2>1, <2>2 DEF Sound, Filling
<1>7. ASSUME NEW i \in Lines PROVE Settled(i, cache', th')
  <2> SUFFICES ASSUME cache'[i].valid, \A d \in Conns : th'[d].pc \in Filling => th'[d].idx # i
               PROVE  \E d \in Conns : /\ th'[d].pc \in Over
                                       /\ th'[d].object = cache'[i].hash
                                       /\ th'[d].buf = cache'[i].content
    BY DEF Settled
  <2>1. \A d \in Conns : th[d].pc \in Filling => th[d].idx # i
    BY <1>1, <1>5 DEF Only, Filling
  <2>2. PICK d \in Conns : /\ th[d].pc \in Over
                           /\ th[d].object = cache[i].hash
                           /\ th[d].buf = cache[i].content
    BY <1>4, <2>1 DEF Filled, Settled
  <2>3. th'[d] = th[d]
    BY <1>1, <1>5, <2>2 DEF Only, Over
  <2> QED BY <1>4, <2>2, <2>3
<1> QED BY <1>3, <1>4, <1>5, <1>6, <1>7 DEF Filled, Only

LEMMA FilledStep == Filled /\ Protocol /\ [Next]_vars => Filled'
<1> SUFFICES ASSUME Filled, Protocol, [Next]_vars PROVE Filled'
  OBVIOUS
<1>1. CASE UNCHANGED vars
  BY <1>1 DEF vars, Filled, Settled, Sound
<1>2. ASSUME NEW o, NEW stack, Accept(o, stack), UNCHANGED load PROVE Filled'
  <2> DEFINE c == curr_time + 1
  <2>1. c \in Conns /\ th[c].pc = "none"
    <3>1. load.conns \in 0..MaxConns
      BY ProxyAssumption DEF Protocol, Shape
    <3> QED BY <1>2, <3>1, ProxyAssumption DEF Protocol, Shape, Accept, Conns
  <2>2. Sound(th[c], cache) /\ DOMAIN th = Conns
    BY <2>1 DEF Filled
  <2>3. Only(c) /\ cache' = cache /\ Sound(th'[c], cache)
    BY <1>2, <2>1, <2>2 DEF Accept, Only, Sound, Fields, OnLine, Fills, Filling
  <2> QED BY <2>1, <2>3, Aside DEF Filling, Over
<1>3. ASSUME NEW c \in Conns, serve(c), UNCHANGED load PROVE Filled'
  BY <1>3, Elsewhere, Fillers, Refreshed DEF serve
<1> QED BY <1>1, <1>2, <1>3 DEF Next, main

\* Threads race for lines without a lock (get_write_idx, proxy.c:269), and fill
\* them in four steps under w: whoever wins, a line nobody is writing holds the
\* response to the request whose hash it carries, shorter than MAX_OBJECT_SIZE.
THEOREM LinesWhole == Spec => []NoTornLine
<1>1. Init => Protocol /\ Filled
  BY ProtocolInit, FilledInit
<1>2. Protocol /\ Filled /\ [Next]_vars => (Protocol /\ Filled)'
  BY ProtocolStep, FilledStep
<1>3. Protocol /\ Filled => NoTornLine
  BY FilledSuffices
<1> QED BY <1>1, <1>2, <1>3, PTL DEF Spec

-----------------------------------------------------------------------------
(***************************************************************************)
(* Requests one at a time.  The thread of the last connection is then the  *)
(* only one, and the invariant says what its searches of the cache have    *)
(* established so far: that no line before idx holds the object, that no   *)
(* line holds it at all, that lru is the oldest line before idx.  A line's *)
(* timestamp is that of the last request for its object, but while the     *)
(* present request has not refreshed it yet or a new one is being filled.  *)
(***************************************************************************)
Asking == {"parse", "check", "touch", "touched"}
Missing == {"connect", "relay", "choose", "write", "stamp", "tag"}
Holds(lines, i, o) == lines[i].valid /\ lines[i].hash = o

Searching(t, lines) ==
  /\ t.pc = "check" => t.idx \in Nat /\ \A j \in Lines : j < t.idx => ~Holds(lines, j, t.object)
  /\ t.pc \in {"touch", "touched"} => Holds(lines, t.idx, t.object)
  /\ t.pc \in Missing => \A j \in Lines : ~Holds(lines, j, t.object)
  /\ t.pc = "validate" => \A j \in Lines \ {t.idx} : ~Holds(lines, j, t.object)

Stamping(t, lines, time) ==
  /\ t.pc \in {"touched", "stamp"} => t.now = time
  /\ t.pc \in {"tag", "validate"} => lines[t.idx].timestamp = time

Choosing(t, lines) ==
  t.pc = "choose" =>
    /\ t.idx \in Nat /\ t.oldest \in Nat
    /\ \A j \in Lines : j < t.idx => lines[j].valid /\ t.oldest <= lines[j].timestamp
    /\ IF t.idx = 0 THEN t.oldest = MaxConns + 1
                    ELSE t.lru < t.idx /\ t.oldest = lines[t.lru].timestamp

Victim(t, lines) ==
  t.pc \in {"write", "stamp", "tag"} /\ lines[t.idx].valid =>
    \A j \in Lines : /\ lines[j].valid
                     /\ LastRequest(lines[t.idx].hash) <= LastRequest(lines[j].hash)

Stamped(i) ==
  /\ cache[i].valid
  /\ \A c \in Live : /\ th[c].pc \in Asking => cache[i].hash # th[c].object
                     /\ th[c].pc = "tag" => th[c].idx # i
  => cache[i].timestamp = LastRequest(cache[i].hash)

OneAtATime ==
  /\ Live \subseteq {curr_time}
  /\ \A c \in Conns : th[c].pc \in {"none", "parse"} => th[c].idx = 0
  /\ \A c \in Live : /\ Searching(th[c], cache) /\ Stamping(th[c], cache, curr_time)
                     /\ Choosing(th[c], cache) /\ Victim(th[c], cache)
  /\ \A i \in Lines : cache[i].timestamp \in 0..curr_time /\ Stamped(i)
  /\ \A i, j \in Lines : cache[i].valid /\ Holds(cache, j, cache[i].hash) => i = j

Serial == load.live = 1 => OneAtATime

LEMMA SerialSuffices == Serial => NoDuplicate
BY DEF Serial, OneAtATime, NoDuplicate, Holds

LEMMA SerialInit == Init => Serial
<1> SUFFICES ASSUME Init PROVE OneAtATime
  BY DEF Serial
<1>1. \A c \in Conns : th[c].pc = "none" /\ th[c].idx = 0
  BY DEF Init
<1>2. Live = {}
  BY <1>1 DEF Live
<1>3. \A i \in Lines : ~cache[i].valid /\ cache[i].timestamp = 0
  BY DEF Init
<1>4. curr_time = 0
  BY DEF Init
<1> QED BY <1>1, <1>2, <1>3, <1>4 DEF OneAtATime, Stamped

-----------------------------------------------------------------------------
(* The last request for an object *)

Requests(o) == {0} \cup {c \in Conns : c <= curr_time /\ th[c].object = o}

LEMMA LastRequestMax ==
  ASSUME NEW o
  PROVE  /\ LastRequest(o) \in Requests(o) /\ LastRequest(o) \in Nat
         /\ \A c \in Requests(o) : c <= LastRequest(o)
<1>1. Requests(o) \in SUBSET Nat /\ Requests(o) # {}
  BY ProxyAssumption DEF Requests, Conns
<1>2. IsFiniteSet(Requests(o))
  <2>1. IsFiniteSet(0..MaxConns) /\ Requests(o) \subseteq 0..MaxConns
    BY FS_Interval, ProxyAssumption DEF Requests, Conns
  <2> QED BY <2>1, FS_Subset
<1>3. LastRequest(o) = Max(Requests(o))
  BY DEF LastRequest, Requests
<1>4. Max(Requests(o)) \in Requests(o) /\ \A c \in Requests(o) : Max(Requests(o)) >= c
  BY <1>1, <1>2, MaxNat
<1>5. \A c \in Requests(o) : c \in Nat
  BY <1>1
<1> QED BY <1>3, <1>4, <1>5

\* The present request is the last one for its object.
LEMMA Present ==
  ASSUME curr_time \in Conns, NEW o, o = th[curr_time].object
  PROVE  LastRequest(o) = curr_time
<1>1. curr_time \in Nat /\ curr_time \in Requests(o)
  BY ProxyAssumption DEF Requests, Conns
<1>2. \A c \in Requests(o) : c <= curr_time
  BY <1>1 DEF Requests
<1>3. /\ LastRequest(o) \in Requests(o) /\ LastRequest(o) \in Nat
      /\ \A c \in Requests(o) : c <= LastRequest(o)
  BY LastRequestMax
<1>4. LastRequest(o) <= curr_time /\ curr_time <= LastRequest(o)
  BY <1>1, <1>2, <1>3
<1> QED BY <1>1, <1>3, <1>4

\* No request is new, or only one for another object is.
LEMMA SameRequests ==
  ASSUME curr_time' = curr_time, \A d \in Conns : th'[d].object = th[d].object
  PROVE  \A o : LastRequest(o)' = LastRequest(o)
BY DEF LastRequest

LEMMA OtherRequests ==
  ASSUME NEW c \in Conns, curr_time \in Nat, c = curr_time + 1, curr_time' = c, Only(c), NEW o,
         o # th'[c].object
  PROVE  LastRequest(o)' = LastRequest(o)
<1>1. ASSUME NEW d \in Conns
      PROVE  (d <= curr_time' /\ th'[d].object = o) <=> (d <= curr_time /\ th[d].object = o)
  <2>1. d \in Int
    BY DEF Conns
  <2>2. CASE d = c
    BY <2>1, <2>2
  <2>3. CASE d # c
    BY <2>1, <2>3 DEF Only
  <2> QED BY <2>2, <2>3
<1>2. {d \in Conns : d <= curr_time' /\ th'[d].object = o}
        = {d \in Conns : d <= curr_time /\ th[d].object = o}
  BY <1>1
<1> QED BY <1>2 DEF LastRequest

-----------------------------------------------------------------------------
LEMMA LiveFinite == IsFiniteSet(Live)
<1>1. IsFiniteSet(Conns)
  BY FS_Interval, ProxyAssumption DEF Conns
<1> QED BY <1>1, FS_Subset DEF Live

LEMMA SerialAccept ==
  ASSUME Protocol, Filled, Serial, NEW o, NEW stack, Accept(o, stack), load' = load
  PROVE  Serial'
<1> SUFFICES ASSUME load.live = 1 PROVE OneAtATime'
  BY DEF Serial
<1>1. Live = {} /\ OneAtATime
  <2>1. Cardinality(Live) \in Nat /\ Cardinality(Live) < 1
    BY LiveFinite, FS_CardinalityType DEF Accept
  <2>2. Cardinality(Live) = 0
    BY <2>1
  <2> QED BY <2>2, LiveFinite, FS_EmptySet DEF Serial
<1>2. PICK c \in Conns : c = curr_time + 1 /\ th[c].pc = "none" /\ curr_time \in Nat
  <2>1. load.conns \in 0..MaxConns
    BY ProxyAssumption DEF Protocol, Shape
  <2> QED BY <2>1, ProxyAssumption DEF Protocol, Shape, Accept, Conns
<1>3. DOMAIN th = Conns /\ DOMAIN th[c] = Fields
  BY <1>2 DEF Filled, Sound
<1>4. /\ Only(c) /\ cache' = cache /\ curr_time' = c
      /\ th'[c].pc = "parse" /\ th'[c].idx = th[c].idx /\ th'[c].object = o
  BY <1>2, <1>3 DEF Accept, Only, Fields
<1>5. Live' = {c}
  BY <1>1, <1>2, <1>4 DEF Live, Only
<1>6. \A d \in Conns : th'[d].pc \in {"none", "parse"} => th'[d].idx = 0
  BY <1>1, <1>2, <1>4 DEF OneAtATime, Only
<1>7. /\ Searching(th'[c], cache') /\ Stamping(th'[c], cache', curr_time')
      /\ Choosing(th'[c], cache') /\ Victim(th[c], cache)'
  BY <1>4 DEF Searching, Stamping, Choosing, Victim, Missing
<1>8. ASSUME NEW i \in Lines PROVE cache'[i].timestamp \in 0..curr_time' /\ Stamped(i)'
  <2>1. cache[i].timestamp \in 0..curr_time /\ Stamped(i)
    BY <1>1 DEF OneAtATime
  <2>2. cache'[i].timestamp \in 0..curr_time'
    BY <1>2, <1>4, <2>1
  <2>3. ASSUME cache[i].valid, cache[i].hash # o
        PROVE  cache[i].timestamp = LastRequest(cache[i].hash)'
    <3>1. cache[i].timestamp = LastRequest(cache[i].hash)
      BY <1>1, <2>1, <2>3 DEF Stamped
    <3>2. \A h : h # o => LastRequest(h)' = LastRequest(h)
      BY <1>2, <1>4, OtherRequests
    <3>3. cache'[i].hash = cache[i].hash
      BY <1>4
    <3> QED BY <2>3, <3>1, <3>2, <3>3
  <2> QED BY <1>4, <1>5, <2>2, <2>3 DEF Stamped, Asking
<1>9. \A i, j \in Lines : cache'[i].valid /\ Holds(cache', j, cache'[i].hash) => i = j
  BY <1>1, <1>4 DEF OneAtATime
<1> QED BY <1>4, <1>5, <1>6, <1>7, <1>8, <1>9 DEF OneAtATime

\* A step of the one thread that leaves the lines alone, and either is not the
\* end of its lookup or has found no line.
LEMMA Still ==
  ASSUME OneAtATime, NEW c \in Live, Only(c), cache' = cache, curr_time' = curr_time,
         th'[c].object = th[c].object,
         th[c].pc # "tag", th'[c].pc \notin {"none", "parse"} \/ th'[c] = th[c],
         \/ th[c].pc \notin Asking
         \/ th'[c].pc \in Asking
         \/ \A i \in Lines : ~Holds(cache, i, th[c].object),
         Searching(th'[c], cache), Stamping(th'[c], cache, curr_time),
         Choosing(th'[c], cache), Victim(th'[c], cache)
  PROVE  OneAtATime'
<1>1. Live = {c} /\ c = curr_time /\ c \in Conns
  BY DEF OneAtATime, Live
<1>2. Live' \subseteq {c}
  BY <1>1 DEF Live, Only
<1>3. \A o : LastRequest(o)' = LastRequest(o)
  BY SameRequests DEF Only
<1>4. Victim(th'[c], cache') /\ Victim(th[c], cache)' 
  BY <1>3 DEF Victim
<1>5. ASSUME NEW i \in Lines PROVE cache'[i].timestamp \in 0..curr_time' /\ Stamped(i)'
  <2>1. cache[i].timestamp \in 0..curr_time /\ Stamped(i)
    BY DEF OneAtATime
  <2>2. ASSUME cache[i].valid,
               \A d \in Live' : /\ th'[d].pc \in Asking => cache[i].hash # th'[d].object
                                /\ th'[d].pc = "tag" => th'[d].idx # i
        PROVE  cache[i].timestamp = LastRequest(cache[i].hash)
    <3>1. th[c].pc \in Asking => cache[i].hash # th[c].object
      <4>1. CASE th'[c].pc \in Asking
        <5>1. c \in Live'
          BY <1>1, <4>1 DEF Live, Asking
        <5> QED BY <2>2, <4>1, <5>1
      <4>2. CASE th'[c].pc \notin Asking
        BY <2>2, <4>2 DEF Holds
      <4> QED BY <4>1, <4>2
    <3> QED BY <1>1, <2>1, <2>2, <3>1 DEF Stamped
  <2> QED BY <1>3, <2>1, <2>2 DEF Stamped
<1>6. \A d \in Conns : th'[d].pc \in {"none", "parse"} => th'[d].idx = 0
  BY <1>1 DEF OneAtATime, Only
<1>7. \A i, j \in Lines : cache'[i].valid /\ Holds(cache', j, cache'[i].hash) => i = j
  BY DEF OneAtATime
<1>8. \A d \in Live' : /\ Searching(th'[d], cache') /\ Stamping(th'[d], cache', curr_time')
                       /\ Choosing(th'[d], cache') /\ Victim(th[d], cache)'
  BY <1>2, <1>4
<1> QED BY <1>1, <1>2, <1>5, <1>6, <1>7, <1>8 DEF OneAtATime

-----------------------------------------------------------------------------
\* A thread that takes a step is being served.
LEMMA Served ==
  ASSUME Filled, OneAtATime, NEW c \in Conns, serve(c)
  PROVE  /\ c \in Live /\ Live = {c} /\ c = curr_time
         /\ DOMAIN th = Conns /\ DOMAIN th[c] = Fields
         /\ Searching(th[c], cache) /\ Stamping(th[c], cache, curr_time)
         /\ Choosing(th[c], cache) /\ Victim(th[c], cache)
<1>1. th[c].pc \notin {"none", "done"}
  BY DEF serve, At, ParseRequest, CheckLine, TouchLock, TouchUnlock, ReaderCount, ReaderEnter,
         SendCached, ReaderLeave, Connect, ConnectFails, RelayChunk, RelayEnd, ChooseLine,
         WriteContent, WriteTimestamp, WriteHash, WriteValid, CloseServer, CloseClient
<1>2. c \in Live
  BY <1>1 DEF Live
<1> QED BY <1>2 DEF OneAtATime, Filled, Sound

\* The steps before and at the lookup.
LEMMA SerialLookup ==
  ASSUME Filled, OneAtATime, NEW c \in Conns, serve(c),
         ParseRequest(c) \/ CheckLine(c) \/ TouchLock(c)
  PROVE  OneAtATime'
<1>1. /\ c \in Live /\ DOMAIN th = Conns /\ DOMAIN th[c] = Fields
      /\ Searching(th[c], cache)
  BY Served
<1> USE <1>1 DEF At, Goto, Only, Fields
<1>2. CASE ParseRequest(c)
  <2>1. /\ Only(c) /\ cache' = cache /\ curr_time' = curr_time /\ th[c].pc = "parse"
        /\ th'[c].object = th[c].object /\ th'[c].idx = th[c].idx
        /\ th'[c].pc = "check" \/ th'[c] = th[c]
    BY <1>2 DEF ParseRequest, Exit, Undefined
  <2>2. th[c].idx = 0
    BY <2>1 DEF OneAtATime
  <2>3. \A j \in Lines : ~ (j < 0)
    BY ProxyAssumption DEF Lines
  <2>4. /\ Searching(th'[c], cache) /\ Stamping(th'[c], cache, curr_time)
        /\ Choosing(th'[c], cache) /\ Victim(th'[c], cache)
    BY <2>1, <2>2, <2>3 DEF Searching, Stamping, Choosing, Victim, Missing
  <2>5. th'[c].pc \in Asking
    BY <2>1 DEF Asking
  <2> QED BY <2>1, <2>4, <2>5, Still
<1>3. CASE CheckLine(c)
  <2> DEFINE i == th[c].idx
             hit == i \in Lines /\ Holds(cache, i, th[c].object)
  <2>1. /\ Only(c) /\ cache' = cache /\ curr_time' = curr_time /\ th[c].pc = "check"
        /\ th'[c].object = th[c].object
        /\ th'[c].pc = IF hit THEN "touch" ELSE IF i \in Lines THEN "check" ELSE "connect"
        /\ th'[c].idx = IF i \in Lines /\ ~hit THEN i + 1 ELSE i
    BY <1>3 DEF CheckLine, Holds
  <2>2. i \in Nat /\ \A j \in Lines : j < i => ~Holds(cache, j, th[c].object)
    BY <2>1 DEF Searching
  <2>a. \A j \in Lines : j \in Nat /\ j < CACHE_LINE_NUM
    BY ProxyAssumption DEF Lines
  <2>b. i \notin Lines => \A j \in Lines : j < i
    BY <2>2, <2>a, ProxyAssumption DEF Lines
  <2>3. /\ Stamping(th'[c], cache, curr_time) /\ Choosing(th'[c], cache)
        /\ Victim(th'[c], cache)
    BY <2>1 DEF Stamping, Choosing, Victim
  <2>4. CASE hit
    <3>1. Searching(th'[c], cache) /\ th'[c].pc \in Asking
      BY <2>1, <2>4 DEF Searching, Missing, Asking
    <3> QED BY <2>1, <2>3, <2>4, <3>1, Still
  <2>5. CASE i \in Lines /\ ~hit
    <3>1. ASSUME NEW j \in Lines, j < i + 1 PROVE ~Holds(cache, j, th[c].object)
      <4>1. j < i \/ j = i
        BY <2>2, <2>a, <3>1
      <4> QED BY <2>2, <2>5, <4>1
    <3>2. Searching(th'[c], cache) /\ th'[c].pc \in Asking
      BY <2>1, <2>2, <2>5, <3>1 DEF Searching, Missing, Asking
    <3> QED BY <2>1, <2>3, <2>5, <3>2, Still
  <2>6. CASE i \notin Lines
    <3>1. \A j \in Lines : ~Holds(cache, j, th[c].object)
      BY <2>2, <2>6, <2>b
    <3>2. Searching(th'[c], cache)
      BY <2>1, <2>6, <3>1 DEF Searching
    <3> QED BY <2>1, <2>3, <2>6, <3>1, <3>2, Still
  <2> QED BY <2>4, <2>5, <2>6
<1>4. CASE TouchLock(c)
  <2>1. /\ Only(c) /\ cache' = cache /\ curr_time' = curr_time /\ th[c].pc = "touch"
        /\ th'[c].object = th[c].object /\ th'[c].idx = th[c].idx
        /\ th'[c].pc = "touched" /\ th'[c].now = curr_time
    BY <1>4 DEF TouchLock
  <2>2. /\ Searching(th'[c], cache) /\ Stamping(th'[c], cache, curr_time)
        /\ Choosing(th'[c], cache) /\ Victim(th'[c], cache) /\ th'[c].pc \in Asking
    BY <2>1 DEF Searching, Stamping, Choosing, Victim, Missing, Asking
  <2> QED BY <2>1, <2>2, Still
<1> QED BY <1>2, <1>3, <1>4

\* A label at which the invariant asks nothing of the thread.
Plain == {"enter", "entered", "send", "leave", "close", "closed", "done"}

LEMMA SerialPlain ==
  ASSUME Filled, OneAtATime, NEW c \in Conns, serve(c), Only(c),
         cache' = cache, curr_time' = curr_time, th'[c].object = th[c].object,
         th'[c].pc \in Plain, th[c].pc \notin {"tag"} \cup Asking
  PROVE  OneAtATime'
<1>1. /\ Searching(th'[c], cache) /\ Stamping(th'[c], cache, curr_time)
      /\ Choosing(th'[c], cache) /\ Victim(th'[c], cache)
  BY DEF Searching, Stamping, Choosing, Victim, Missing, Plain
<1>2. th'[c].pc \notin {"none", "parse"}
  BY DEF Plain
<1>3. c \in Live
  BY Served
<1> QED BY <1>1, <1>2, <1>3, Still

\* A hit after its timestamp is refreshed, and the end of every request.
LEMMA SerialRest ==
  ASSUME Filled, OneAtATime, NEW c \in Conns, serve(c),
         \/ ReaderCount(c) \/ ReaderEnter(c) \/ SendCached(c) \/ ReaderLeave(c)
         \/ CloseServer(c) \/ CloseClient(c)
  PROVE  OneAtATime'
<1>1. DOMAIN th = Conns /\ DOMAIN th[c] = Fields
  BY Served
<1>2. /\ Only(c) /\ cache' = cache /\ curr_time' = curr_time /\ th'[c].object = th[c].object
      /\ th'[c].pc \in Plain /\ th[c].pc \in Plain
  BY <1>1 DEF ReaderCount, ReaderEnter, SendCached, ReaderLeave, CloseServer, CloseClient,
              Close, Exit, At, Goto, Only, Fields, Plain
<1>3. th[c].pc \notin {"tag"} \cup Asking
  BY <1>2 DEF Plain, Asking
<1> QED BY <1>2, <1>3, SerialPlain

\* The start of get_write_idx, for a response that is not too long.
LEMMA SerialFetched ==
  ASSUME Filled, OneAtATime, NEW c \in Conns, serve(c), NEW sfd, Fetched(c, sfd),
         cache' = cache, curr_time' = curr_time, th[c].pc \in {"connect", "relay"}
  PROVE  OneAtATime'
<1>1. /\ DOMAIN th = Conns /\ DOMAIN th[c] = Fields /\ c \in Live
      /\ Searching(th[c], cache)
  BY Served
<1>2. /\ Only(c) /\ th'[c].object = th[c].object /\ th'[c].idx = 0
      /\ th'[c].oldest = MaxConns + 1 /\ th'[c].pc \in {"choose", "close"}
  BY <1>1 DEF Fetched, Only, Fields
<1>3. th[c].pc \notin {"tag"} \cup Asking
  BY DEF Asking
<1>4. \A j \in Lines : ~ (j < 0)
  BY ProxyAssumption DEF Lines
<1>5. /\ Stamping(th'[c], cache, curr_time) /\ Victim(th'[c], cache)
      /\ Searching(th'[c], cache)
  BY <1>1, <1>2 DEF Searching, Stamping, Victim, Missing
<1>6. Choosing(th'[c], cache)
  <2>1. MaxConns + 1 \in Nat
    BY ProxyAssumption
  <2> QED BY <1>2, <1>4, <2>1 DEF Choosing
<1> QED BY <1>1, <1>2, <1>3, <1>5, <1>6, Still

LEMMA SerialMiss ==
  ASSUME Filled, OneAtATime, NEW c \in Conns, serve(c),
         Connect(c) \/ ConnectFails(c) \/ RelayChunk(c) \/ RelayEnd(c)
  PROVE  OneAtATime'
<1>1. /\ DOMAIN th = Conns /\ DOMAIN th[c] = Fields /\ c \in Live
      /\ Searching(th[c], cache)
  BY Served
<1>2. ASSUME Only(c), cache' = cache, curr_time' = curr_time,
             th'[c].object = th[c].object, th'[c].pc = "relay",
             th[c].pc \in {"connect", "relay"}
      PROVE  OneAtATime'
  <2>1. th[c].pc \notin {"tag"} \cup Asking
    BY <1>2 DEF Asking
  <2>2. /\ Searching(th'[c], cache) /\ Stamping(th'[c], cache, curr_time)
        /\ Choosing(th'[c], cache) /\ Victim(th'[c], cache)
    BY <1>1, <1>2 DEF Searching, Stamping, Choosing, Victim, Missing
  <2> QED BY <1>1, <1>2, <2>1, <2>2, Still
<1>3. CASE Connect(c)
  <2>1. th[c].pc = "connect" /\ cache' = cache /\ curr_time' = curr_time
    BY <1>3 DEF Connect, At
  <2>2. CASE LowestFree > 0
    <3>1. Only(c) /\ th'[c].object = th[c].object /\ th'[c].pc = "relay"
      BY <1>1, <1>3, <2>2 DEF Connect, Only, Fields
    <3> QED BY <1>2, <2>1, <3>1
  <2>3. CASE ~(LowestFree > 0)
    <3>1. Fetched(c, LowestFree)
      BY <1>3, <2>3 DEF Connect
    <3> QED BY <2>1, <3>1, SerialFetched
  <2> QED BY <2>2, <2>3
<1>4. CASE ConnectFails(c)
  <2>1. /\ th[c].pc = "connect" /\ cache' = cache /\ curr_time' = curr_time
        /\ Fetched(c, -1)
    BY <1>4 DEF ConnectFails, At
  <2> QED BY <2>1, SerialFetched
<1>5. CASE RelayChunk(c)
  <2>1. /\ Only(c) /\ cache' = cache /\ curr_time' = curr_time
        /\ th'[c].object = th[c].object /\ th'[c].pc = "relay" /\ th[c].pc = "relay"
    BY <1>1, <1>5 DEF RelayChunk, At, Only, Fields
  <2> QED BY <1>2, <2>1
<1>6. CASE RelayEnd(c)
  <2>1. /\ th[c].pc = "relay" /\ cache' = cache /\ curr_time' = curr_time
        /\ Fetched(c, th[c].sfd) \/ th' = th
    BY <1>6 DEF RelayEnd, At, Exit, Undefined
  <2>2. CASE th' = th
    BY <1>1, <1>2, <2>1, <2>2 DEF Only
  <2> QED BY <2>1, <2>2, SerialFetched
<1> QED BY <1>3, <1>4, <1>5, <1>6

-----------------------------------------------------------------------------
\* get_write_idx: the line chosen is free, or all are taken and it is the one
\* whose object was asked for the longest time ago.
LEMMA SerialChoose ==
  ASSUME Protocol, Filled, OneAtATime, NEW c \in Conns, serve(c), ChooseLine(c)
  PROVE  OneAtATime'
<1> DEFINE i == th[c].idx
           t == cache[i].timestamp
<1>1. /\ DOMAIN th = Conns /\ DOMAIN th[c] = Fields /\ c \in Live /\ Live = {c}
      /\ Searching(th[c], cache) /\ Choosing(th[c], cache) /\ c = curr_time
  BY Served
<1>2. /\ th[c].pc = "choose" /\ cache' = cache /\ curr_time' = curr_time
      /\ Only(c) /\ th'[c].object = th[c].object /\ th'[c].pc \in {"choose", "write"}
  BY <1>1 DEF ChooseLine, At, Goto, Only, Fields
<1>3. /\ i \in Nat /\ th[c].oldest \in Nat /\ th[c].lru \in Lines
      /\ \A j \in Lines : j < i => cache[j].valid /\ th[c].oldest <= cache[j].timestamp
      /\ IF i = 0 THEN th[c].oldest = MaxConns + 1
                  ELSE th[c].lru < i /\ th[c].oldest = cache[th[c].lru].timestamp
  BY <1>2, <1>1 DEF Choosing, Filled, Sound
<1>4. /\ Searching(th'[c], cache) /\ Stamping(th'[c], cache, curr_time)
      /\ th[c].pc \notin {"tag"} \cup Asking
  BY <1>1, <1>2 DEF Searching, Stamping, Missing, Asking
<1>5. ASSUME Choosing(th'[c], cache), Victim(th'[c], cache) PROVE OneAtATime'
  BY <1>1, <1>2, <1>4, <1>5, Still
<1>6. \A j \in Lines : /\ j \in Nat /\ j < CACHE_LINE_NUM
                       /\ cache[j].timestamp \in Nat /\ cache[j].timestamp <= MaxConns
  <2>1. curr_time \in Nat /\ curr_time <= MaxConns
    BY <1>1, ProxyAssumption DEF Conns
  <2>2. ASSUME NEW j \in Lines
        PROVE  cache[j].timestamp \in Nat /\ cache[j].timestamp <= MaxConns
    <3>1. cache[j].timestamp \in 0..curr_time
      BY DEF OneAtATime
    <3> QED BY <2>1, <3>1, ProxyAssumption
  <2> QED BY <2>2, ProxyAssumption DEF Lines
<1>7. CASE i \in Lines /\ ~cache[i].valid
  <2>1. th' = [th EXCEPT ![c].pc = "write"]
    BY <1>7 DEF ChooseLine, Goto
  <2>2. th'[c].pc = "write" /\ th'[c].idx = i
    BY <1>1, <2>1 DEF Fields
  <2> QED BY <1>5, <1>7, <2>2 DEF Choosing, Victim
<1>8. CASE i \in Lines /\ cache[i].valid
  <2>1. th' = [th EXCEPT ![c].idx = i + 1, ![c].oldest = Min({@, t}),
                         ![c].lru = IF t < th[c].oldest THEN i ELSE @]
    BY <1>8 DEF ChooseLine
  <2>2. /\ th'[c].pc = "choose" /\ th'[c].idx = i + 1
        /\ th'[c].oldest = Min({th[c].oldest, t})
        /\ th'[c].lru = IF t < th[c].oldest THEN i ELSE th[c].lru
    BY <1>1, <1>2, <2>1 DEF Fields
  <2>3. Victim(th'[c], cache)
    BY <2>2 DEF Victim
  <2>4. t \in Nat /\ t <= MaxConns
    BY <1>6, <1>8
  <2>5. /\ th'[c].oldest \in {th[c].oldest, t}
        /\ th'[c].oldest <= th[c].oldest /\ th'[c].oldest <= t
    <3>1. {th[c].oldest, t} \in SUBSET Nat
      BY <1>3, <2>4
    <3> QED BY <2>2, <3>1, MinNat
  <2>6. th'[c].oldest \in Nat
    BY <1>3, <2>4, <2>5
  <2>7. ASSUME NEW j \in Lines, j < i + 1
        PROVE  cache[j].valid /\ th'[c].oldest <= cache[j].timestamp
    <3>1. j < i \/ j = i
      BY <1>3, <1>6, <2>7
    <3>2. CASE j = i
      BY <1>8, <2>5, <3>2
    <3>3. CASE j < i
      <4>1. cache[j].valid /\ th[c].oldest <= cache[j].timestamp /\ cache[j].timestamp \in Nat
        BY <1>3, <1>6, <3>3
      <4> QED BY <1>3, <2>5, <2>6, <4>1
    <3> QED BY <3>1, <3>2, <3>3
  <2>8. th'[c].lru < i + 1 /\ th'[c].oldest = cache[th'[c].lru].timestamp
    <3>1. CASE t < th[c].oldest
      <4>1. th'[c].oldest = t
        BY <1>3, <2>4, <2>5, <3>1
      <4> QED BY <1>3, <2>2, <3>1, <4>1
    <3>2. CASE ~(t < th[c].oldest)
      <4>1. i # 0
        BY <1>3, <2>4, <3>2, ProxyAssumption
      <4>2. th'[c].oldest = th[c].oldest
        BY <1>3, <2>4, <2>5, <3>2
      <4>3. th[c].lru \in Nat
        BY <1>3, <1>6
      <4> QED BY <1>3, <2>2, <3>2, <4>1, <4>2, <4>3
    <3> QED BY <3>1, <3>2
  <2>9. i + 1 \in Nat /\ i + 1 # 0
    BY <1>3
  <2> QED BY <1>5, <2>2, <2>3, <2>6, <2>7, <2>8, <2>9 DEF Choosing
<1>9. CASE i \notin Lines
  <2>1. th' = [th EXCEPT ![c].pc = "write", ![c].idx = th[c].lru]
    BY <1>9 DEF ChooseLine
  <2>2. th'[c].pc = "write" /\ th'[c].idx = th[c].lru
    BY <1>1, <2>1 DEF Fields
  <2>3. i # 0 /\ \A j \in Lines : j < i
    BY <1>3, <1>6, <1>9, ProxyAssumption DEF Lines
  <2>4. \A j \in Lines : /\ cache[j].valid
                         /\ cache[th[c].lru].timestamp <= cache[j].timestamp
    BY <1>3, <2>3
  <2>5. ASSUME NEW j \in Lines PROVE cache[j].timestamp = LastRequest(cache[j].hash)
    <3>1. Stamped(j) /\ cache[j].valid
      BY <2>4 DEF OneAtATime
    <3>2. \A d \in Live : th[d].pc \notin {"tag"} \cup Asking
      BY <1>1, <1>4
    <3> QED BY <3>1, <3>2 DEF Stamped
  <2>6. Victim(th'[c], cache)
    BY <1>3, <2>2, <2>4, <2>5 DEF Victim
  <2> QED BY <1>5, <2>2, <2>6 DEF Choosing
<1> QED BY <1>7, <1>8, <1>9

-----------------------------------------------------------------------------
\* A step of the one thread that writes to a line.
LEMMA Writing ==
  ASSUME OneAtATime, NEW c \in Conns, Live = {c}, c = curr_time, Only(c),
         curr_time' = curr_time, th'[c].object = th[c].object,
         th'[c].pc \in {"enter", "close"} \cup Filling,
         Searching(th'[c], cache'), Stamping(th'[c], cache', curr_time),
         Victim(th'[c], cache'),
         \A i \in Lines : cache'[i].timestamp \in 0..curr_time,
         \A i \in Lines : cache'[i].valid /\ (th'[c].pc = "tag" => th'[c].idx # i)
                          => cache'[i].timestamp = LastRequest(cache'[i].hash),
         \A i, j \in Lines : cache'[i].valid /\ Holds(cache', j, cache'[i].hash) => i = j
  PROVE  OneAtATime'
<1>1. Live' = {c}
  BY DEF Live, Only, Filling
<1>2. \A o : LastRequest(o)' = LastRequest(o)
  BY SameRequests DEF Only
<1>3. Victim(th[c], cache)' /\ Choosing(th'[c], cache')
  BY <1>2 DEF Victim, Choosing, Filling
<1>4. \A i \in Lines : Stamped(i)'
  BY <1>1, <1>2 DEF Stamped
<1>5. \A d \in Conns : th'[d].pc \in {"none", "parse"} => th'[d].idx = 0
  BY DEF OneAtATime, Only, Filling
<1>6. \A d \in Live' : /\ Searching(th'[d], cache') /\ Stamping(th'[d], cache', curr_time')
                       /\ Choosing(th'[d], cache') /\ Victim(th[d], cache)'
  BY <1>1, <1>3
<1> QED BY <1>1, <1>4, <1>5, <1>6 DEF OneAtATime

LEMMA SerialWrites ==
  ASSUME Protocol, Filled, OneAtATime, NEW c \in Conns, serve(c),
         \/ TouchUnlock(c) \/ WriteContent(c) \/ WriteTimestamp(c)
         \/ WriteHash(c) \/ WriteValid(c)
  PROVE  OneAtATime'
<1> DEFINE k == th[c].idx
<1>1. /\ c \in Live /\ Live = {c} /\ c = curr_time /\ DOMAIN th = Conns /\ DOMAIN th[c] = Fields
      /\ Searching(th[c], cache) /\ Stamping(th[c], cache, curr_time) /\ Victim(th[c], cache)
  BY Served
<1>2. th[c].pc \in {"touched", "write"} \cup Filling
  BY DEF TouchUnlock, WriteContent, WriteTimestamp, WriteHash, WriteValid, At, Filling
<1>3. k \in Lines /\ DOMAIN cache = Lines /\ \A i \in Lines : DOMAIN cache[i] = LineFields
  BY <1>2 DEF Filled, Sound, OnLine
<1>4. \A i \in Lines : cache[i].timestamp \in 0..curr_time
  BY DEF OneAtATime
<1>5. curr_time \in 0..curr_time
  BY <1>1, ProxyAssumption DEF Conns
<1>6. /\ Only(c) /\ curr_time' = curr_time /\ th'[c].object = th[c].object /\ th'[c].idx = k
  BY <1>1 DEF TouchUnlock, WriteContent, WriteTimestamp, WriteHash, WriteValid, At, Goto,
              Only, Fields
<1>7. LastRequest(th[c].object) = curr_time
  BY <1>1, Present
<1>8. ASSUME NEW i \in Lines, cache[i].valid,
             th[c].pc \in Asking => cache[i].hash # th[c].object, th[c].pc = "tag" => k # i
      PROVE  cache[i].timestamp = LastRequest(cache[i].hash)
  BY <1>1, <1>8 DEF OneAtATime, Stamped
<1>9. \A i, j \in Lines : cache[i].valid /\ Holds(cache, j, cache[i].hash) => i = j
  BY DEF OneAtATime
<1>10. \A i \in Lines : i # k => cache'[i] = cache[i]
  BY <1>3 DEF TouchUnlock, WriteContent, WriteTimestamp, WriteHash, WriteValid
<1>11. CASE TouchUnlock(c)
  <2>1. /\ th[c].pc = "touched" /\ th'[c].pc = "enter" /\ cache'[k].timestamp = th[c].now
        /\ cache'[k].valid = cache[k].valid /\ cache'[k].hash = cache[k].hash
    BY <1>1, <1>3, <1>11 DEF TouchUnlock, At, Goto, LineFields, Fields
  <2>2. th[c].now = curr_time /\ Holds(cache, k, th[c].object)
    BY <1>1, <2>1 DEF Stamping, Searching
  <2>3. ASSUME NEW i \in Lines, cache'[i].valid
        PROVE  cache'[i].timestamp = LastRequest(cache'[i].hash)
    <3>1. CASE i = k
      BY <1>7, <2>1, <2>2, <3>1 DEF Holds
    <3>2. CASE i # k
      <4>1. cache[i].hash # th[c].object
        BY <1>3, <1>9, <1>10, <2>2, <2>3, <3>2 DEF Holds
      <4> QED BY <1>8, <1>10, <2>1, <2>3, <3>2, <4>1
    <3> QED BY <3>1, <3>2
  <2>4. \A i \in Lines : cache'[i].timestamp \in 0..curr_time
    BY <1>4, <1>5, <1>10, <2>1, <2>2
  <2>5. \A i, j \in Lines : cache'[i].valid /\ Holds(cache', j, cache'[i].hash) => i = j
    BY <1>9, <1>10, <2>1 DEF Holds
  <2>6. Searching(th'[c], cache') /\ Stamping(th'[c], cache', curr_time) /\ Victim(th'[c], cache')
    BY <2>1 DEF Searching, Stamping, Victim, Missing
  <2> QED BY <1>1, <1>6, <2>1, <2>3, <2>4, <2>5, <2>6, Writing
<1>12. CASE WriteContent(c)
  <2>1. /\ th[c].pc = "write" /\ th'[c].pc = "stamp" /\ th'[c].now = curr_time
        /\ cache'[k].timestamp = cache[k].timestamp
        /\ cache'[k].valid = cache[k].valid /\ cache'[k].hash = cache[k].hash
    BY <1>1, <1>3, <1>12 DEF WriteContent, At, LineFields, Fields
  <2>2. \A i \in Lines : /\ cache'[i].timestamp = cache[i].timestamp
                         /\ cache'[i].valid = cache[i].valid /\ cache'[i].hash = cache[i].hash
    BY <1>10, <2>1
  <2>3. \A i \in Lines : cache'[i].valid => cache'[i].timestamp = LastRequest(cache'[i].hash)
    BY <1>8, <2>1, <2>2 DEF Asking
  <2>4. Searching(th'[c], cache') /\ Stamping(th'[c], cache', curr_time)
    BY <1>1, <1>6, <2>1, <2>2 DEF Searching, Stamping, Missing, Holds
  <2>5. Victim(th'[c], cache')
    BY <1>1, <1>3, <1>6, <2>1, <2>2 DEF Victim
  <2>6. \A i, j \in Lines : cache'[i].valid /\ Holds(cache', j, cache'[i].hash) => i = j
    BY <1>9, <2>2 DEF Holds
  <2>7. \A i \in Lines : cache'[i].timestamp \in 0..curr_time
    BY <1>4, <2>2
  <2> QED BY <1>1, <1>6, <2>1, <2>3, <2>4, <2>5, <2>6, <2>7, Writing DEF Filling
<1>13. CASE WriteTimestamp(c)
  <2>1. /\ th[c].pc = "stamp" /\ th'[c].pc = "tag"
        /\ cache'[k].timestamp = th[c].now
        /\ cache'[k].valid = cache[k].valid /\ cache'[k].hash = cache[k].hash
    BY <1>1, <1>3, <1>13 DEF WriteTimestamp, At, Goto, LineFields, Fields
  <2>2. \A i \in Lines : cache'[i].valid = cache[i].valid /\ cache'[i].hash = cache[i].hash
    BY <1>10, <2>1
  <2>3. \A i \in Lines : cache'[i].valid /\ i # k => cache'[i].timestamp = LastRequest(cache'[i].hash)
    BY <1>8, <1>10, <2>1 DEF Asking
  <2>4. th[c].now = curr_time
    BY <1>1, <2>1 DEF Stamping
  <2>5. Searching(th'[c], cache') /\ Stamping(th'[c], cache', curr_time)
    BY <1>1, <1>6, <2>1, <2>2, <2>4 DEF Searching, Stamping, Missing, Holds
  <2>6. Victim(th'[c], cache')
    BY <1>1, <1>3, <1>6, <2>1, <2>2 DEF Victim
  <2>7. \A i, j \in Lines : cache'[i].valid /\ Holds(cache', j, cache'[i].hash) => i = j
    BY <1>9, <2>2 DEF Holds
  <2>8. \A i \in Lines : cache'[i].timestamp \in 0..curr_time
    BY <1>4, <1>5, <1>10, <2>1, <2>4
  <2> QED BY <1>1, <1>6, <2>1, <2>3, <2>5, <2>6, <2>7, <2>8, Writing DEF Filling
<1>14. CASE WriteHash(c)
  <2>1. /\ th[c].pc = "tag" /\ th'[c].pc = "validate"
        /\ cache'[k].timestamp = cache[k].timestamp
        /\ cache'[k].valid = cache[k].valid /\ cache'[k].hash = th[c].object
    BY <1>1, <1>3, <1>14 DEF WriteHash, At, Goto, LineFields, Fields
  <2>2. cache[k].timestamp = curr_time /\ \A j \in Lines : ~Holds(cache, j, th[c].object)
    BY <1>1, <2>1 DEF Stamping, Searching, Missing
  <2>3. ASSUME NEW i \in Lines, cache'[i].valid
        PROVE  cache'[i].timestamp = LastRequest(cache'[i].hash)
    <3>1. CASE i = k
      BY <1>7, <2>1, <2>2, <3>1
    <3>2. CASE i # k
      BY <1>8, <1>10, <2>1, <2>3, <3>2 DEF Asking
    <3> QED BY <3>1, <3>2
  <2>4. Searching(th'[c], cache') /\ Stamping(th'[c], cache', curr_time) /\ Victim(th'[c], cache')
    BY <1>6, <1>10, <2>1, <2>2 DEF Searching, Stamping, Victim, Missing, Holds
  <2>5. ASSUME NEW i \in Lines, NEW j \in Lines, cache'[i].valid, Holds(cache', j, cache'[i].hash)
        PROVE  i = j
    <3>1. CASE i = k
      BY <1>10, <2>1, <2>2, <2>5, <3>1 DEF Holds
    <3>2. CASE j = k
      BY <1>10, <2>1, <2>2, <2>5, <3>2 DEF Holds
    <3>3. CASE i # k /\ j # k
      BY <1>9, <1>10, <2>5, <3>3 DEF Holds
    <3> QED BY <3>1, <3>2, <3>3
  <2>6. \A i \in Lines : cache'[i].timestamp \in 0..curr_time
    BY <1>4, <1>10, <2>1
  <2> QED BY <1>1, <1>6, <2>1, <2>3, <2>4, <2>5, <2>6, Writing DEF Filling
<1>15. CASE WriteValid(c)
  <2>1. /\ th[c].pc = "validate" /\ th'[c].pc = "close"
        /\ cache'[k].timestamp = cache[k].timestamp
        /\ cache'[k].valid /\ cache'[k].hash = cache[k].hash
    BY <1>1, <1>3, <1>15 DEF WriteValid, At, Goto, LineFields, Fields
  <2>2. /\ cache[k].timestamp = curr_time /\ cache[k].hash = th[c].object
        /\ \A j \in Lines \ {k} : ~Holds(cache, j, th[c].object)
    BY <1>1, <2>1 DEF Stamping, Searching, Filled, Sound
  <2>3. ASSUME NEW i \in Lines, cache'[i].valid
        PROVE  cache'[i].timestamp = LastRequest(cache'[i].hash)
    <3>1. CASE i = k
      BY <1>7, <2>1, <2>2, <3>1
    <3>2. CASE i # k
      BY <1>8, <1>10, <2>1, <2>3, <3>2 DEF Asking
    <3> QED BY <3>1, <3>2
  <2>4. Searching(th'[c], cache') /\ Stamping(th'[c], cache', curr_time) /\ Victim(th'[c], cache')
    BY <2>1 DEF Searching, Stamping, Victim, Missing
  <2>5. ASSUME NEW i \in Lines, NEW j \in Lines, cache'[i].valid, Holds(cache', j, cache'[i].hash)
        PROVE  i = j
    <3>1. CASE i = k
      BY <1>10, <2>1, <2>2, <2>5, <3>1 DEF Holds
    <3>2. CASE j = k
      BY <1>10, <2>1, <2>2, <2>5, <3>2 DEF Holds
    <3>3. CASE i # k /\ j # k
      BY <1>9, <1>10, <2>5, <3>3 DEF Holds
    <3> QED BY <3>1, <3>2, <3>3
  <2>6. \A i \in Lines : cache'[i].timestamp \in 0..curr_time
    BY <1>4, <1>10, <2>1
  <2> QED BY <1>1, <1>6, <2>1, <2>3, <2>4, <2>5, <2>6, Writing
<1> QED BY <1>11, <1>12, <1>13, <1>14, <1>15

LEMMA SerialStep == Protocol /\ Filled /\ Serial /\ [Next]_vars => Serial'
<1> SUFFICES ASSUME Protocol, Filled, Serial, [Next]_vars PROVE Serial'
  OBVIOUS
<1>1. CASE UNCHANGED vars
  <2>1. \A o : LastRequest(o)' = LastRequest(o)
    BY <1>1, SameRequests DEF vars
  <2>2. th' = th /\ cache' = cache /\ curr_time' = curr_time /\ load' = load /\ Live' = Live
    BY <1>1 DEF vars, Live
  <2>3. ASSUME OneAtATime PROVE OneAtATime'
    <3>1. \A i \in Lines : Stamped(i)'
      BY <2>1, <2>2, <2>3 DEF Stamped, OneAtATime
    <3>2. \A c \in Live : Victim(th[c], cache)'
      BY <2>1, <2>2, <2>3 DEF Victim, OneAtATime
    <3> QED BY <2>2, <2>3, <3>1, <3>2 DEF OneAtATime
  <2> QED BY <2>2, <2>3 DEF Serial
<1>2. ASSUME NEW o, NEW stack, Accept(o, stack), UNCHANGED load PROVE Serial'
  BY <1>2, SerialAccept
<1>3. ASSUME NEW c \in Conns, serve(c), UNCHANGED load PROVE Serial'
  <2> SUFFICES ASSUME OneAtATime PROVE OneAtATime'
    BY <1>3 DEF Serial
  <2> QED BY <1>3, SerialLookup, SerialRest, SerialMiss, SerialChoose, SerialWrites DEF serve
<1> QED BY <1>1, <1>2, <1>3 DEF Next, main

LEMMA Evicted ==
  ASSUME Filled, Serial, [Next]_vars, load.live = 1,
         NEW i \in Lines, NEW j \in Lines, cache[i].valid, cache'[i].hash # cache[i].hash
  PROVE  LastRequest(cache[i].hash) <= LastRequest(cache[j].hash)
<1>1. DOMAIN cache = Lines /\ DOMAIN cache[i] = LineFields
  BY DEF Filled
<1>2. cache' # cache
  OBVIOUS
<1>3. PICK c \in Conns : serve(c)
  BY <1>2 DEF vars, Next, main, Accept
<1>4. WriteHash(c)
  <2>1. CASE TouchUnlock(c) \/ WriteContent(c) \/ WriteTimestamp(c) \/ WriteValid(c)
    <3>1. cache'[i].hash = cache[i].hash
      BY <1>1, <2>1 DEF TouchUnlock, WriteContent, WriteTimestamp, WriteValid, LineFields
    <3> QED BY <3>1
  <2>2. CASE \/ ParseRequest(c) \/ CheckLine(c) \/ TouchLock(c) \/ ReaderCount(c)
             \/ ReaderEnter(c) \/ SendCached(c) \/ ReaderLeave(c)
    <3>1. cache' = cache
      BY <2>2 DEF ParseRequest, CheckLine, TouchLock, ReaderCount, ReaderEnter, SendCached,
                  ReaderLeave, Exit, Undefined
    <3> QED BY <1>2, <3>1
  <2>3. CASE \/ Connect(c) \/ ConnectFails(c) \/ RelayChunk(c) \/ RelayEnd(c)
             \/ ChooseLine(c) \/ CloseServer(c) \/ CloseClient(c)
    <3>1. cache' = cache
      BY <2>3 DEF Connect, ConnectFails, RelayChunk, RelayEnd, ChooseLine, CloseServer,
                  CloseClient, Close, Exit, Undefined
    <3> QED BY <1>2, <3>1
  <2> QED BY <1>3, <2>1, <2>2, <2>3 DEF serve
<1>5. OneAtATime /\ Victim(th[c], cache)
  BY <1>3, Served DEF Serial
<1>6. th[c].pc = "tag" /\ cache' = [cache EXCEPT ![th[c].idx].hash = th[c].object]
  BY <1>4 DEF WriteHash, At
<1>7. th[c].idx = i
  BY <1>1, <1>6
<1> QED BY <1>5, <1>6, <1>7 DEF Victim

\* Requests one at a time never put an object into two lines: check_cache has
\* looked at every line before get_write_idx picks the one to fill.
THEOREM NoObjectTwice == Spec => []NoDuplicate
<1>1. Init => Protocol /\ Filled /\ Serial
  BY ProtocolInit, FilledInit, SerialInit
<1>2. Protocol /\ Filled /\ Serial /\ [Next]_vars => (Protocol /\ Filled /\ Serial)'
  BY ProtocolStep, FilledStep, SerialStep
<1>3. Protocol /\ Filled /\ Serial => NoDuplicate
  BY SerialSuffices
<1> QED BY <1>1, <1>2, <1>3, PTL DEF Spec

\* "Use timestamp to implement the LRU eviction policy" (proxy.c:37-38): of
\* requests one at a time, the object that loses its line to another is the one
\* whose last request is the oldest.
THEOREM OldestEvicted == Spec => EvictsLRU
<1>1. Init => Protocol /\ Filled /\ Serial
  BY ProtocolInit, FilledInit, SerialInit
<1>2. Protocol /\ Filled /\ Serial /\ [Next]_vars => (Protocol /\ Filled /\ Serial)'
  BY ProtocolStep, FilledStep, SerialStep
<1>3. Protocol /\ Filled /\ Serial /\ [Next]_vars =>
        [load.live = 1 => \A i, j \in Lines :
           cache[i].valid /\ cache'[i].hash # cache[i].hash
             => LastRequest(cache[i].hash) <= LastRequest(cache[j].hash)]_vars
  BY Evicted
<1> QED BY <1>1, <1>2, <1>3, PTL DEF Spec, EvictsLRU

-----------------------------------------------------------------------------
(***************************************************************************)
(* The descriptors.  While no request was a hit, every descriptor beyond   *)
(* the standard ones and the listening one belongs to a live connection,   *)
(* at most two to each; so main and serve find a free one, it is not zero, *)
(* and what a thread writes and closes is its own.                         *)
(***************************************************************************)
Sockets == [kind : {"free", "std", "listen", "client", "server"}, conn : 0..MaxConns, pos : Nat]
Part(o, n) == [m \in 1..n |-> Chunk(o, m)]    \* the first n chunks of the response

OnHit == {"touch", "touched", "enter", "entered", "send", "leave"}
Relayed == Fills \cup {"close"}
Connected == {"relay"} \cup Relayed

Unfilled == \A c \in Conns : th[c].pc \in {"none", "parse", "check"} \cup OnHit => th[c].buf = <<>>
Few == Cardinality(Live) <= load.live /\ curr_time <= load.conns

OwnClient(c) == /\ th[c].cfd \in FDs /\ th[c].cfd > ListenFd
                /\ fds[th[c].cfd] = Socket("client", c)
OwnServer(c) == /\ th[c].sfd \in FDs /\ th[c].sfd > ListenFd
                /\ fds[th[c].sfd].kind = "server" /\ fds[th[c].sfd].conn = c
                /\ fds[th[c].sfd].pos \in 0..ChunkCount(th[c].object)

Answer(c) ==
  /\ th[c].object \in Objects
  /\ \/ th[c].pc \in {"parse", "check", "connect"} /\ got[c] = <<>>
     \/ th[c].pc = "relay" /\ got[c] = Part(th[c].object, fds[th[c].sfd].pos)
     \/ th[c].pc \in Relayed \cup {"closed", "done"} /\ got[c] = Whole(th[c].object)

\* The connection and the thread a descriptor belongs to.
Owned(fd) ==
  \E c \in Live : /\ fds[fd].conn = c
                  /\ fd = th[c].cfd \/ (th[c].pc \in Connected /\ fd = th[c].sfd)

Smooth ==
  /\ status = "running"
  /\ fds \in [FDs -> Sockets] /\ DOMAIN got = Conns
  /\ \A c \in Conns : th[c].pc = "none" => c > curr_time /\ got[c] = <<>>
  /\ \A fd \in 0..ListenFd : fds[fd].kind # "free" /\ fds[fd].conn = 0
  /\ \A fd \in FDs : fd > ListenFd /\ (fds[fd].kind # "free" \/ fds[fd].conn # 0) => Owned(fd)
  /\ \A c \in Conns : /\ c \in Live => OwnClient(c)
                      /\ th[c].pc \in Connected => OwnServer(c)
                      /\ th[c].pc # "none" => Answer(c)

Calm == Hits = {} => Smooth

-----------------------------------------------------------------------------
LEMMA ChunkCountNat ==
  ASSUME NEW o \in Objects
  PROVE  ChunkCount(o) \in Nat
<1> DEFINE s == Size[o] + MAXLINE - 1
           m == MAXLINE
<1>1. s \in Nat /\ m \in Nat \ {0}
  BY ProxyAssumption
<1>2. ChunkCount(o) = s \div m
  BY DEF ChunkCount
<1> HIDE DEF s, m
<1>3. s \div m \in Nat
  BY <1>1
<1> QED BY <1>2, <1>3

LEMMA Parts ==
  ASSUME NEW o \in Objects, NEW n \in 0..ChunkCount(o)
  PROVE  /\ IsPrefix(Part(o, n), Whole(o))
         /\ Part(o, n) \o <<Chunk(o, n + 1)>> = Part(o, n + 1)
         /\ Part(o, 0) = <<>> /\ Part(o, ChunkCount(o)) = Whole(o)
         /\ IsPrefix(<<>>, Whole(o)) /\ IsPrefix(Whole(o), Whole(o))
<1> DEFINE K == [object : Objects, n : Nat]
           k == ChunkCount(o)
<1>1. k \in Nat /\ n \in Nat /\ n <= k
  BY ChunkCountNat
<1>2. \A m \in Nat : Chunk(o, m) \in K
  BY DEF Chunk
<1> HIDE DEF K, k
<1>3. /\ Part(o, n) \in Seq(K) /\ Len(Part(o, n)) = n
      /\ Whole(o) \in Seq(K) /\ Len(Whole(o)) = k
      /\ Part(o, n + 1) \in Seq(K) /\ Len(Part(o, n + 1)) = n + 1
  BY <1>1, <1>2 DEF Part, Whole, k
<1>4. Part(o, k) = Whole(o) /\ Part(o, 0) = <<>>
  BY <1>1 DEF Part, Whole, k
<1>5. ASSUME NEW m \in 0..k PROVE IsPrefix(Part(o, m), Whole(o))
  <2>1. m \in Nat /\ m <= k /\ Part(o, m) \in Seq(K) /\ Len(Part(o, m)) = m
    BY <1>1, <1>2, <1>5 DEF Part
  <2>2. SubSeq(Part(o, m), 1, m) = SubSeq(Whole(o), 1, m)
    BY <1>1, <1>3, <2>1 DEF Part, Whole, k
  <2> QED BY <1>3, <2>1, <2>2 DEF IsPrefix
<1>6. Part(o, n) \o <<Chunk(o, n + 1)>> = Part(o, n + 1)
  <2> DEFINE q == Part(o, n) \o <<Chunk(o, n + 1)>>
  <2>1. <<Chunk(o, n + 1)>> \in Seq(K) /\ Len(<<Chunk(o, n + 1)>>) = 1
    BY <1>1, <1>2
  <2>2. q \in Seq(K) /\ Len(q) = n + 1
    BY <1>1, <1>3, <2>1
  <2>3. ASSUME NEW m \in 1..n+1 PROVE q[m] = Part(o, n + 1)[m]
    <3>1. CASE m = n + 1
      BY <1>1, <1>3, <2>1, <3>1 DEF Part
    <3>2. CASE m \in 1..n
      BY <1>1, <1>3, <2>1, <3>2 DEF Part
    <3>3. m = n + 1 \/ m \in 1..n
      BY <1>1
    <3> QED BY <3>1, <3>2, <3>3
  <2> HIDE DEF q
  <2>4. q = Part(o, n + 1)
    BY <1>1, <1>3, <2>2, <2>3
  <2> QED BY <2>4 DEF q
<1>7. 0 \in 0..k /\ k \in 0..k /\ n \in 0..k
  BY <1>1
<1>8. /\ IsPrefix(Part(o, n), Whole(o)) /\ IsPrefix(Part(o, 0), Whole(o))
      /\ IsPrefix(Part(o, k), Whole(o))
  BY <1>5, <1>7
<1>9. IsPrefix(<<>>, Whole(o)) /\ IsPrefix(Whole(o), Whole(o))
  BY <1>4, <1>8
<1>10. k = ChunkCount(o)
  BY DEF k
<1> QED BY <1>4, <1>6, <1>8, <1>9, <1>10

LEMMA Image ==
  ASSUME NEW S, IsFiniteSet(S), NEW f, DOMAIN f = S, f = [x \in S |-> f[x]]
  PROVE  LET T == {f[x] : x \in S} IN IsFiniteSet(T) /\ Cardinality(T) <= Cardinality(S)
<1> DEFINE T == {f[x] : x \in S}
<1>1. f \in Surjection(S, T)
  BY DEF Surjection
<1> QED BY <1>1, FS_Surjection

-----------------------------------------------------------------------------
LEMMA UnfilledInit == Init => Unfilled
BY DEF Init, Unfilled

LEMMA FewInit == Init => Few
<1> SUFFICES ASSUME Init PROVE Few
  OBVIOUS
<1>1. Live = {}
  BY DEF Init, Live
<1>2. load.live \in 1..MaxLive /\ load.conns \in 0..MaxConns /\ curr_time = 0
  BY ProxyAssumption DEF Init
<1> QED BY <1>1, <1>2, FS_EmptySet, ProxyAssumption DEF Few

\* What every step of serve does to the locals of its thread.
LEMMA ServeOnly ==
  ASSUME Filled, NEW c \in Conns, serve(c)
  PROVE  /\ Only(c) /\ curr_time' = curr_time
         /\ th[c].pc \notin {"none", "done"} /\ th'[c].pc # "none"
         /\ th'[c].cfd = th[c].cfd /\ th'[c].object = th[c].object
<1>1. DOMAIN th = Conns /\ DOMAIN th[c] = Fields
  BY DEF Filled, Sound
<1> USE <1>1 DEF At, Goto, Only, Fields
<1>2. CASE ParseRequest(c) \/ CheckLine(c) \/ TouchLock(c) \/ TouchUnlock(c)
  BY <1>2 DEF ParseRequest, CheckLine, TouchLock, TouchUnlock, Exit, Undefined
<1>3. CASE ReaderCount(c) \/ ReaderEnter(c) \/ SendCached(c) \/ ReaderLeave(c)
  BY <1>3 DEF ReaderCount, ReaderEnter, SendCached, ReaderLeave
<1>4. CASE Connect(c) \/ ConnectFails(c)
  BY <1>4 DEF Connect, ConnectFails, Fetched
<1>5. CASE RelayChunk(c)
  BY <1>5 DEF RelayChunk, Exit, Undefined
<1>9. CASE RelayEnd(c)
  BY <1>9 DEF RelayEnd, Fetched, Exit, Undefined
<1>6. CASE ChooseLine(c) \/ WriteContent(c)
  BY <1>6 DEF ChooseLine, WriteContent
<1>8. CASE WriteTimestamp(c) \/ WriteHash(c) \/ WriteValid(c)
  BY <1>8 DEF WriteTimestamp, WriteHash, WriteValid
<1>7. CASE CloseServer(c) \/ CloseClient(c)
  BY <1>7 DEF CloseServer, CloseClient, Close, Exit
<1> QED BY <1>2, <1>3, <1>4, <1>5, <1>6, <1>7, <1>8, <1>9 DEF serve

\* main has a thread of its own for every connection.
LEMMA AcceptOnly ==
  ASSUME Protocol, Filled, NEW o, NEW stack, Accept(o, stack), load' = load
  PROVE  \E c \in Conns :
           /\ c = curr_time + 1 /\ curr_time \in Nat /\ curr_time' = c /\ Only(c)
           /\ th[c].pc = "none" /\ th'[c].pc = "parse"
           /\ th'[c].object = o /\ th'[c].cfd = LowestFree /\ th'[c].buf = th[c].buf
           /\ fds' = [fds EXCEPT ![LowestFree] = Socket("client", c)]
           /\ c \notin Live /\ Live' = Live \cup {c} /\ Cardinality(Live) < load.live
           /\ UNCHANGED <<status, got>>
<1>1. PICK c \in Conns : c = curr_time + 1 /\ th[c].pc = "none" /\ curr_time \in Nat
  <2>1. load.conns \in 0..MaxConns
    BY ProxyAssumption DEF Protocol, Shape
  <2> QED BY <2>1, ProxyAssumption DEF Protocol, Shape, Accept, Conns
<1>2. DOMAIN th = Conns /\ DOMAIN th[c] = Fields
  BY DEF Filled, Sound
<1>3. /\ curr_time' = c /\ Only(c) /\ th'[c].pc = "parse" /\ th'[c].object = o
      /\ th'[c].cfd = LowestFree /\ th'[c].buf = th[c].buf
      /\ fds' = [fds EXCEPT ![LowestFree] = Socket("client", c)]
  BY <1>1, <1>2 DEF Accept, Only, Fields
<1>4. c \notin Live /\ Live' = Live \cup {c}
  BY <1>1, <1>3 DEF Live, Only
<1> QED BY <1>1, <1>3, <1>4 DEF Accept

LEMMA FewStep == Protocol /\ Filled /\ Few /\ [Next]_vars => Few'
<1> SUFFICES ASSUME Protocol, Filled, Few, [Next]_vars PROVE Few'
  OBVIOUS
<1>0. /\ Cardinality(Live) \in Nat /\ load.live \in Nat /\ IsFiniteSet(Live)
  BY LiveFinite, FS_CardinalityType, ProxyAssumption DEF Protocol, Shape
<1>1. CASE UNCHANGED vars
  BY <1>1 DEF vars, Few, Live
<1>2. ASSUME NEW o, NEW stack, Accept(o, stack), UNCHANGED load PROVE Few'
  <2>1. PICK c \in Conns : /\ c \notin Live /\ Live' = Live \cup {c}
                           /\ Cardinality(Live) < load.live
                           /\ c = curr_time + 1 /\ curr_time' = c /\ curr_time \in Nat
    BY <1>2, AcceptOnly
  <2>3. load.conns \in Nat /\ curr_time < load.conns
    BY <1>2, ProxyAssumption DEF Protocol, Shape, Accept
  <2>2. Cardinality(Live') = Cardinality(Live) + 1
    BY <1>0, <2>1, FS_AddElement
  <2> QED BY <1>0, <1>2, <2>1, <2>2, <2>3 DEF Few
<1>3. ASSUME NEW c \in Conns, serve(c), UNCHANGED load PROVE Few'
  <2>1. Live' \subseteq Live /\ curr_time' = curr_time
    BY <1>3, ServeOnly DEF Live, Only
  <2>2. Cardinality(Live') <= Cardinality(Live) /\ Cardinality(Live') \in Nat
    BY <1>0, <2>1, FS_Subset, FS_CardinalityType
  <2> QED BY <1>0, <1>3, <2>1, <2>2 DEF Few
<1> QED BY <1>1, <1>2, <1>3 DEF Next, main

\* A request that has read nothing has an empty buffer: a hit shows for ever.
LEMMA UnfilledStep == Protocol /\ Filled /\ Unfilled /\ [Next]_vars => Unfilled'
<1> SUFFICES ASSUME Protocol, Filled, Unfilled, [Next]_vars PROVE Unfilled'
  OBVIOUS
<1> DEFINE Early == {"none", "parse", "check"} \cup OnHit
<1>1. CASE UNCHANGED vars
  BY <1>1 DEF vars, Unfilled
<1>2. ASSUME NEW o, NEW stack, Accept(o, stack), UNCHANGED load PROVE Unfilled'
  <2>1. PICK c \in Conns : Only(c) /\ th[c].pc = "none" /\ th'[c].buf = th[c].buf
    BY <1>2, AcceptOnly
  <2> QED BY <2>1 DEF Unfilled, Only
<1>3. ASSUME NEW c \in Conns, serve(c), UNCHANGED load PROVE Unfilled'
  <2>1. Only(c) /\ DOMAIN th = Conns /\ DOMAIN th[c] = Fields
    BY <1>3, ServeOnly DEF Filled, Sound
  <2>2. th'[c].pc \in Early => th[c].pc \in Early /\ th'[c].buf = th[c].buf
    <3> USE <2>1 DEF At, Goto, Fields, OnHit
    <3>1. CASE ParseRequest(c) \/ CheckLine(c) \/ TouchLock(c) \/ TouchUnlock(c)
      BY <3>1 DEF ParseRequest, CheckLine, TouchLock, TouchUnlock, Exit, Undefined
    <3>2. CASE ReaderCount(c) \/ ReaderEnter(c) \/ SendCached(c) \/ ReaderLeave(c)
      BY <3>2 DEF ReaderCount, ReaderEnter, SendCached, ReaderLeave
    <3>3. CASE Connect(c) \/ ConnectFails(c) \/ RelayChunk(c) \/ RelayEnd(c)
      <4>1. CASE Connect(c) \/ ConnectFails(c)
        BY <4>1 DEF Connect, ConnectFails, Fetched
      <4>2. CASE RelayChunk(c)
        BY <4>2 DEF RelayChunk
      <4>3. CASE RelayEnd(c)
        BY <4>3 DEF RelayEnd, Fetched, Exit, Undefined
      <4> QED BY <3>3, <4>1, <4>2, <4>3
    <3>4. CASE \/ ChooseLine(c) \/ WriteContent(c) \/ WriteTimestamp(c) \/ WriteHash(c)
               \/ WriteValid(c)
      BY <3>4 DEF ChooseLine, WriteContent, WriteTimestamp, WriteHash, WriteValid
    <3>5. CASE CloseServer(c) \/ CloseClient(c)
      BY <3>5 DEF CloseServer, CloseClient, Close, Exit
    <3> QED BY <1>3, <3>1, <3>2, <3>3, <3>4, <3>5 DEF serve
  <2> QED BY <2>1, <2>2 DEF Unfilled, Only
<1> QED BY <1>1, <1>2, <1>3 DEF Next, main

\* A request that was a hit is one for ever.
LEMMA HitsStay ==
  ASSUME Protocol, Filled, [Next]_vars, Hits' = {}
  PROVE  Hits = {}
<1> DEFINE HitOrOver == OnHit \cup Over
<1>1. Hits = {c \in Conns : th[c].pc \in HitOrOver /\ th[c].buf = <<>>}
  BY DEF Hits, In, OnHit, Over
<1>2. Hits' = {c \in Conns : th'[c].pc \in HitOrOver /\ th'[c].buf = <<>>}
  BY DEF Hits, In, OnHit, Over
<1>3. CASE UNCHANGED vars
  BY <1>1, <1>2, <1>3 DEF vars
<1>4. ASSUME NEW o, NEW stack, Accept(o, stack), UNCHANGED load PROVE Hits = {}
  <2>1. PICK c \in Conns : Only(c) /\ th[c].pc = "none"
    BY <1>4, AcceptOnly
  <2> QED BY <1>1, <1>2, <2>1 DEF Only, OnHit, Over
<1>5. ASSUME NEW c \in Conns, serve(c), UNCHANGED load PROVE Hits = {}
  <2>1. Only(c) /\ DOMAIN th = Conns /\ DOMAIN th[c] = Fields
    BY <1>5, ServeOnly DEF Filled, Sound
  <2>2. th[c].pc \in HitOrOver => th'[c].pc \in HitOrOver /\ th'[c].buf = th[c].buf
    <3> USE <2>1 DEF At, Goto, Fields, OnHit, Over
    <3>1. CASE ParseRequest(c) \/ CheckLine(c) \/ TouchLock(c) \/ TouchUnlock(c)
      BY <3>1 DEF ParseRequest, CheckLine, TouchLock, TouchUnlock
    <3>2. CASE ReaderCount(c) \/ ReaderEnter(c) \/ SendCached(c) \/ ReaderLeave(c)
      BY <3>2 DEF ReaderCount, ReaderEnter, SendCached, ReaderLeave
    <3>3. CASE Connect(c) \/ ConnectFails(c) \/ RelayChunk(c) \/ RelayEnd(c)
      BY <3>3 DEF Connect, ConnectFails, RelayChunk, RelayEnd
    <3>4. CASE \/ ChooseLine(c) \/ WriteContent(c) \/ WriteTimestamp(c) \/ WriteHash(c)
               \/ WriteValid(c)
      BY <3>4 DEF ChooseLine, WriteContent, WriteTimestamp, WriteHash, WriteValid
    <3>5. CASE CloseServer(c) \/ CloseClient(c)
      BY <3>5 DEF CloseServer, CloseClient, Close, Exit
    <3> QED BY <1>5, <3>1, <3>2, <3>3, <3>4, <3>5 DEF serve
  <2> QED BY <1>1, <1>2, <2>1, <2>2 DEF Only
<1> QED BY <1>3, <1>4, <1>5 DEF Next, main

LEMMA NoHit ==
  ASSUME Unfilled, Hits = {}, NEW c \in Conns
  PROVE  th[c].pc \notin OnHit
BY DEF Unfilled, Hits, In, OnHit

-----------------------------------------------------------------------------
\* While fewer threads are connected than main may let in, a descriptor is free.
LEMMA FreeLeft ==
  ASSUME Smooth, Cardinality(Live) + Cardinality(In(Connected)) < 2 * MaxLive
  PROVE  /\ LowestFree \in FDs /\ LowestFree > ListenFd /\ fds[LowestFree].kind = "free"
         /\ fds[LowestFree].conn = 0
<1> DEFINE L == Live
           M == In(Connected)
           A == {th[c].cfd : c \in L}
           B == {th[c].sfd : c \in M}
           S == {fd \in FDs : ~Open(fd)}
<1>1. IsFiniteSet(L) /\ IsFiniteSet(M) /\ Cardinality(L) \in Nat /\ Cardinality(M) \in Nat
  <2>1. IsFiniteSet(Conns) /\ M \subseteq Conns
    BY FS_Interval, ProxyAssumption DEF Conns, In
  <2> QED BY <2>1, LiveFinite, FS_Subset, FS_CardinalityType
<1>2. IsFiniteSet(A) /\ Cardinality(A) <= Cardinality(L)
  <2> DEFINE f == [c \in L |-> th[c].cfd]
  <2>1. DOMAIN f = L /\ f = [x \in L |-> f[x]] /\ A = {f[x] : x \in L}
    OBVIOUS
  <2> HIDE DEF f, A, L
  <2> QED BY <1>1, <2>1, Image
<1>3. IsFiniteSet(B) /\ Cardinality(B) <= Cardinality(M)
  <2> DEFINE f == [c \in M |-> th[c].sfd]
  <2>1. DOMAIN f = M /\ f = [x \in M |-> f[x]] /\ B = {f[x] : x \in M}
    OBVIOUS
  <2> HIDE DEF f, B, M
  <2> QED BY <1>1, <2>1, Image
<1>4. IsFiniteSet(FDs) /\ Cardinality(FDs) = 4 + 2 * MaxLive
  BY FS_Interval, ProxyAssumption DEF FDs
<1>5. IsFiniteSet(0..ListenFd) /\ Cardinality(0..ListenFd) = 4
  <2>1. ASSUME NEW b \in Nat PROVE IsFiniteSet(0..b) /\ Cardinality(0..b) = b + 1
    BY FS_Interval
  <2>2. ListenFd \in Nat /\ ListenFd + 1 = 4
    BY DEF ListenFd
  <2> QED BY <2>1, <2>2
<1>6. Cardinality(A \cup B) <= Cardinality(L) + Cardinality(M) /\ IsFiniteSet(A \cup B)
  <2>1. /\ Cardinality(A) \in Nat /\ Cardinality(B) \in Nat /\ Cardinality(A \cap B) \in Nat
    BY <1>2, <1>3, FS_CardinalityType, FS_Intersection
  <2>2. /\ IsFiniteSet(A \cup B)
        /\ Cardinality(A \cup B) = Cardinality(A) + Cardinality(B) - Cardinality(A \cap B)
    BY <1>2, <1>3, FS_Union
  <2> HIDE DEF A, B, L, M
  <2> QED BY <1>1, <1>2, <1>3, <2>1, <2>2
<1>7. Cardinality((0..ListenFd) \cup (A \cup B)) <= 4 + Cardinality(A \cup B)
      /\ IsFiniteSet((0..ListenFd) \cup (A \cup B))
  <2> DEFINE U == A \cup B
  <2>1. IsFiniteSet(U)
    BY <1>6
  <2> HIDE DEF U
  <2>2. Cardinality(U) \in Nat /\ Cardinality((0..ListenFd) \cap U) \in Nat
    BY <1>5, <2>1, FS_CardinalityType, FS_Intersection
  <2>3. /\ IsFiniteSet((0..ListenFd) \cup U)
        /\ Cardinality((0..ListenFd) \cup U) = 4 + Cardinality(U) - Cardinality((0..ListenFd) \cap U)
    BY <1>5, <2>1, FS_Union
  <2>4. Cardinality((0..ListenFd) \cup U) <= 4 + Cardinality(U)
    BY <2>2, <2>3
  <2> QED BY <2>3, <2>4 DEF U
<1>8. S # {}
  <2> SUFFICES ASSUME S = {} PROVE FALSE
    OBVIOUS
  <2>1. FDs \subseteq (0..ListenFd) \cup (A \cup B)
    <3> SUFFICES ASSUME NEW fd \in FDs, fd > ListenFd PROVE fd \in A \cup B
      BY ProxyAssumption DEF FDs, ListenFd
    <3>1. fds[fd].kind # "free"
      BY DEF Open
    <3>2. PICK c \in L : fd = th[c].cfd \/ (th[c].pc \in Connected /\ fd = th[c].sfd)
      BY <3>1 DEF Smooth, Owned
    <3> QED BY <3>2 DEF Live, In
  <2>2. Cardinality(FDs) <= Cardinality((0..ListenFd) \cup (A \cup B))
    BY <1>7, <2>1, FS_Subset
  <2>3. Cardinality(A \cup B) \in Nat /\ Cardinality((0..ListenFd) \cup (A \cup B)) \in Nat
    BY <1>6, <1>7, FS_CardinalityType
  <2> HIDE DEF A, B, L, M
  <2>4. Cardinality(L) + Cardinality(M) < 2 * MaxLive
    BY DEF L, M
  <2> QED BY <1>1, <1>4, <1>6, <1>7, <2>2, <2>3, <2>4, ProxyAssumption
<1>9. S \in SUBSET Nat
  BY ProxyAssumption DEF FDs
<1>10. LowestFree = Min(S) /\ LowestFree \in S
  BY <1>8, <1>9, MinNat DEF LowestFree
<1>11. LowestFree \in FDs /\ fds[LowestFree].kind = "free"
  BY <1>10 DEF Open
<1>12. LowestFree > ListenFd
  <2>1. LowestFree \in Nat
    BY <1>9, <1>10
  <2> QED BY <1>11, <2>1 DEF Smooth, ListenFd
<1>13. fds[LowestFree].conn = 0
  <2> SUFFICES ASSUME fds[LowestFree].conn # 0 PROVE FALSE
    OBVIOUS
  <2>1. PICK c \in Live : LowestFree = th[c].cfd
                          \/ (th[c].pc \in Connected /\ LowestFree = th[c].sfd)
    BY <1>11, <1>12 DEF Smooth, Owned
  <2>2. CASE LowestFree = th[c].cfd
    <3>1. c \in Conns /\ c \in Live
      BY DEF Live
    <3>2. fds[th[c].cfd] = Socket("client", c)
      BY <3>1 DEF Smooth, OwnClient
    <3>3. Socket("client", c).kind = "client"
      BY DEF Socket
    <3> QED BY <1>11, <2>2, <3>2, <3>3
  <2>3. CASE th[c].pc \in Connected /\ LowestFree = th[c].sfd
    BY <1>11, <2>1, <2>3 DEF Smooth, OwnServer, Live
  <2> QED BY <2>1, <2>2, <2>3
<1> QED BY <1>11, <1>12, <1>13

LEMMA CalmSuffices == Protocol /\ Few /\ Calm => Undisturbed
<1> SUFFICES ASSUME Protocol, Few, Smooth PROVE Undisturbed
  BY DEF Calm, Undisturbed
<1>1. curr_time \in Nat /\ curr_time <= MaxConns
  BY ProxyAssumption DEF Protocol, Shape, Few
<1>2. ASSUME NEW c \in 1..curr_time
      PROVE  /\ IsPrefix(got[c], Whole(th[c].object))
             /\ th[c].pc = "done" => got[c] = Whole(th[c].object)
  <2>1. c \in Conns
    BY <1>1, ProxyAssumption DEF Conns
  <2>2. th[c].pc # "none"
    BY <1>1, <2>1 DEF Smooth
  <2> DEFINE o == th[c].object
  <2>3. Answer(c) /\ (th[c].pc \in Connected => OwnServer(c)) /\ o \in Objects
    BY <2>1, <2>2 DEF Smooth, Answer
  <2>4. CASE th[c].pc \in {"parse", "check", "connect"}
    <3>1. got[c] = <<>>
      BY <2>3, <2>4 DEF Answer, Relayed, Fills, Filling
    <3>2. 0 \in 0..ChunkCount(o)
      BY <2>3, ChunkCountNat
    <3> QED BY <2>3, <2>4, <3>1, <3>2, Parts
  <2>5. CASE th[c].pc = "relay"
    <3>1. got[c] = Part(o, fds[th[c].sfd].pos) /\ fds[th[c].sfd].pos \in 0..ChunkCount(o)
      BY <2>3, <2>5 DEF Answer, Relayed, Fills, Filling, OwnServer, Connected
    <3> QED BY <2>3, <2>5, <3>1, Parts
  <2>6. CASE th[c].pc \in Relayed \cup {"closed", "done"}
    <3>1. got[c] = Whole(o)
      BY <2>3, <2>6 DEF Answer, Relayed, Fills, Filling
    <3>2. 0 \in 0..ChunkCount(o)
      BY <2>3, ChunkCountNat
    <3> QED BY <2>3, <3>1, <3>2, Parts
  <2> QED BY <2>3, <2>4, <2>5, <2>6 DEF Answer
<1>3. ASSUME NEW fd \in FDs, fds[fd].conn # 0
      PROVE  th[fds[fd].conn].pc \notin {"none", "done"}
  <2>1. fd > ListenFd
    <3>1. fd \notin 0..ListenFd
      BY <1>3 DEF Smooth
    <3>2. fd \in Nat
      BY ProxyAssumption DEF FDs
    <3> QED BY <3>1, <3>2 DEF ListenFd
  <2>2. Owned(fd)
    BY <1>3, <2>1 DEF Smooth
  <2> QED BY <2>2 DEF Owned, Live
<1> QED BY <1>2, <1>3 DEF Undisturbed, Smooth

LEMMA CalmInit == Init => Calm
<1> SUFFICES ASSUME Init PROVE Smooth
  BY DEF Calm
<1>1. /\ \A c \in Conns : th[c].pc = "none" /\ got[c] = <<>>
      /\ curr_time = 0 /\ status = "running" /\ DOMAIN got = Conns
  BY DEF Init
<1>2. \A c \in Conns : c > curr_time
  BY <1>1 DEF Conns
<1>3. Live = {} /\ \A c \in Conns : th[c].pc \notin Connected
  BY <1>1 DEF Live, Connected, Relayed, Fills, Filling
<1>4. fds = [fd \in FDs |-> CASE fd < ListenFd -> Socket("std", 0)
                             [] fd = ListenFd -> Socket("listen", 0)
                             [] OTHER -> Free]
  BY DEF Init
<1>5. ASSUME NEW fd \in FDs, fd < ListenFd, fd # ListenFd PROVE fds[fd] = Socket("std", 0)
  BY <1>4, <1>5, Zenon
<1>6. ASSUME NEW fd \in FDs, fd = ListenFd, ~(fd < ListenFd) PROVE fds[fd] = Socket("listen", 0)
  BY <1>4, <1>6, Zenon
<1>7. ASSUME NEW fd \in FDs, fd # ListenFd, ~(fd < ListenFd) PROVE fds[fd] = Free
  BY <1>4, <1>7, Zenon
<1>8. \A kind \in {"std", "listen"} : /\ Socket(kind, 0) \in Sockets /\ Free \in Sockets
                                      /\ Socket(kind, 0).kind # "free" /\ Socket(kind, 0).conn = 0
                                      /\ Free.kind = "free" /\ Free.conn = 0
  BY ProxyAssumption DEF Socket, Sockets, Free
<1>9. ASSUME NEW fd \in FDs
      PROVE  \/ fd < ListenFd /\ fd # ListenFd
             \/ fd = ListenFd /\ ~(fd < ListenFd)
             \/ fd # ListenFd /\ ~(fd < ListenFd) /\ fd > ListenFd
  BY ProxyAssumption DEF FDs, ListenFd
<1>10. ASSUME NEW fd \in FDs PROVE fds[fd] \in Sockets
  BY <1>5, <1>6, <1>7, <1>8, <1>9
<1>11. fds \in [FDs -> Sockets]
  BY <1>4, <1>10
<1>12. ASSUME NEW fd \in 0..ListenFd PROVE fds[fd].kind # "free" /\ fds[fd].conn = 0
  <2>1. fd \in FDs /\ ~(fd > ListenFd)
    BY ProxyAssumption DEF FDs, ListenFd
  <2> QED BY <1>5, <1>6, <1>8, <1>9, <2>1
<1>13. ASSUME NEW fd \in FDs, fd > ListenFd PROVE fds[fd].kind = "free" /\ fds[fd].conn = 0
  <2>1. fd # ListenFd /\ ~(fd < ListenFd)
    BY <1>13, ProxyAssumption DEF FDs, ListenFd
  <2> QED BY <1>7, <1>8, <2>1
<1> QED BY <1>1, <1>2, <1>3, <1>11, <1>12, <1>13 DEF Smooth

-----------------------------------------------------------------------------
\* What the theorem is about: no server refuses, every method is GET, nobody
\* leaves.
Faultless == Failing = {} /\ Malformed = {} /\ Leaving = {}

\* Thread c changes at most the descriptor f, which is free or its own.
LEMMA OwnDescriptor ==
  ASSUME Smooth, NEW c \in Conns, Only(c), status' = status, curr_time' \in Nat,
         fds' \in [FDs -> Sockets], DOMAIN got' = Conns,
         \A d \in Conns : d # c => got'[d] = got[d],
         \A d \in Conns : d # c /\ th[d].pc = "none" => d > curr_time',
         th'[c].pc # "none", Answer(c)',
         c \in Live' => OwnClient(c)',
         th'[c].pc \in Connected => OwnServer(c)',
         NEW f, \A fd \in FDs : fd # f => fds'[fd] = fds[fd],
         f \in FDs => /\ f > ListenFd
                      /\ fds[f].kind = "free" \/ fds[f].conn = c
                      /\ fds'[f].kind # "free" \/ fds'[f].conn # 0 => Owned(f)',
         c \in Live /\ th[c].cfd # f => c \in Live' /\ th'[c].cfd = th[c].cfd,
         th[c].pc \in Connected /\ th[c].sfd # f => c \in Live' /\ th'[c].pc \in Connected
                                                     /\ th'[c].sfd = th[c].sfd
  PROVE  Smooth'
<1>1. ASSUME NEW d \in Conns, d # c
      PROVE  th'[d] = th[d] /\ got'[d] = got[d] /\ (d \in Live' <=> d \in Live)
  BY <1>1 DEF Only, Live
<1>2. ASSUME NEW d \in Conns, d # c, NEW fd \in FDs, fds[fd].kind # "free", fds[fd].conn = d
      PROVE  fds'[fd] = fds[fd]
  BY <1>2
<1>3. ASSUME NEW d \in Conns, d # c
      PROVE  /\ d \in Live' => OwnClient(d)'
             /\ th'[d].pc \in Connected => OwnServer(d)'
             /\ th'[d].pc # "none" => Answer(d)'
  <2>1. th'[d] = th[d] /\ got'[d] = got[d] /\ (d \in Live' <=> d \in Live)
    BY <1>1, <1>3
  <2>2. ASSUME d \in Live PROVE OwnClient(d)'
    <3>1. OwnClient(d)
      BY <2>2 DEF Smooth
    <3>2. Socket("client", d).kind = "client" /\ Socket("client", d).conn = d
      BY DEF Socket
    <3>3. fds'[th[d].cfd] = fds[th[d].cfd]
      BY <1>2, <1>3, <3>1, <3>2 DEF OwnClient
    <3> QED BY <2>1, <3>1, <3>3 DEF OwnClient
  <2>3. ASSUME th[d].pc \in Connected PROVE OwnServer(d)' /\ fds'[th[d].sfd] = fds[th[d].sfd]
    <3>1. OwnServer(d)
      BY <2>3 DEF Smooth
    <3>2. fds'[th[d].sfd] = fds[th[d].sfd]
      BY <1>2, <1>3, <3>1 DEF OwnServer
    <3> QED BY <2>1, <3>1, <3>2 DEF OwnServer
  <2>4. ASSUME th[d].pc # "none" PROVE Answer(d)'
    <3>1. Answer(d)
      BY <2>4 DEF Smooth
    <3> QED BY <2>1, <2>3, <3>1 DEF Answer, Connected
  <2> QED BY <2>1, <2>2, <2>3, <2>4
<1>4. ASSUME NEW fd \in FDs, fd > ListenFd, fds'[fd].kind # "free" \/ fds'[fd].conn # 0
      PROVE  Owned(fd)'
  <2>1. CASE fd = f
    BY <1>4, <2>1
  <2>2. CASE fd # f
    <3>1. fds'[fd] = fds[fd]
      BY <2>2
    <3>2. PICK d \in Live : /\ fds[fd].conn = d
                            /\ fd = th[d].cfd \/ (th[d].pc \in Connected /\ fd = th[d].sfd)
      BY <1>4, <3>1 DEF Smooth, Owned
    <3>3. d \in Conns
      BY DEF Live
    <3>4. CASE d = c
      <4>1. c \in Live' /\ (fd = th'[c].cfd \/ (th'[c].pc \in Connected /\ fd = th'[c].sfd))
        BY <2>2, <3>2, <3>4
      <4> QED BY <3>1, <3>2, <3>4, <4>1 DEF Owned
    <3>5. CASE d # c
      <4>1. th'[d] = th[d] /\ d \in Live'
        BY <1>1, <3>2, <3>3, <3>5
      <4> QED BY <3>1, <3>2, <4>1 DEF Owned
    <3> QED BY <3>4, <3>5
  <2> QED BY <2>1, <2>2
<1>5. ASSUME NEW fd \in 0..ListenFd PROVE fds'[fd].kind # "free" /\ fds'[fd].conn = 0
  <2>1. fd \in FDs /\ ~(fd > ListenFd)
    BY ProxyAssumption DEF FDs, ListenFd
  <2>2. fds'[fd] = fds[fd]
    BY <2>1
  <2> QED BY <2>2 DEF Smooth
<1>6. \A d \in Conns : th'[d].pc = "none" => d > curr_time' /\ got'[d] = <<>>
  BY <1>1 DEF Smooth
<1> QED BY <1>3, <1>4, <1>5, <1>6 DEF Smooth

LEMMA CalmAccept ==
  ASSUME Protocol, Filled, Few, Smooth, NEW o \in load.objects, NEW stack, Accept(o, stack),
         load' = load
  PROVE  Smooth'
<1>0. PICK f : f = LowestFree
  OBVIOUS
<1>1. PICK c \in Conns :
        /\ c = curr_time + 1 /\ curr_time \in Nat /\ curr_time' = c /\ Only(c)
        /\ th[c].pc = "none" /\ th'[c].pc = "parse"
        /\ th'[c].object = o /\ th'[c].cfd = f
        /\ fds' = [fds EXCEPT ![f] = Socket("client", c)]
        /\ c \notin Live /\ Live' = Live \cup {c} /\ Cardinality(Live) < load.live
        /\ UNCHANGED <<status, got>>
  BY <1>0, AcceptOnly
<1>2. Cardinality(Live) + Cardinality(In(Connected)) < 2 * MaxLive
  <2>1. In(Connected) \subseteq Live
    BY DEF In, Connected, Relayed, Fills, Filling, Live
  <2>2. Cardinality(In(Connected)) <= Cardinality(Live)
    BY <2>1, LiveFinite, FS_Subset
  <2>3. Cardinality(Live) \in Nat /\ Cardinality(In(Connected)) \in Nat
    BY <2>1, LiveFinite, FS_Subset, FS_CardinalityType
  <2>4. load.live \in 1..MaxLive
    BY ProxyAssumption DEF Protocol, Shape
  <2> QED BY <1>1, <2>2, <2>3, <2>4, ProxyAssumption
<1>3. f \in FDs /\ f > ListenFd /\ fds[f].kind = "free"
  BY <1>0, <1>2, FreeLeft
<1>4. Socket("client", c) \in Sockets /\ Socket("client", c).conn = c
  BY ProxyAssumption DEF Socket, Sockets, Conns
<1>5. /\ fds' \in [FDs -> Sockets] /\ fds'[f] = Socket("client", c)
      /\ \A fd \in FDs : fd # f => fds'[fd] = fds[fd]
  BY <1>1, <1>3, <1>4 DEF Smooth
<1>6. OwnClient(c)'
  BY <1>1, <1>3, <1>5 DEF OwnClient
<1>7. Answer(c)'
  <2>1. o \in Objects
    BY ProxyAssumption DEF Protocol, Shape
  <2>2. got[c] = <<>>
    BY <1>1 DEF Smooth
  <2> QED BY <1>1, <2>1, <2>2 DEF Answer
<1>8. Owned(f)'
  BY <1>1, <1>4, <1>5 DEF Owned
<1>9. \A d \in Conns : d # c /\ th[d].pc = "none" => d > curr_time'
  <2>1. \A d \in Conns : th[d].pc = "none" => d > curr_time
    BY DEF Smooth
  <2> QED BY <1>1, <2>1 DEF Conns
<1>10. /\ th[c].pc \notin Connected /\ th'[c].pc \notin Connected /\ th'[c].pc # "none"
       /\ curr_time' \in Nat
  BY <1>1 DEF Connected, Relayed, Fills, Filling
<1>11. DOMAIN got' = Conns /\ \A d \in Conns : d # c => got'[d] = got[d]
  BY <1>1 DEF Smooth
<1> QED BY <1>1, <1>3, <1>5, <1>6, <1>7, <1>8, <1>9, <1>10, <1>11, OwnDescriptor

\* A step of serve that leaves descriptors and clients alone.
LEMMA NoDescriptor ==
  ASSUME Protocol, Filled, Smooth, NEW c \in Conns, serve(c), status' = status, fds' = fds,
         got' = got, th'[c].pc # "done", th'[c].sfd = th[c].sfd, Answer(c)',
         th[c].pc \in Connected <=> th'[c].pc \in Connected
  PROVE  Smooth'
<1>1. /\ Only(c) /\ curr_time' = curr_time /\ th[c].pc \notin {"none", "done"}
      /\ th'[c].pc # "none" /\ th'[c].cfd = th[c].cfd /\ th'[c].object = th[c].object
  BY ServeOnly
<1>2. c \in Live /\ c \in Live' /\ curr_time \in Nat
  BY <1>1 DEF Live, Protocol, Shape
<1>3. OwnClient(c)'
  BY <1>1, <1>2 DEF Smooth, OwnClient
<1>4. th'[c].pc \in Connected => OwnServer(c)'
  BY <1>1 DEF Smooth, OwnServer
<1>5. /\ fds' \in [FDs -> Sockets] /\ DOMAIN got' = Conns
      /\ \A d \in Conns : th[d].pc = "none" => d > curr_time'
  BY <1>1 DEF Smooth
<1>6. -1 \notin FDs
  BY ProxyAssumption DEF FDs
<1> QED BY <1>1, <1>2, <1>3, <1>4, <1>5, <1>6, OwnDescriptor

\* Before the response is asked for: only an answer that is no GET is written.
LEMMA CalmLookup ==
  ASSUME Faultless, Protocol, Filled, Smooth, NEW c \in Conns, serve(c), th'[c].pc \notin OnHit,
         ParseRequest(c) \/ CheckLine(c)
  PROVE  Smooth'
<1>1. /\ Only(c) /\ DOMAIN th = Conns /\ DOMAIN th[c] = Fields /\ c \in Live
      /\ th'[c].object = th[c].object
  BY ServeOnly DEF Filled, Sound, Live
<1> USE DEF Connected, Relayed, Fills, Filling
<1>2. ASSUME status' = status, fds' = fds, got' = got, th'[c].sfd = th[c].sfd,
             th[c].pc \in {"parse", "check"}, th'[c].pc \in {"check", "connect"}
      PROVE  Smooth'
  <2>1. Answer(c)
    BY <1>2 DEF Smooth
  <2>2. Answer(c)'
    BY <1>1, <1>2, <2>1 DEF Answer
  <2> QED BY <1>2, <2>2, NoDescriptor
<1>3. CASE ParseRequest(c)
  <2>1. /\ th[c].cfd \in FDs /\ fds[th[c].cfd] = Socket("client", c)
    BY <1>1 DEF Smooth, OwnClient
  <2>2. Open(th[c].cfd)
    <3>1. Socket("client", c).kind # "free"
      BY DEF Socket
    <3> QED BY <2>1, <3>1 DEF Open
  <2>3. /\ Write(th[c].cfd, IF th[c].object \in Malformed
                            THEN <<ErrorPage(th[c].object)>> ELSE <<>>)
        /\ Goto(c, "check") /\ fds' = fds /\ th[c].pc = "parse"
    BY <1>3, <2>1, <2>2 DEF ParseRequest, Faultless, At
  <2>4. Write(th[c].cfd, <<>>)
    BY <2>3 DEF Faultless
  <2>5. status' = status /\ got' = got
    BY <2>4 DEF Write
  <2>6. th'[c].pc = "check" /\ th'[c].sfd = th[c].sfd
    BY <1>1, <2>3 DEF Goto, Fields
  <2> QED BY <1>2, <2>3, <2>5, <2>6
<1>4. CASE CheckLine(c)
  <2>1. /\ status' = status /\ fds' = fds /\ got' = got /\ th[c].pc = "check"
        /\ th'[c].pc \in {"touch", "check", "connect"} /\ th'[c].sfd = th[c].sfd
    BY <1>1, <1>4 DEF CheckLine, At, Fields
  <2>2. th'[c].pc # "touch"
    BY DEF OnHit
  <2> QED BY <1>2, <2>1, <2>2
<1> QED BY <1>3, <1>4

\* resend_request: the descriptor it gets is not zero.
LEMMA CalmConnect ==
  ASSUME Faultless, Protocol, Filled, Few, Smooth, NEW c \in Conns, serve(c), Connect(c)
  PROVE  Smooth'
<1>0. PICK f : f = LowestFree
  OBVIOUS
<1>1. /\ Only(c) /\ DOMAIN th = Conns /\ DOMAIN th[c] = Fields /\ c \in Live
      /\ th'[c].object = th[c].object /\ th'[c].cfd = th[c].cfd
      /\ curr_time' = curr_time /\ curr_time \in Nat
  BY ServeOnly DEF Filled, Sound, Live, Protocol, Shape
<1>2. th[c].pc = "connect" /\ th[c].pc \notin Connected
  BY DEF Connect, At, Connected, Relayed, Fills, Filling
<1>3. Cardinality(Live) + Cardinality(In(Connected)) < 2 * MaxLive
  <2>1. In(Connected) \subseteq Live \ {c}
    BY <1>2 DEF In, Connected, Relayed, Fills, Filling, Live
  <2>2. IsFiniteSet(Live \ {c}) /\ Cardinality(Live \ {c}) = Cardinality(Live) - 1
    BY <1>1, LiveFinite, FS_RemoveElement
  <2>3. Cardinality(In(Connected)) <= Cardinality(Live) - 1
    BY <2>1, <2>2, FS_Subset
  <2>4. Cardinality(Live) \in Nat /\ Cardinality(In(Connected)) \in Nat
    BY <2>1, <2>2, LiveFinite, FS_Subset, FS_CardinalityType
  <2>5. load.live \in 1..MaxLive /\ Cardinality(Live) <= load.live
    BY ProxyAssumption DEF Protocol, Shape, Few
  <2> QED BY <2>3, <2>4, <2>5, ProxyAssumption
<1>4. f \in FDs /\ f > ListenFd /\ fds[f].kind = "free"
  BY <1>0, <1>3, FreeLeft
<1>5. f > 0
  BY <1>4, ProxyAssumption DEF FDs, ListenFd
<1>6. /\ th'[c].pc = "relay" /\ th'[c].sfd = f /\ fds' = [fds EXCEPT ![f] = Socket("server", c)]
      /\ UNCHANGED <<status, got>>
  BY <1>0, <1>1, <1>5 DEF Connect, Fields
<1>7. /\ Socket("server", c) \in Sockets /\ Socket("server", c).kind = "server"
      /\ Socket("server", c).conn = c /\ Socket("server", c).pos = 0
  BY ProxyAssumption DEF Socket, Sockets, Conns
<1>8. /\ fds' \in [FDs -> Sockets] /\ fds'[f] = Socket("server", c)
      /\ \A fd \in FDs : fd # f => fds'[fd] = fds[fd]
  BY <1>4, <1>6, <1>7 DEF Smooth
<1>9. OwnClient(c) /\ Answer(c)
  BY <1>1, <1>2 DEF Smooth
<1>10. th[c].object \in Objects /\ got[c] = <<>>
  BY <1>2, <1>9 DEF Answer, Relayed, Fills, Filling
<1>11. th[c].cfd # f
  BY <1>4, <1>9 DEF OwnClient, Socket
<1>12. OwnClient(c)'
  BY <1>1, <1>8, <1>9, <1>11 DEF OwnClient
<1>13. 0 \in 0..ChunkCount(th[c].object)
  BY <1>10, ChunkCountNat
<1>14. OwnServer(c)'
  BY <1>1, <1>4, <1>6, <1>7, <1>8, <1>13 DEF OwnServer
<1>15. Answer(c)'
  <2>1. Part(th[c].object, 0) = <<>>
    BY <1>10, <1>13, Parts
  <2> QED BY <1>1, <1>6, <1>7, <1>8, <1>10, <2>1 DEF Answer
<1>16. c \in Live' /\ th'[c].pc \in Connected /\ th'[c].pc # "none"
  BY <1>6 DEF Live, Connected
<1>17. Owned(f)'
  BY <1>6, <1>7, <1>8, <1>16 DEF Owned
<1>18. /\ DOMAIN got' = Conns /\ \A d \in Conns : d # c => got'[d] = got[d]
       /\ \A d \in Conns : th[d].pc = "none" => d > curr_time'
  BY <1>1, <1>6 DEF Smooth
<1> QED BY <1>1, <1>2, <1>4, <1>6, <1>8, <1>12, <1>14, <1>15, <1>16, <1>17, <1>18, OwnDescriptor

\* Rio_readnb and Rio_writen: the next chunk goes from the connection's own
\* server to its own client.
LEMMA CalmChunk ==
  ASSUME Faultless, Protocol, Filled, Smooth, NEW c \in Conns, serve(c), RelayChunk(c)
  PROVE  Smooth'
<1>0. PICK f, o, n : f = th[c].sfd /\ o = th[c].object /\ n = fds[th[c].sfd].pos
  OBVIOUS
<1>1. /\ Only(c) /\ DOMAIN th = Conns /\ DOMAIN th[c] = Fields /\ c \in Live
      /\ th'[c].object = o /\ th'[c].cfd = th[c].cfd
      /\ curr_time' = curr_time /\ curr_time \in Nat
  BY <1>0, ServeOnly DEF Filled, Sound, Live, Protocol, Shape
<1>2. th[c].pc = "relay" /\ th[c].pc \in Connected
  BY DEF RelayChunk, At, Connected
<1>3. OwnClient(c) /\ OwnServer(c) /\ Answer(c)
  BY <1>1, <1>2 DEF Smooth
<1>4. /\ f \in FDs /\ f > ListenFd /\ fds[f].kind = "server" /\ fds[f].conn = c
      /\ n \in 0..ChunkCount(o) /\ o \in Objects /\ got[c] = Part(o, n)
  BY <1>0, <1>2, <1>3 DEF OwnServer, Answer, Relayed, Fills, Filling
<1>5. n \in Nat /\ n + 1 \in Nat /\ Chunk(o, n + 1).n = n + 1 /\ Chunk(o, n + 1).object = o
  BY <1>4, ChunkCountNat DEF Chunk
<1>6. /\ n + 1 <= ChunkCount(o) /\ Write(th[c].cfd, <<Chunk(o, n + 1)>>)
      /\ fds' = [fds EXCEPT ![f].pos = n + 1]
  BY <1>0, <1>4, <1>5 DEF RelayChunk
<1>7. /\ fds[th[c].cfd].kind = "client" /\ fds[th[c].cfd].conn = c /\ Open(th[c].cfd)
  BY <1>3 DEF OwnClient, Socket, Open
<1>8. status' = status /\ got' = [got EXCEPT ![c] = @ \o <<Chunk(o, n + 1)>>]
  BY <1>6, <1>7 DEF Write, Faultless
<1>9. got'[c] = Part(o, n + 1) /\ DOMAIN got' = Conns /\ \A d \in Conns : d # c => got'[d] = got[d]
  <2>1. Part(o, n) \o <<Chunk(o, n + 1)>> = Part(o, n + 1)
    BY <1>4, Parts
  <2> QED BY <1>4, <1>8, <2>1 DEF Smooth
<1>10. th'[c].pc = "relay" /\ th'[c].sfd = f
  BY <1>0, <1>1, <1>2 DEF RelayChunk, Fields
<1>11. /\ fds' \in [FDs -> Sockets] /\ fds'[f].kind = "server" /\ fds'[f].conn = c
       /\ fds'[f].pos = n + 1 /\ \A fd \in FDs : fd # f => fds'[fd] = fds[fd]
  <2>1. fds \in [FDs -> Sockets] /\ fds[f] \in Sockets
    BY <1>4 DEF Smooth
  <2>2. [fds[f] EXCEPT !.pos = n + 1] \in Sockets
    BY <1>5, <2>1 DEF Sockets
  <2>3. fds' = [fds EXCEPT ![f] = [fds[f] EXCEPT !.pos = n + 1]]
    BY <1>6
  <2>4. fds'[f] = [fds[f] EXCEPT !.pos = n + 1]
    BY <1>4, <2>1, <2>3
  <2> QED BY <1>4, <2>1, <2>2, <2>3, <2>4 DEF Sockets
<1>12. th[c].cfd # f
  BY <1>4, <1>7
<1>13. OwnClient(c)'
  BY <1>1, <1>3, <1>11, <1>12 DEF OwnClient
<1>14. n + 1 \in 0..ChunkCount(o)
  BY <1>4, <1>5, <1>6, ChunkCountNat
<1>15. OwnServer(c)' /\ Answer(c)'
  BY <1>1, <1>4, <1>9, <1>10, <1>11, <1>14 DEF OwnServer, Answer
<1>16. c \in Live' /\ th'[c].pc \in Connected /\ th'[c].pc # "none"
  BY <1>10 DEF Live, Connected
<1>17. Owned(f)'
  BY <1>10, <1>11, <1>16 DEF Owned
<1>18. \A d \in Conns : th[d].pc = "none" => d > curr_time'
  BY <1>1 DEF Smooth
<1>19. f \in FDs => /\ f > ListenFd
                    /\ fds[f].kind = "free" \/ fds[f].conn = c
                    /\ fds'[f].kind # "free" \/ fds'[f].conn # 0 => Owned(f)'
  BY <1>4, <1>17
<1>20. th[c].sfd = f /\ status' = status
  BY <1>0, <1>8
<1> QED BY <1>1, <1>13, <1>15, <1>16, <1>18, <1>19, <1>20, <1>9, <1>11, OwnDescriptor

\* The end of the response, and everything up to the first Close.
LEMMA CalmFill ==
  ASSUME Faultless, Protocol, Filled, Smooth, NEW c \in Conns, serve(c),
         \/ RelayEnd(c) \/ ChooseLine(c) \/ WriteContent(c) \/ WriteTimestamp(c)
         \/ WriteHash(c) \/ WriteValid(c)
  PROVE  Smooth'
<1>1. /\ Only(c) /\ DOMAIN th = Conns /\ DOMAIN th[c] = Fields /\ c \in Live
      /\ th'[c].object = th[c].object
  BY ServeOnly DEF Filled, Sound, Live
<1> USE DEF Connected, Relayed, Fills, Filling
<1>2. CASE RelayEnd(c)
  <2>1. th[c].pc = "relay"
    BY <1>2 DEF RelayEnd, At
  <2>2. OwnServer(c) /\ Answer(c)
    BY <1>1, <2>1 DEF Smooth
  <2>3. /\ Open(th[c].sfd) /\ fds[th[c].sfd].kind = "server" /\ fds[th[c].sfd].conn = c
    BY <2>2 DEF OwnServer, Open
  <2>4. /\ fds[th[c].sfd].pos = ChunkCount(th[c].object) /\ Fetched(c, th[c].sfd)
        /\ UNCHANGED <<status, fds, got>>
    BY <1>2, <2>3 DEF RelayEnd, Faultless
  <2>5. th'[c].pc \in {"choose", "close"} /\ th'[c].sfd = th[c].sfd
    BY <1>1, <2>4 DEF Fetched, Fields
  <2>6. got[c] = Whole(th[c].object) /\ th[c].object \in Objects
    <3>1. /\ got[c] = Part(th[c].object, ChunkCount(th[c].object)) /\ th[c].object \in Objects
      BY <2>1, <2>2, <2>4 DEF Answer
    <3>2. ChunkCount(th[c].object) \in 0..ChunkCount(th[c].object)
      BY <3>1, ChunkCountNat
    <3> QED BY <3>1, <3>2, Parts
  <2>7. Answer(c)'
    BY <1>1, <2>4, <2>5, <2>6 DEF Answer
  <2> QED BY <2>1, <2>4, <2>5, <2>7, NoDescriptor
<1>3. CASE \/ ChooseLine(c) \/ WriteContent(c) \/ WriteTimestamp(c)
           \/ WriteHash(c) \/ WriteValid(c)
  <2>1. /\ UNCHANGED <<status, fds, got>> /\ th'[c].sfd = th[c].sfd
        /\ th[c].pc \in Fills /\ th'[c].pc \in Relayed
    BY <1>1, <1>3, ZenonT(40) DEF ChooseLine, WriteContent, WriteTimestamp, WriteHash, WriteValid, At,
                      Goto, Fields
  <2>2. Answer(c)
    BY <2>1 DEF Smooth
  <2>3. Answer(c)'
    BY <1>1, <2>1, <2>2 DEF Answer
  <2> QED BY <2>1, <2>3, NoDescriptor
<1> QED BY <1>2, <1>3

\* Both descriptors are closed, each by the thread it belongs to.
LEMMA CalmClose ==
  ASSUME Faultless, Protocol, Filled, Smooth, NEW c \in Conns, serve(c),
         CloseServer(c) \/ CloseClient(c)
  PROVE  Smooth'
<1>1. /\ Only(c) /\ DOMAIN th = Conns /\ DOMAIN th[c] = Fields /\ c \in Live
      /\ th'[c].object = th[c].object /\ th'[c].cfd = th[c].cfd
      /\ curr_time' = curr_time /\ curr_time \in Nat /\ th[c].pc # "none"
  BY ServeOnly DEF Filled, Sound, Live, Protocol, Shape
<1>2. OwnClient(c) /\ Answer(c)
  BY <1>1 DEF Smooth
<1>3. /\ fds[th[c].cfd].kind = "client" /\ fds[th[c].cfd].conn = c /\ Open(th[c].cfd)
      /\ th[c].cfd \in FDs /\ th[c].cfd > ListenFd
  BY <1>2 DEF OwnClient, Socket, Open
<1>4. Free \in Sockets /\ Free.kind = "free" /\ Free.conn = 0
  BY ProxyAssumption DEF Free, Sockets
<1>5. \A d \in Conns : th[d].pc = "none" => d > curr_time'
  BY <1>1 DEF Smooth
<1>6. CASE CloseServer(c)
  <2>0. PICK f : f = th[c].sfd
    OBVIOUS
  <2>1. th[c].pc = "close" /\ Close(c, f, "closed")
    BY <1>6, <2>0 DEF CloseServer, At
  <2>2. /\ f \in FDs /\ f > ListenFd /\ fds[f].kind = "server" /\ fds[f].conn = c
    <3>1. OwnServer(c)
      BY <2>1 DEF Smooth, Connected, Relayed
    <3> QED BY <2>0, <3>1 DEF OwnServer
  <2>3. /\ fds' = [fds EXCEPT ![f] = Free] /\ th' = [th EXCEPT ![c].pc = "closed"]
        /\ UNCHANGED <<status, got>>
    BY <2>1, <2>2 DEF Close, Open, Goto
  <2>4. /\ fds' \in [FDs -> Sockets] /\ fds'[f] = Free
        /\ \A fd \in FDs : fd # f => fds'[fd] = fds[fd]
    BY <1>4, <2>2, <2>3 DEF Smooth
  <2>5. th'[c].pc = "closed" /\ c \in Live' /\ th[c].cfd # f
    BY <1>1, <1>3, <2>2, <2>3 DEF Fields, Live
  <2>6. OwnClient(c)'
    BY <1>1, <1>2, <1>3, <2>4, <2>5 DEF OwnClient
  <2>7. Answer(c)'
    <3>1. got[c] = Whole(th[c].object) /\ th[c].object \in Objects
      BY <1>2, <2>1 DEF Answer
    <3> QED BY <1>1, <2>3, <2>5, <3>1 DEF Answer
  <2>8. th'[c].pc \notin Connected
    BY <2>5 DEF Connected, Relayed, Fills, Filling
  <2>9. DOMAIN got' = Conns /\ \A d \in Conns : d # c => got'[d] = got[d]
    BY <2>3 DEF Smooth
  <2> QED BY <1>1, <1>4, <1>5, <2>0, <2>2, <2>3, <2>4, <2>5, <2>6, <2>7, <2>8, <2>9, OwnDescriptor
<1>7. CASE CloseClient(c)
  <2>0. PICK f : f = th[c].cfd
    OBVIOUS
  <2>1. th[c].pc = "closed" /\ Close(c, f, "done")
    BY <1>7, <2>0 DEF CloseClient, At
  <2>2. /\ fds' = [fds EXCEPT ![f] = Free] /\ th' = [th EXCEPT ![c].pc = "done"]
        /\ UNCHANGED <<status, got>>
    BY <1>3, <2>0, <2>1 DEF Close, Goto
  <2>3. /\ fds' \in [FDs -> Sockets] /\ fds'[f] = Free
        /\ \A fd \in FDs : fd # f => fds'[fd] = fds[fd]
    BY <1>3, <1>4, <2>0, <2>2 DEF Smooth
  <2>4. th'[c].pc = "done" /\ c \notin Live'
    BY <1>1, <2>2 DEF Fields, Live
  <2>5. Answer(c)'
    <3>1. got[c] = Whole(th[c].object) /\ th[c].object \in Objects
      BY <1>2, <2>1 DEF Answer
    <3> QED BY <1>1, <2>2, <2>4, <3>1 DEF Answer
  <2>6. th'[c].pc \notin Connected /\ th[c].pc \notin Connected
    BY <2>1, <2>4 DEF Connected, Relayed, Fills, Filling
  <2>7. DOMAIN got' = Conns /\ \A d \in Conns : d # c => got'[d] = got[d]
    BY <2>2 DEF Smooth
  <2> QED BY <1>1, <1>3, <1>4, <1>5, <2>0, <2>2, <2>3, <2>4, <2>5, <2>6, <2>7, OwnDescriptor
<1> QED BY <1>6, <1>7

-----------------------------------------------------------------------------
LEMMA CalmStep ==
  Faultless /\ Protocol /\ Filled /\ Unfilled /\ Few /\ Calm /\ [Next]_vars => Calm'
<1> SUFFICES ASSUME Faultless, Protocol, Filled, Unfilled, Few, Calm, [Next]_vars, Hits' = {}
             PROVE  Smooth'
  BY DEF Calm
<1>1. Smooth /\ Hits = {} /\ Unfilled'
  BY HitsStay, UnfilledStep DEF Calm
<1>2. CASE UNCHANGED vars
  BY <1>1, <1>2 DEF vars, Smooth, Owned, OwnClient, OwnServer, Answer, Live
<1>3. ASSUME NEW o \in load.objects, NEW stack, Accept(o, stack), UNCHANGED load PROVE Smooth'
  BY <1>1, <1>3, CalmAccept
<1>4. ASSUME NEW c \in Conns, serve(c), UNCHANGED load PROVE Smooth'
  <2>1. th[c].pc \notin OnHit
    BY <1>1, <1>4, NoHit
  <2>2. th'[c].pc \notin OnHit
    BY <1>1, <1>4 DEF Unfilled, Hits, In, OnHit
  <2>3. ~TouchLock(c) /\ ~TouchUnlock(c) /\ ~ReaderCount(c) /\ ~ReaderEnter(c)
        /\ ~SendCached(c) /\ ~ReaderLeave(c)
    BY <2>1 DEF TouchLock, TouchUnlock, ReaderCount, ReaderEnter, SendCached, ReaderLeave, At, OnHit
  <2>4. ~ConnectFails(c)
    BY DEF ConnectFails, Faultless
  <2> QED BY <1>1, <1>4, <2>2, <2>3, <2>4, CalmLookup, CalmConnect, CalmChunk, CalmFill, CalmClose
          DEF serve
<1> QED BY <1>2, <1>3, <1>4 DEF Next, main

\* When no server refuses, every method is GET and nobody leaves, and until a
\* request is a hit (proxy.c:189, which closes at :263 what it never opened):
\* the process lives, every client gets its own object's bytes in order, all of
\* them once it is served, and no descriptor outlives its connection.
THEOREM MissesServed ==
  ASSUME Failing = {}, Malformed = {}, Leaving = {}
  PROVE  Spec => []Undisturbed
<1> DEFINE Inv == Protocol /\ Filled /\ Unfilled /\ Few /\ Calm
<1>1. Init => Inv
  BY ProtocolInit, FilledInit, UnfilledInit, FewInit, CalmInit
<1>2. Inv /\ [Next]_vars => Inv'
  BY ProtocolStep, FilledStep, UnfilledStep, FewStep, CalmStep DEF Faultless
<1>3. Inv => Undisturbed
  BY CalmSuffices
<1> QED BY <1>1, <1>2, <1>3, PTL DEF Spec
=============================================================================
