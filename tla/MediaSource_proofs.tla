-------------------------- MODULE MediaSource_proofs --------------------------
(***************************************************************************)
(* Theorems about MediaSource.  What is registered under a name was        *)
(* published under it by a session that is there and will take it out, the *)
(* publisher that a source speaks through outlives that, a player hears    *)
(* only what it has asked for, and whoever may use a source holds a        *)
(* reference to it and nobody else does.                                   *)
(***************************************************************************)
EXTENDS MediaSource, FiniteSetTheorems, TLAPS

-----------------------------------------------------------------------------
(* The invariant, part by part.  Each part speaks of every session, or of    *)
(* every source.                                                             *)

\* The types, with counts that might go below zero.
Types ==
    /\ NetOK /\ HandlersOK /\ RegistryOK /\ MediaOK
    /\ ss \in [Sessions -> SessionFields(Int)]
    /\ md \in [Sessions -> SourceFields(Int)]

\* The source of m was created: its session got past Create.
Made(m) == /\ ss[m].srcCtx /\ th[m].pc \notin {"exist", "kick", "create"}
           /\ th[m].op # "kick"

\* Which handler runs says what else the thread holds: the registry's lock while
\* it closes the source of another, a source to close, a session that has ended.
HandlerOf(s) ==
    /\ th[s].pc = "idle" => th[s].op = None /\ th[s].src = None
    /\ th[s].pc \in {"exist", "kick", "create", "add", "attach",
                     "find", "opened", "join", "joinAdd"} => th[s].op = None
    /\ th[s].pc \in {"kickTest", "kickForce", "crashed"} => th[s].op = "kick"
    /\ th[s].pc = "closeSrc" => th[s].op \in {"kick", "replace"}
    /\ th[s].pc \in {"closeAll", "drain", "closed"} => th[s].op # None
    /\ th[s].pc \in {"clear", "unregister", "leave"} => th[s].op = "end"
    /\ th[s].op \in {"kick", "replace"} <=> lock = s
    /\ th[s].op # None <=> th[s].target # None
    /\ th[s].op = "end" => ss[s].onClose /\ th[s].target = ss[s].mdsrc
    /\ th[s].pc # "idle" /\ th[s].op # "end" => ~ss[s].onClose
HandlerInv == \A s \in Sessions : HandlerOf(s)

\* What a handler knows of its own session.
StageOf(s) ==
    /\ th[s].pc \in {"exist", "kick", "create"} \/ th[s].op = "kick" =>
         ss[s].srcCtx /\ ss[s].valid /\ ss[s].mdsrc = None
    /\ th[s].pc \in {"add", "attach"} \/ th[s].op = "replace" =>
         ss[s].srcCtx /\ ss[s].valid /\ ss[s].mdsrc = s
    /\ th[s].op = "end" /\ th[s].pc # "leave" => ss[s].srcCtx /\ ss[s].valid
    /\ th[s].pc = "leave" => ~ss[s].srcCtx
    /\ th[s].pc \in {"find", "opened", "join", "joinAdd"} => ~ss[s].srcCtx
    /\ ss[s].valid \/ th[s].pc \in {"find", "opened"} => ss[s].stream # None
    /\ th[s].pc = "find" => ss[s].mdsrc = None
    /\ th[s].pc \in {"opened", "join", "joinAdd"} => th[s].src \in {None, ss[s].mdsrc}
    /\ th[s].pc \in {"join", "joinAdd"} => th[s].src # None
    /\ th[s].pc = "joinAdd" => ~ss[s].inMd
StageInv == \A s \in Sessions : StageOf(s)

\* A session publishes once, is closed last, and is destroyed after that.
LifeOf(s) ==
    /\ \A i \in 1..Len(inbox[s]) :
         /\ inbox[s][i].kind = "publish" =>
              /\ ~ss[s].srcCtx /\ s \in called
              /\ \A j \in 1..Len(inbox[s]) : inbox[s][j].kind = "publish" => j = i
         /\ inbox[s][i].kind = "close" => i = Len(inbox[s]) /\ conn[s] = "closed"
    /\ ss[s].onClose => inbox[s] = <<>> /\ conn[s] = "closed"
    /\ ss[s].srcCtx => s \in called
    /\ ~ss[s].alive => ss[s].onClose /\ th[s].pc = "idle" /\ ss[s].mdsrc = None
LifeInv == \A s \in Sessions : LifeOf(s)

\* A player is in the list of its source, and in no other; a publisher is in none.
PlayerOf(s) ==
    /\ ss[s].srcCtx => ss[s].mdsrc \in {None, s} /\ ~ss[s].playing
    /\ ss[s].inMd => ss[s].mdsrc # None /\ ss[s].playing
    /\ ss[s].listRefs = IF ss[s].inMd THEN 1 ELSE 0
PlayerInv ==
    /\ \A s \in Sessions : PlayerOf(s)
    /\ \A m, p \in Sessions : p \in md[m].clients <=> ss[p].inMd /\ ss[p].mdsrc = m

\* Sources that differ at most in the count of references.
Alike(r, q) ==
    /\ r.ctxSrc = q.ctxSrc
    /\ r.closedAll = q.closedAll
    /\ r.rtmp = q.rtmp
    /\ r.inited = q.inited
    /\ r.clients = q.clients
    /\ r.replaced = q.replaced

\* Only what was created is used, and only its own session speaks for it.
SourceOf(s) ==
    /\ ss[s].mdsrc # None => Made(ss[s].mdsrc)
    /\ th[s].src # None => Made(th[s].src)
    /\ \A i \in 1..Len(inbox[s]) : inbox[s][i].src # None => Made(inbox[s][i].src)
ContextOf(m) ==
    /\ ~Made(m) => Alike(md[m], NoSource) /\ frames[m] = <<>>
    /\ md[m].ctxSrc # None => md[m].ctxSrc = m /\ ss[m].mdsrc = m /\ ss[m].valid
    /\ ss[m].mdsrc = m /\ md[m].ctxSrc = None => ss[m].onClose
SourceInv == \A s \in Sessions : SourceOf(s) /\ ContextOf(s)

\* Who is registered, and who is about to lose the name.
Entered(m) == ss[m].attached \/ th[m].pc = "attach"
Holding(t, m) == th[t].op \in {"kick", "replace"} /\ th[t].target = m
ClaimOf(s) ==
    /\ ss[s].attached => ss[s].srcCtx /\ ss[s].valid /\ ss[s].mdsrc = s
    /\ ss[s].attached => th[s].pc \notin {"add", "attach"} /\ th[s].op # "replace"
    /\ ss[s].attached /\ ss[s].onClose => th[s].pc \in {"clear", "unregister"}
    /\ th[s].pc = "add" \/ th[s].op = "replace" => ~md[s].closedAll
EntryOf(s) ==
    /\ th[s].op = "replace" => streams[ss[s].stream] = th[s].target
    /\ Entered(s) /\ streams[ss[s].stream] # s =>
         ss[s].closing \/ ss[s].onClose \/ \E t \in Sessions : Holding(t, s)
NameOf(n) == streams[n] # None => Entered(streams[n]) /\ ss[streams[n]].stream = n
HeldBy(t, m) ==
    Holding(t, m) =>
      /\ Entered(m)
      /\ th[t].pc \in {"closeAll", "drain", "closed"} => ss[m].closing \/ ss[m].onClose
ReplacedOf(m) ==
    md[m].replaced => /\ Made(m) /\ th[m].pc # "add" /\ th[m].op # "replace"
                      /\ \A n \in Keys : streams[n] # m
RegistryInv ==
    /\ \A s \in Sessions : ClaimOf(s) /\ EntryOf(s) /\ ReplacedOf(s)
    /\ \A t, m \in Sessions : HeldBy(t, m)
    /\ \A n \in Keys : NameOf(n)

\* What a player has asked for is what its source was published as.
Asked(p, n) == \E i \in 1..Len(asked[p]) : asked[p][i] = n
PlayOf(p) ==
    /\ ss[p].mdsrc # None /\ ~ss[p].srcCtx => Asked(p, ss[ss[p].mdsrc].stream)
    /\ th[p].pc = "find" => Asked(p, ss[p].stream)
    /\ \A i \in 1..Len(inbox[p]) : inbox[p][i].kind = "play" =>
         /\ Asked(p, inbox[p][i].name)
         /\ inbox[p][i].src # None => ss[p].srcCtx \/ ss[p].mdsrc = inbox[p][i].src
PassedOf(m) == m \in passed => frames[m] # <<>> /\ Head(frames[m]) = m
HeardOf(ph) == Made(ph[2]) /\ Asked(ph[1], ss[ph[2]].stream)
HearingInv ==
    /\ \A s \in Sessions : PlayOf(s) /\ PassedOf(s)
    /\ \A ph \in heard : HeardOf(ph)

Inv == /\ HandlerInv /\ StageInv /\ LifeInv /\ PlayerInv /\ SourceInv
       /\ RegistryInv /\ HearingInv

USE ConstantsAssumption

-----------------------------------------------------------------------------
(* What each handler does to the thread, to the sessions and to the sources, *)
(* field by field; the counts of references are the subject of a later part. *)

ThreadAt(s, p, o, x, g) ==
    /\ th' \in [Sessions -> Handling]
    /\ \A t \in Sessions \ {s} : th'[t] = th[t]
    /\ th'[s].pc = p /\ th'[s].op = o /\ th'[s].src = x /\ th'[s].target = g
ThreadTo(s, p) == ThreadAt(s, p, th[s].op, th[s].src, th[s].target)
ThreadDone(s) == ThreadAt(s, "idle", None, None, None)

\* Of all sessions only s changes, and of its fields only those of F.
SessionBut(s, F) ==
    /\ ss' \in [Sessions -> SessionFields(Int)]
    /\ \A t \in Sessions \ {s} : ss'[t] = ss[t]
    /\ "stream" \in F \/ ss'[s].stream = ss[s].stream
    /\ "mdsrc" \in F \/ ss'[s].mdsrc = ss[s].mdsrc
    /\ "srcCtx" \in F \/ ss'[s].srcCtx = ss[s].srcCtx
    /\ "valid" \in F \/ ss'[s].valid = ss[s].valid
    /\ "attached" \in F \/ ss'[s].attached = ss[s].attached
    /\ "closing" \in F \/ ss'[s].closing = ss[s].closing
    /\ "onClose" \in F \/ ss'[s].onClose = ss[s].onClose
    /\ "playing" \in F \/ ss'[s].playing = ss[s].playing
    /\ "inMd" \in F \/ ss'[s].inMd = ss[s].inMd
    /\ "listRefs" \in F \/ ss'[s].listRefs = ss[s].listRefs
    /\ "alive" \in F \/ ss'[s].alive = ss[s].alive

NoSourceBut ==
    /\ md' \in [Sessions -> SourceFields(Int)]
    /\ \A x \in Sessions : Alike(md'[x], md[x])

\* Of all sources only m changes, and of its fields only those of F and refs.
SourceBut(m, F) ==
    /\ md' \in [Sessions -> SourceFields(Int)]
    /\ \A x \in Sessions \ {m} : Alike(md'[x], md[x])
    /\ "ctxSrc" \in F \/ md'[m].ctxSrc = md[m].ctxSrc
    /\ "closedAll" \in F \/ md'[m].closedAll = md[m].closedAll
    /\ "rtmp" \in F \/ md'[m].rtmp = md[m].rtmp
    /\ "inited" \in F \/ md'[m].inited = md[m].inited
    /\ "clients" \in F \/ md'[m].clients = md[m].clients
    /\ "replaced" \in F \/ md'[m].replaced = md[m].replaced

\* Connections may be closing, but none ends.
NoneEnds ==
    /\ conn' \in [Sessions -> {"open", "last", "closing", "closed"}]
    /\ \A t \in Sessions : conn'[t] = "closed" <=> conn[t] = "closed"

LEMMA CountedKeeps ==
  ASSUME NEW d \in [Sessions -> SourceFields(Int)], NEW x \in Sessions \cup {None}, NEW k \in Int
  PROVE  /\ Counted(d, x, k) \in [Sessions -> SourceFields(Int)]
         /\ \A m \in Sessions : Alike(Counted(d, x, k)[m], d[m])
  <1>1. CASE x = None
    BY <1>1 DEF Counted, Alike
  <1>2. CASE x # None
    <2>1. Counted(d, x, k) = [d EXCEPT ![x].refs = @ + k]
      BY <1>2 DEF Counted
    <2>2. QED
      BY <1>2, <2>1 DEF SourceFields, Alike
  <1>3. QED
    BY <1>1, <1>2

LEMMA CountedOnce ==
  ASSUME Types, NEW x \in Sessions \cup {None}, NEW k \in Int, md' = Counted(md, x, k)
  PROVE  NoSourceBut
  BY CountedKeeps DEF Types, NoSourceBut

LEMMA CountedTwice ==
  ASSUME Types, NEW x \in Sessions \cup {None}, NEW j \in Int, NEW y \in Sessions \cup {None},
         NEW k \in Int, md' = Counted(Counted(md, x, j), y, k)
  PROVE  NoSourceBut
  <1> DEFINE d == Counted(md, x, j)
  <1>1. /\ d \in [Sessions -> SourceFields(Int)]
        /\ \A m \in Sessions : Alike(d[m], md[m])
    BY CountedKeeps DEF Types
  <1>2. md' = Counted(d, y, k)
    OBVIOUS
  <1> HIDE DEF d
  <1>3. /\ md' \in [Sessions -> SourceFields(Int)]
        /\ \A m \in Sessions : Alike(md'[m], d[m])
    BY <1>1, <1>2, CountedKeeps
  <1>4. QED
    BY <1>1, <1>3 DEF NoSourceBut, Alike

\* One session, or one thread, is given other fields.
LEMMA SessionStep ==
  ASSUME ss \in [Sessions -> SessionFields(Int)], NEW s \in Sessions,
         NEW r \in SessionFields(Int), ss' = [ss EXCEPT ![s] = r]
  PROVE  /\ ss' \in [Sessions -> SessionFields(Int)] /\ ss'[s] = r
         /\ \A t \in Sessions \ {s} : ss'[t] = ss[t]
  OBVIOUS

LEMMA ThreadStep ==
  ASSUME th \in [Sessions -> Handling], NEW s \in Sessions, NEW r \in Handling,
         th' = [th EXCEPT ![s] = r],
         NEW p, NEW o, NEW x, NEW g, r.pc = p, r.op = o, r.src = x, r.target = g
  PROVE  ThreadAt(s, p, o, x, g)
  BY DEF ThreadAt

LEMMA StepTo ==
  ASSUME th \in [Sessions -> Handling], NEW s \in Sessions,
         NEW p \in {"closeAll", "drain", "closed", "create", "attach", "closeSrc", "kickForce",
                    "crashed", "join", "joinAdd", "unregister"},
         Step(s, p)
  PROVE  ThreadTo(s, p)
  <1>1. th[s] \in Handling
    OBVIOUS
  <1>2. [th[s] EXCEPT !.pc = p] \in Handling
    BY <1>1 DEF Handling
  <1>3. th' = [th EXCEPT ![s] = [th[s] EXCEPT !.pc = p]]
    BY DEF Step
  <1>4. /\ [th[s] EXCEPT !.pc = p].pc = p /\ [th[s] EXCEPT !.pc = p].op = th[s].op
        /\ [th[s] EXCEPT !.pc = p].src = th[s].src
        /\ [th[s] EXCEPT !.pc = p].target = th[s].target
    BY <1>1 DEF Handling
  <1>5. ThreadAt(s, p, th[s].op, th[s].src, th[s].target)
    BY <1>2, <1>3, <1>4, ThreadStep
  <1>6. QED
    BY <1>5 DEF ThreadTo

LEMMA Finished ==
  ASSUME Types, NEW s \in Sessions, NEW d \in [Sessions -> SourceFields(Int)], Finish(s, d)
  PROVE  /\ ThreadDone(s) /\ md' \in [Sessions -> SourceFields(Int)]
         /\ \A m \in Sessions : Alike(md'[m], d[m])
  <1>1. th[s].src \in Sessions \cup {None} /\ md' = Counted(d, th[s].src, -1)
    BY DEF Types, HandlersOK, Handling, Finish
  <1>2. Idle \in Handling /\ th' = [th EXCEPT ![s] = Idle]
    BY DEF Handling, Idle, Finish
  <1>3. ThreadDone(s)
    BY <1>2, ThreadStep DEF Types, HandlersOK, ThreadDone, Idle
  <1>4. QED
    BY <1>1, <1>3, CountedKeeps

\* CloseConnection ends no connection, it is ended by the network thread.
LEMMA ClosingEndsNone ==
  ASSUME NetOK, NEW S \in SUBSET Sessions, conn' = Closing(S)
  PROVE  NoneEnds
  BY DEF NetOK, NoneEnds, Closing

LEMMA ConnKept ==
  ASSUME NetOK, conn' = conn
  PROVE  NoneEnds
  BY DEF NetOK, NoneEnds

LEMMA TakenEffect ==
  ASSUME Types, NEW s \in Sessions, NEW k, IsNext(s, k), Taken(s)
  PROVE  /\ th[s].pc = "idle" /\ inbox[s] # <<>> /\ Len(inbox[s]) > 0
         /\ Head(inbox[s]) = inbox[s][1] /\ Head(inbox[s]) \in Events
         /\ Head(inbox[s]).kind = k
         /\ inbox' \in [Sessions -> Seq(Events)] /\ Len(inbox'[s]) = Len(inbox[s]) - 1
         /\ \A i \in 1..Len(inbox'[s]) : inbox'[s][i] = inbox[s][i + 1]
         /\ \A t \in Sessions \ {s} : inbox'[t] = inbox[t]
  <1>1. inbox[s] \in Seq(Events) /\ inbox \in [Sessions -> Seq(Events)]
    BY DEF Types, NetOK
  <1>2. inbox'[s] = Tail(inbox[s]) /\ inbox' = [inbox EXCEPT ![s] = Tail(inbox[s])]
    BY <1>1 DEF Taken
  <1>3. inbox[s] # <<>> /\ th[s].pc = "idle" /\ Head(inbox[s]).kind = k
    BY DEF IsNext
  <1>4. QED
    BY <1>1, <1>2, <1>3

LEMMA PostEffect ==
  ASSUME Types, NEW s \in Sessions, NEW k \in {"publish", "play", "close"},
         NEW n \in Names \cup {None}, Post(s, k, n)
  PROVE  /\ inbox' \in [Sessions -> Seq(Events)] /\ Len(inbox'[s]) = Len(inbox[s]) + 1
         /\ \A i \in 1..Len(inbox[s]) : inbox'[s][i] = inbox[s][i]
         /\ inbox'[s][Len(inbox'[s])] = Event(k, n, ss[s].mdsrc)
         /\ \A t \in Sessions \ {s} : inbox'[t] = inbox[t]
         /\ NoSourceBut
  <1>1. /\ inbox[s] \in Seq(Events) /\ inbox \in [Sessions -> Seq(Events)]
        /\ ss[s].mdsrc \in Sessions \cup {None} /\ md \in [Sessions -> SourceFields(Int)]
    BY DEF Types, NetOK, SessionFields
  <1> DEFINE e == Event(k, n, ss[s].mdsrc)
  <1>2. e \in Events
    BY <1>1 DEF Events, Event
  <1>3. inbox' = [inbox EXCEPT ![s] = Append(inbox[s], e)]
    BY <1>1 DEF Post
  <1> HIDE DEF e
  <1>4. inbox'[s] = Append(inbox[s], e)
    BY <1>1, <1>3
  <1>5. NoSourceBut
    <2>1. md' = Counted(md, ss[s].mdsrc, 1)
      BY DEF Post
    <2>2. ss[s].mdsrc \in Sessions \cup {None} /\ 1 \in Int
      BY <1>1
    <2>3. QED
      BY ONLY Types, <2>1, <2>2, CountedOnce
  <1>6. QED
    BY <1>1, <1>2, <1>3, <1>4, <1>5 DEF e

\* An event that is refused has no effect but on the connection.
LEMMA RefusedEffect ==
  ASSUME Types, NEW s \in Sessions, NEW k, IsNext(s, k), Taken(s), Refused(s)
  PROVE  NoneEnds /\ NoSourceBut /\ UNCHANGED th
  <1>1. Head(inbox[s]).src \in Sessions \cup {None}
    BY TakenEffect DEF Events
  <1>2. NoneEnds
    BY ClosingEndsNone DEF Types, Refused
  <1>3. QED
    BY SMTT(60), <1>1, <1>2, CountedKeeps DEF Types, Refused, NoSourceBut

LEMMA PublishEffect ==
  ASSUME Types, NEW s \in Sessions, Publish(s)
  PROVE  /\ IsNext(s, "publish") /\ Taken(s) /\ NoneEnds /\ NoSourceBut
         /\ UNCHANGED <<called, released, asked, streams, lock, media>>
         /\ \/ ss[s].playing /\ UNCHANGED <<ss, th>>
            \/ /\ ~ss[s].playing /\ UNCHANGED th /\ SessionBut(s, {"srcCtx", "mdsrc"})
               /\ ss'[s].srcCtx /\ ss'[s].mdsrc = None
            \/ /\ ~ss[s].playing /\ SessionBut(s, {"srcCtx", "mdsrc", "stream", "valid"})
               /\ ss'[s].srcCtx /\ ss'[s].mdsrc = None /\ ss'[s].valid
               /\ ss'[s].stream \in Names
               /\ \E p \in {"kick", "exist"} :
                    ThreadAt(s, p, th[s].op, Head(inbox[s]).src, th[s].target)
  <1> DEFINE e == Head(inbox[s])
  <1>1. /\ IsNext(s, "publish") /\ Taken(s) /\ e \in Events
        /\ UNCHANGED <<called, released, asked, streams, lock, media>>
    BY TakenEffect DEF Publish
  <1>2. /\ e.src \in Sessions \cup {None} /\ e.name \in Names \cup {None}
        /\ ss[s] \in SessionFields(Int) /\ ss \in [Sessions -> SessionFields(Int)]
        /\ md \in [Sessions -> SourceFields(Int)] /\ ss[s].mdsrc \in Sessions \cup {None}
        /\ th[s] \in Handling /\ th \in [Sessions -> Handling]
    BY <1>1 DEF Types, Events, SessionFields, HandlersOK
  <1>3. CASE ss[s].playing
    BY <1>1, <1>3, RefusedEffect DEF Publish
  <1>4. CASE ~ss[s].playing /\ e.name = None
    <2> DEFINE r == [ss[s] EXCEPT !.srcCtx = TRUE, !.mdsrc = None]
    <2>1. /\ r \in SessionFields(Int) /\ ss' = [ss EXCEPT ![s] = r] /\ th' = th
          /\ conn' = Closing({s})
          /\ md' = Counted(Counted(md, e.src, -1), ss[s].mdsrc, -1)
      <3>1. r \in SessionFields(Int)
        BY <1>2 DEF SessionFields
      <3>2. ss' = [ss EXCEPT ![s].srcCtx = TRUE, ![s].mdsrc = None]
        BY <1>4 DEF Publish
      <3>3. ss' = [ss EXCEPT ![s] = r]
        BY <1>2, <3>2
      <3>4. QED
        BY <1>4, <3>1, <3>3 DEF Publish
    <2>2. NoneEnds
      BY <2>1, ClosingEndsNone DEF Types
    <2>3. NoSourceBut
      BY <1>2, <2>1, CountedTwice
    <2>4. SessionBut(s, {"srcCtx", "mdsrc"}) /\ ss'[s].srcCtx /\ ss'[s].mdsrc = None
      <3>1. /\ ss' \in [Sessions -> SessionFields(Int)] /\ ss'[s] = r
            /\ \A t \in Sessions \ {s} : ss'[t] = ss[t]
        BY <1>2, <2>1, SessionStep
      <3>2. QED
        BY <1>2, <3>1 DEF SessionBut, SessionFields
    <2>5. QED
      BY <1>1, <1>4, <2>1, <2>2, <2>3, <2>4
  <1>5. CASE ~ss[s].playing /\ e.name # None
    <2> DEFINE r == [ss[s] EXCEPT !.srcCtx = TRUE, !.mdsrc = None, !.stream = e.name,
                                  !.valid = TRUE]
    <2>1. /\ r \in SessionFields(Int) /\ ss' = [ss EXCEPT ![s] = r]
          /\ conn' = conn /\ md' = Counted(md, ss[s].mdsrc, -1)
      BY <1>2, <1>5 DEF Publish, SessionFields, Keys
    <2>2. PICK p \in {"kick", "exist"} :
             th' = [th EXCEPT ![s] = [th[s] EXCEPT !.src = e.src, !.pc = p]]
      BY <1>2, <1>5 DEF Publish
    <2>3. ThreadAt(s, p, th[s].op, e.src, th[s].target)
      <3> DEFINE q == [th[s] EXCEPT !.src = e.src, !.pc = p]
      <3>1. /\ q \in Handling /\ q.pc = p /\ q.op = th[s].op /\ q.src = e.src
            /\ q.target = th[s].target
        BY <1>2 DEF Handling
      <3>2. th' = [th EXCEPT ![s] = q]
        BY <2>2
      <3> HIDE DEF q
      <3>3. QED
        BY <1>2, <3>1, <3>2, ThreadStep
    <2>4. NoneEnds /\ NoSourceBut
      <3>1. NoneEnds
        BY <2>1, ConnKept DEF Types
      <3>2. NoSourceBut
        BY <1>2, <2>1, CountedOnce
      <3>3. QED
        BY <3>1, <3>2
    <2>5. /\ SessionBut(s, {"srcCtx", "mdsrc", "stream", "valid"}) /\ ss'[s].srcCtx
          /\ ss'[s].mdsrc = None /\ ss'[s].valid /\ ss'[s].stream = e.name
      <3>1. /\ ss' \in [Sessions -> SessionFields(Int)] /\ ss'[s] = r
            /\ \A t \in Sessions \ {s} : ss'[t] = ss[t]
        BY <1>2, <2>1, SessionStep
      <3>2. QED
        BY <1>2, <3>1 DEF SessionBut, SessionFields
    <2>6. QED
      BY <1>1, <1>2, <1>5, <2>3, <2>4, <2>5
  <1>6. QED
    BY <1>3, <1>4, <1>5

LEMMA IsExistEffect ==
  ASSUME Types, NEW s \in Sessions, IsExist(s), ss[s].stream # None
  PROVE  /\ th[s].pc = "exist" /\ lock = None /\ ThreadTo(s, "create")
         /\ UNCHANGED <<net, inbox, md, streams, lock, media>>
         /\ SessionBut(s, {"stream"})
         /\ ss'[s].stream # None
  <1>1. /\ ss[s] \in SessionFields(Int) /\ ss \in [Sessions -> SessionFields(Int)]
        /\ th \in [Sessions -> Handling]
    BY DEF Types, HandlersOK
  <1>2. PICK n \in Keys : ss' = [ss EXCEPT ![s] = [ss[s] EXCEPT !.stream = n]]
    <2>1. CASE streams[ss[s].stream] # None
      BY <1>1, <2>1 DEF IsExist, Keys
    <2>2. CASE streams[ss[s].stream] = None
      <3>1. ss' = ss
        BY <2>2 DEF IsExist
      <3>2. ss' = [ss EXCEPT ![s] = [ss[s] EXCEPT !.stream = ss[s].stream]]
        BY <1>1, <3>1 DEF SessionFields
      <3>3. ss[s].stream \in Keys
        BY <1>1 DEF SessionFields
      <3>4. QED
        BY <3>2, <3>3
    <2>3. QED
      BY <2>1, <2>2
  <1> DEFINE r == [ss[s] EXCEPT !.stream = n]
  <1>3. r \in SessionFields(Int)
    BY <1>1 DEF SessionFields
  <1>4. /\ ss' \in [Sessions -> SessionFields(Int)] /\ ss'[s] = r
        /\ \A t \in Sessions \ {s} : ss'[t] = ss[t]
    BY <1>1, <1>2, <1>3, SessionStep
  <1>5. SessionBut(s, {"stream"}) /\ ss'[s].stream = n
    BY <1>1, <1>4 DEF SessionBut, SessionFields
  <1>6. QED
    BY <1>1, <1>5, StepTo DEF IsExist, Keys

LEMMA KickEffect ==
  ASSUME Types, NEW s \in Sessions, Kick(s), ss[s].stream # None
  PROVE  /\ th[s].pc = "kick" /\ lock = None /\ UNCHANGED <<net, inbox, ss, md, media>>
         /\ \/ /\ streams[ss[s].stream] = None /\ ThreadTo(s, "create")
               /\ UNCHANGED <<streams, lock>>
            \/ /\ streams[ss[s].stream] # None /\ lock' = s
               /\ ThreadAt(s, "kickTest", "kick", th[s].src, streams[ss[s].stream])
               /\ streams' = [streams EXCEPT ![ss[s].stream] = None]
  <1>1. /\ th \in [Sessions -> Handling] /\ th[s] \in Handling /\ ss[s].stream \in Keys
        /\ streams[ss[s].stream] \in Sessions \cup {None}
    BY DEF Types, HandlersOK, RegistryOK, SessionFields
  <1>2. CASE streams[ss[s].stream] = None
    BY <1>1, <1>2, StepTo DEF Kick
  <1>3. CASE streams[ss[s].stream] # None
    <2> DEFINE q == [th[s] EXCEPT !.pc = "kickTest", !.op = "kick",
                                  !.target = streams[ss[s].stream]]
    <2>1. /\ q \in Handling /\ q.pc = "kickTest" /\ q.op = "kick" /\ q.src = th[s].src
          /\ q.target = streams[ss[s].stream]
      BY <1>1 DEF Handling
    <2>2. th' = [th EXCEPT ![s] = q]
      BY <1>1, <1>3 DEF Kick
    <2>3. UNCHANGED <<net, inbox, ss, md, media>> /\ th[s].pc = "kick" /\ lock = None
      BY DEF Kick
    <2>4. /\ lock' = s /\ streams' = [streams EXCEPT ![ss[s].stream] = None]
      BY <1>3 DEF Kick
    <2> HIDE DEF q
    <2>5. ThreadAt(s, "kickTest", "kick", th[s].src, streams[ss[s].stream])
      BY <1>1, <2>1, <2>2, ThreadStep
    <2>6. QED
      BY <1>3, <2>3, <2>4, <2>5
  <1>4. QED
    BY <1>2, <1>3

LEMMA KickTestEffect ==
  ASSUME Types, NEW s \in Sessions, KickTest(s)
  PROVE  /\ th[s].pc = "kickTest" /\ UNCHANGED <<net, inbox, ss, md, streams, lock, media>>
         /\ ThreadTo(s, IF md[th[s].target].ctxSrc = None THEN "closeAll" ELSE "kickForce")
  BY StepTo DEF KickTest, Types, HandlersOK

LEMMA KickForceEffect ==
  ASSUME Types, NEW s \in Sessions, KickForce(s)
  PROVE  /\ th[s].pc = "kickForce" /\ UNCHANGED <<net, inbox, ss, md, streams, lock, media>>
         /\ \E p \in {"closeSrc", "crashed"} : ThreadTo(s, p)
  BY StepTo DEF KickForce, Types, HandlersOK

LEMMA SourceCreated ==
  ASSUME NEW r \in SourceFields(Int), NEW x \in Sessions
  PROVE  [r EXCEPT !.ctxSrc = x, !.rtmp = TRUE, !.refs = 2] \in SourceFields(Int)
  <1> DEFINE a == [r EXCEPT !.ctxSrc = x]
  <1> DEFINE b == [a EXCEPT !.rtmp = TRUE]
  <1>1. a \in SourceFields(Int)
    BY DEF SourceFields
  <1> HIDE DEF a
  <1>2. b \in SourceFields(Int)
    BY <1>1 DEF SourceFields
  <1> HIDE DEF b
  <1>3. [b EXCEPT !.refs = 2] \in SourceFields(Int)
    BY <1>2 DEF SourceFields
  <1> USE DEF b
  <1>4. [[a EXCEPT !.rtmp = TRUE] EXCEPT !.refs = 2] \in SourceFields(Int)
    BY <1>3
  <1>5. QED
    BY <1>4 DEF a

LEMMA CreateEffect ==
  ASSUME Types, NEW s \in Sessions, Create(s)
  PROVE  /\ th[s].pc = "create" /\ UNCHANGED <<net, inbox, streams, lock, media>>
         /\ SessionBut(s, {"mdsrc"}) /\ ss'[s].mdsrc = s
         /\ ThreadAt(s, "add", th[s].op, s, th[s].target)
         /\ SourceBut(s, {"ctxSrc", "rtmp"}) /\ md'[s].ctxSrc = s
  <1>1. /\ ss[s] \in SessionFields(Int) /\ ss \in [Sessions -> SessionFields(Int)]
        /\ th \in [Sessions -> Handling] /\ th[s] \in Handling
        /\ th[s].src \in Sessions \cup {None} /\ md \in [Sessions -> SourceFields(Int)]
    BY DEF Types, HandlersOK, Handling
  <1>2. SessionBut(s, {"mdsrc"}) /\ ss'[s].mdsrc = s
    <2> DEFINE r == [ss[s] EXCEPT !.mdsrc = s]
    <2>1. r \in SessionFields(Int) /\ ss' = [ss EXCEPT ![s] = r]
      BY <1>1 DEF Create, SessionFields
    <2>2. /\ ss' \in [Sessions -> SessionFields(Int)] /\ ss'[s] = r
          /\ \A t \in Sessions \ {s} : ss'[t] = ss[t]
      BY <1>1, <2>1, SessionStep
    <2>3. QED
      BY <1>1, <2>2 DEF SessionBut, SessionFields
  <1>3. ThreadAt(s, "add", th[s].op, s, th[s].target)
    <2> DEFINE q == [th[s] EXCEPT !.src = s, !.pc = "add"]
    <2>1. /\ q \in Handling /\ q.pc = "add" /\ q.op = th[s].op /\ q.src = s
          /\ q.target = th[s].target
      BY <1>1 DEF Handling
    <2>2. th' = [th EXCEPT ![s] = q]
      BY <1>1 DEF Create
    <2> HIDE DEF q
    <2>3. QED
      BY <1>1, <2>1, <2>2, ThreadStep
  <1>4. SourceBut(s, {"ctxSrc", "rtmp"}) /\ md'[s].ctxSrc = s
    <2> DEFINE d == Counted(md, th[s].src, -1)
    <2>1. /\ d \in [Sessions -> SourceFields(Int)]
          /\ \A x \in Sessions : Alike(d[x], md[x])
      BY <1>1, CountedKeeps
    <2> DEFINE r == [d[s] EXCEPT !.ctxSrc = s, !.rtmp = TRUE, !.refs = 2]
    <2>2. md' = [d EXCEPT ![s].ctxSrc = s, ![s].rtmp = TRUE, ![s].refs = 2]
      BY DEF Create
    <2> HIDE DEF d
    <2>3. r \in SourceFields(Int) /\ md' = [d EXCEPT ![s] = r]
      <3>1. d[s] \in SourceFields(Int)
        BY <2>1
      <3>2. [d[s] EXCEPT !.ctxSrc = s, !.rtmp = TRUE, !.refs = 2] \in SourceFields(Int)
        BY <3>1, SourceCreated
      <3>3. QED
        BY <2>1, <2>2, <3>2
    <2>4. /\ r.ctxSrc = s /\ r.closedAll = d[s].closedAll /\ r.inited = d[s].inited
          /\ r.clients = d[s].clients /\ r.replaced = d[s].replaced
      BY <2>1 DEF SourceFields
    <2> HIDE DEF r
    <2>5. QED
      BY <2>1, <2>3, <2>4 DEF SourceBut, Alike
  <1>5. QED
    BY <1>2, <1>3, <1>4 DEF Create

LEMMA AddEffect ==
  ASSUME Types, NEW s \in Sessions, Add(s), ss[s].stream # None
  PROVE  /\ th[s].pc = "add" /\ lock = None /\ UNCHANGED <<net, inbox, ss, media>>
         /\ NoSourceBut
         /\ \/ /\ md[s].closedAll /\ ThreadTo(s, "attach") /\ UNCHANGED <<streams, lock>>
            \/ /\ ~md[s].closedAll /\ streams[ss[s].stream] = None /\ ThreadTo(s, "attach")
               /\ streams' = [streams EXCEPT ![ss[s].stream] = s] /\ UNCHANGED lock
            \/ /\ ~md[s].closedAll /\ streams[ss[s].stream] # None /\ lock' = s
               /\ ThreadAt(s, "closeSrc", "replace", th[s].src, streams[ss[s].stream])
               /\ UNCHANGED streams
  <1>1. /\ th \in [Sessions -> Handling] /\ th[s] \in Handling /\ ss[s].stream \in Keys
        /\ streams[ss[s].stream] \in Sessions \cup {None}
    BY DEF Types, HandlersOK, RegistryOK, SessionFields
  <1>2. NoSourceBut
    <2>1. CASE md' = md
      BY <2>1 DEF NoSourceBut, Types, Alike
    <2>2. CASE md' = Counted(md, s, 1)
      BY <2>2, CountedOnce
    <2>3. QED
      BY <2>1, <2>2 DEF Add
  <1>3. CASE md[s].closedAll
    BY <1>1, <1>2, <1>3, StepTo DEF Add
  <1>4. CASE ~md[s].closedAll /\ streams[ss[s].stream] = None
    BY <1>1, <1>2, <1>4, StepTo DEF Add
  <1>5. CASE ~md[s].closedAll /\ streams[ss[s].stream] # None
    <2> DEFINE q == [th[s] EXCEPT !.pc = "closeSrc", !.op = "replace",
                                  !.target = streams[ss[s].stream]]
    <2>1. /\ q \in Handling /\ q.pc = "closeSrc" /\ q.op = "replace" /\ q.src = th[s].src
          /\ q.target = streams[ss[s].stream]
      BY <1>1, <1>5 DEF Handling
    <2>2. th' = [th EXCEPT ![s] = q]
      BY <1>1, <1>5 DEF Add
    <2>3. UNCHANGED <<net, inbox, ss, media, streams>> /\ th[s].pc = "add" /\ lock = None
          /\ lock' = s
      BY <1>5 DEF Add
    <2> HIDE DEF q
    <2>4. ThreadAt(s, "closeSrc", "replace", th[s].src, streams[ss[s].stream])
      BY <1>1, <2>1, <2>2, ThreadStep
    <2>5. QED
      BY <1>2, <1>5, <2>3, <2>4
  <1>6. QED
    BY <1>3, <1>4, <1>5

\* One field of a source is given another value.
LEMMA SourceStep ==
  ASSUME NEW d \in [Sessions -> SourceFields(Int)], NEW m \in Sessions,
         NEW r \in SourceFields(Int), NEW e, e = [d EXCEPT ![m] = r]
  PROVE  /\ e \in [Sessions -> SourceFields(Int)] /\ e[m] = r
         /\ \A x \in Sessions \ {m} : e[x] = d[x]
  OBVIOUS

LEMMA AttachEffect ==
  ASSUME Types, NEW s \in Sessions, Attach(s)
  PROVE  /\ th[s].pc = "attach" /\ UNCHANGED <<net, inbox, streams, lock, media>>
         /\ SessionBut(s, {"attached"}) /\ ss'[s].attached
         /\ ThreadDone(s) /\ SourceBut(s, {"inited"})
  <1>1. /\ ss[s] \in SessionFields(Int) /\ ss \in [Sessions -> SessionFields(Int)]
        /\ md \in [Sessions -> SourceFields(Int)] /\ md[s] \in SourceFields(Int)
    BY DEF Types
  <1>2. SessionBut(s, {"attached"}) /\ ss'[s].attached
    <2> DEFINE r == [ss[s] EXCEPT !.attached = TRUE]
    <2>1. r \in SessionFields(Int) /\ ss' = [ss EXCEPT ![s] = r]
      BY <1>1 DEF Attach, SessionFields
    <2>2. /\ ss' \in [Sessions -> SessionFields(Int)] /\ ss'[s] = r
          /\ \A t \in Sessions \ {s} : ss'[t] = ss[t]
      BY <1>1, <2>1, SessionStep
    <2>3. QED
      BY <1>1, <2>2 DEF SessionBut, SessionFields
  <1>3. ThreadDone(s) /\ SourceBut(s, {"inited"})
    <2> DEFINE r == [md[s] EXCEPT !.inited = TRUE]
    <2> DEFINE d == [md EXCEPT ![s] = r]
    <2>1. /\ r \in SourceFields(Int) /\ r.ctxSrc = md[s].ctxSrc /\ r.closedAll = md[s].closedAll
          /\ r.rtmp = md[s].rtmp /\ r.clients = md[s].clients /\ r.replaced = md[s].replaced
      BY <1>1 DEF SourceFields
    <2>2. Finish(s, d)
      BY <1>1 DEF Attach
    <2> HIDE DEF r
    <2>3. /\ d \in [Sessions -> SourceFields(Int)] /\ d[s] = r
          /\ \A x \in Sessions \ {s} : d[x] = md[x]
      BY <1>1, <2>1
    <2> HIDE DEF d
    <2>4. /\ ThreadDone(s) /\ md' \in [Sessions -> SourceFields(Int)]
          /\ \A m \in Sessions : Alike(md'[m], d[m])
      BY <2>2, <2>3, Finished
    <2>5. QED
      BY <2>1, <2>3, <2>4 DEF SourceBut, Alike
  <1>4. QED
    BY <1>2, <1>3 DEF Attach

LEMMA CloseSrcCtxEffect ==
  ASSUME Types, NEW s \in Sessions, CloseSrcCtx(s), th[s].target # None
  PROVE  /\ th[s].pc = "closeSrc" /\ UNCHANGED <<called, released, asked, inbox, md, streams>>
         /\ UNCHANGED <<lock, media>> /\ NoneEnds /\ ThreadTo(s, "closeAll")
         /\ LET p == md[th[s].target].ctxSrc IN
            \/ ss' = ss /\ (p = None \/ ss[p].closing)
            \/ p # None /\ SessionBut(p, {"closing"}) /\ ss'[p].closing
  <1> DEFINE p == md[th[s].target].ctxSrc
  <1>1. ThreadTo(s, "closeAll")
    BY StepTo DEF CloseSrcCtx, Types, HandlersOK
  <1>2. CASE p = None \/ ss[p].closing
    BY <1>1, <1>2, ConnKept DEF CloseSrcCtx, Types
  <1>3. CASE ~(p = None \/ ss[p].closing)
    <2>1. /\ ss' = [ss EXCEPT ![p].closing = TRUE] /\ conn' = Closing({p})
          /\ UNCHANGED <<called, released, asked, inbox, md, streams, lock, media>>
      BY <1>3 DEF CloseSrcCtx
    <2>2. NoneEnds
      BY <2>1 DEF Closing, NoneEnds, Types, NetOK
    <2>3. CASE p \in Sessions
      <3> DEFINE r == [ss[p] EXCEPT !.closing = TRUE]
      <3>1. ss[p] \in SessionFields(Int) /\ ss \in [Sessions -> SessionFields(Int)]
        BY <2>3 DEF Types
      <3>2. r \in SessionFields(Int) /\ ss' = [ss EXCEPT ![p] = r]
        BY <2>1, <3>1 DEF SessionFields
      <3>3. /\ ss' \in [Sessions -> SessionFields(Int)] /\ ss'[p] = r
            /\ \A t \in Sessions \ {p} : ss'[t] = ss[t]
        BY <2>3, <3>1, <3>2, SessionStep
      <3>4. SessionBut(p, {"closing"}) /\ ss'[p].closing
        BY <3>1, <3>3 DEF SessionBut, SessionFields
      <3>5. QED
        BY <1>1, <1>3, <2>1, <2>2, <3>4 DEF CloseSrcCtx
    <2>4. th[s].target \in Sessions
      BY DEF Types, HandlersOK, Handling
    <2>5. md[th[s].target] \in SourceFields(Int)
      BY <2>4 DEF Types
    <2>6. p \in Sessions
      BY <1>3, <2>5 DEF SourceFields
    <2>7. QED
      BY <2>3, <2>6
  <1>4. QED
    BY <1>2, <1>3

LEMMA CloseSrcCtxFields ==
  ASSUME Types, NEW s \in Sessions, CloseSrcCtx(s), th[s].target # None
  PROVE  /\ ss' \in [Sessions -> SessionFields(Int)]
         /\ \A t \in Sessions :
              /\ ss'[t].stream = ss[t].stream /\ ss'[t].mdsrc = ss[t].mdsrc
              /\ ss'[t].srcCtx = ss[t].srcCtx /\ ss'[t].valid = ss[t].valid
              /\ ss'[t].attached = ss[t].attached /\ ss'[t].onClose = ss[t].onClose
              /\ ss'[t].playing = ss[t].playing /\ ss'[t].inMd = ss[t].inMd
              /\ ss'[t].listRefs = ss[t].listRefs /\ ss'[t].alive = ss[t].alive
              /\ ss[t].closing => ss'[t].closing
         /\ md[th[s].target].ctxSrc # None => ss'[md[th[s].target].ctxSrc].closing
  BY CloseSrcCtxEffect DEF SessionBut, Types

LEMMA CloseSrcCtxThread ==
  ASSUME Types, NEW s \in Sessions, CloseSrcCtx(s), th[s].target # None
  PROVE  /\ th[s].pc = "closeSrc" /\ UNCHANGED <<called, released, asked, inbox, md, streams>>
         /\ UNCHANGED <<lock, media>> /\ NoneEnds /\ ThreadTo(s, "closeAll")
  BY CloseSrcCtxEffect

LEMMA CloseAllClientsEffect ==
  ASSUME Types, NEW s \in Sessions, CloseAllClients(s), th[s].target # None
  PROVE  /\ th[s].pc = "closeAll" /\ UNCHANGED <<net, inbox, ss, streams, lock, media>>
         /\ \E p \in {"drain", "closed"} : ThreadTo(s, p)
         /\ SourceBut(th[s].target, {"closedAll"}) /\ md'[th[s].target].closedAll
  <1>1. PICK m \in Sessions : m = th[s].target
    BY DEF Types, HandlersOK, Handling
  <1>2. \E p \in {"drain", "closed"} : ThreadTo(s, p)
    BY StepTo DEF CloseAllClients, Types, HandlersOK
  <1> DEFINE r == [md[m] EXCEPT !.closedAll = TRUE]
  <1>3. md \in [Sessions -> SourceFields(Int)] /\ md[m] \in SourceFields(Int)
    BY DEF Types
  <1>4. /\ r \in SourceFields(Int) /\ r.ctxSrc = md[m].ctxSrc /\ r.closedAll
        /\ r.rtmp = md[m].rtmp /\ r.clients = md[m].clients /\ r.replaced = md[m].replaced
        /\ r.inited = md[m].inited
    BY <1>3 DEF SourceFields
  <1>5. md' = [md EXCEPT ![m] = r]
    BY <1>1, <1>3 DEF CloseAllClients
  <1> HIDE DEF r
  <1>6. /\ md' \in [Sessions -> SourceFields(Int)] /\ md'[m] = r
        /\ \A x \in Sessions \ {m} : md'[x] = md[x]
    BY <1>3, <1>4, <1>5
  <1>7. SourceBut(m, {"closedAll"}) /\ md'[m].closedAll
    BY <1>4, <1>6 DEF SourceBut, Alike
  <1>8. QED
    BY <1>1, <1>2, <1>7 DEF CloseAllClients

\* Into a list, and out of it.
LEMMA ListSet ==
  ASSUME NEW r \in SessionFields(Int)
  PROVE  /\ [r EXCEPT !.inMd = FALSE, !.closing = TRUE, !.listRefs = @ - 1] \in SessionFields(Int)
         /\ [r EXCEPT !.inMd = TRUE, !.listRefs = @ + 1, !.playing = TRUE] \in SessionFields(Int)
         /\ \A k \in Int : [r EXCEPT !.inMd = FALSE, !.listRefs = k] \in SessionFields(Int)
  <1> DEFINE x(k) == [r EXCEPT !.listRefs = k]
  <1>1. r.listRefs \in Int /\ r.listRefs + 1 \in Int /\ r.listRefs - 1 \in Int
    BY DEF SessionFields
  <1>2. ASSUME NEW k \in Int
        PROVE  x(k) \in SessionFields(Int)
    BY DEF SessionFields
  <1> HIDE DEF x
  <1>3. ASSUME NEW k \in Int
        PROVE  /\ [x(k) EXCEPT !.inMd = FALSE] \in SessionFields(Int)
               /\ [x(k) EXCEPT !.inMd = FALSE, !.closing = TRUE] \in SessionFields(Int)
               /\ [x(k) EXCEPT !.inMd = TRUE, !.playing = TRUE] \in SessionFields(Int)
    BY <1>2 DEF SessionFields
  <1>4. ASSUME NEW k \in Int
        PROVE  /\ [r EXCEPT !.inMd = FALSE, !.listRefs = k] = [x(k) EXCEPT !.inMd = FALSE]
               /\ [r EXCEPT !.inMd = FALSE, !.closing = TRUE, !.listRefs = k] =
                    [x(k) EXCEPT !.inMd = FALSE, !.closing = TRUE]
               /\ [r EXCEPT !.inMd = TRUE, !.listRefs = k, !.playing = TRUE] =
                    [x(k) EXCEPT !.inMd = TRUE, !.playing = TRUE]
    BY DEF x, SessionFields
  <1>5. QED
    BY <1>1, <1>3, <1>4

LEMMA DrainEffect ==
  ASSUME Types, NEW s \in Sessions, Drain(s), th[s].target # None
  PROVE  /\ th[s].pc = "drain" /\ UNCHANGED <<called, released, asked, inbox, streams, lock>>
         /\ UNCHANGED media /\ NoneEnds /\ ThreadTo(s, "closed")
         /\ SourceBut(th[s].target, {"clients", "rtmp"}) /\ md'[th[s].target].clients = {}
         /\ ss' \in [Sessions -> SessionFields(Int)]
         /\ \A p \in Sessions :
              /\ ss'[p].stream = ss[p].stream /\ ss'[p].mdsrc = ss[p].mdsrc
              /\ ss'[p].srcCtx = ss[p].srcCtx /\ ss'[p].valid = ss[p].valid
              /\ ss'[p].attached = ss[p].attached /\ ss'[p].onClose = ss[p].onClose
              /\ ss'[p].playing = ss[p].playing /\ ss'[p].alive = ss[p].alive
              /\ p \in md[th[s].target].clients =>
                   ss'[p].closing /\ ~ss'[p].inMd /\ ss'[p].listRefs = ss[p].listRefs - 1
              /\ p \notin md[th[s].target].clients => ss'[p] = ss[p]
  <1>1. PICK m \in Sessions : m = th[s].target
    BY DEF Types, HandlersOK, Handling
  <1>2. ThreadTo(s, "closed")
    BY StepTo DEF Drain, Types, HandlersOK
  <1>3. md \in [Sessions -> SourceFields(Int)] /\ md[m] \in SourceFields(Int)
    BY DEF Types
  <1>4. SourceBut(m, {"clients", "rtmp"}) /\ md'[m].clients = {}
    <2> DEFINE r == [md[m] EXCEPT !.clients = {}, !.rtmp = FALSE]
    <2>1. /\ r \in SourceFields(Int) /\ r.ctxSrc = md[m].ctxSrc
          /\ r.closedAll = md[m].closedAll /\ r.clients = {} /\ r.inited = md[m].inited
          /\ r.replaced = md[m].replaced
      BY <1>3 DEF SourceFields
    <2>2. md' = [md EXCEPT ![m] = r]
      BY <1>1, <1>3 DEF Drain
    <2> HIDE DEF r
    <2>3. /\ md' \in [Sessions -> SourceFields(Int)] /\ md'[m] = r
          /\ \A x \in Sessions \ {m} : md'[x] = md[x]
      BY <1>3, <2>1, <2>2
    <2>4. QED
      BY <2>1, <2>3 DEF SourceBut, Alike
  <1> DEFINE out(p) == [ss[p] EXCEPT !.inMd = FALSE, !.closing = TRUE, !.listRefs = @ - 1]
  <1>5. /\ ss' = [p \in Sessions |-> IF p \in md[m].clients THEN out(p) ELSE ss[p]]
        /\ UNCHANGED <<called, released, asked, inbox, streams, lock, media>>
        /\ th[s].pc = "drain"
    BY <1>1 DEF Drain
  <1>6. NoneEnds
    BY DEF Drain, Closing, NoneEnds, Types, NetOK
  <1>7. ASSUME NEW p \in Sessions
        PROVE  /\ out(p) \in SessionFields(Int)
               /\ out(p).stream = ss[p].stream /\ out(p).mdsrc = ss[p].mdsrc
               /\ out(p).srcCtx = ss[p].srcCtx /\ out(p).valid = ss[p].valid
               /\ out(p).attached = ss[p].attached /\ out(p).onClose = ss[p].onClose
               /\ out(p).playing = ss[p].playing /\ out(p).alive = ss[p].alive
               /\ out(p).closing /\ ~out(p).inMd /\ out(p).listRefs = ss[p].listRefs - 1
    <2>1. ss[p] \in SessionFields(Int)
      BY DEF Types
    <2>2. out(p) \in SessionFields(Int)
      BY <2>1, ListSet
    <2>3. QED
      BY <2>1, <2>2 DEF SessionFields
  <1> HIDE DEF out
  <1>8. /\ ss' \in [Sessions -> SessionFields(Int)]
        /\ \A p \in Sessions : IF p \in md[m].clients THEN ss'[p] = out(p) ELSE ss'[p] = ss[p]
    BY <1>5, <1>7 DEF Types
  <1>9. QED
    BY <1>1, <1>2, <1>4, <1>5, <1>6, <1>7, <1>8

LEMMA ClosedEffect ==
  ASSUME Types, NEW s \in Sessions, Closed(s), th[s].target # None
  PROVE  /\ th[s].pc = "closed" /\ UNCHANGED <<net, inbox, ss, media>>
         /\ \/ /\ th[s].op = "kick" /\ ThreadAt(s, "create", None, th[s].src, None)
               /\ NoSourceBut /\ lock' = None /\ UNCHANGED streams
            \/ /\ th[s].op = "replace" /\ ThreadAt(s, "attach", None, th[s].src, None)
               /\ SourceBut(th[s].target, {"replaced"}) /\ lock' = None
               /\ streams' = [streams EXCEPT ![ss[s].stream] = s]
            \/ /\ th[s].op = "end" /\ ThreadDone(s) /\ NoSourceBut /\ UNCHANGED <<streams, lock>>
  <1>1. PICK m \in Sessions : m = th[s].target
    BY DEF Types, HandlersOK, Handling
  <1>2. /\ th \in [Sessions -> Handling] /\ th[s] \in Handling
        /\ md \in [Sessions -> SourceFields(Int)] /\ md[m] \in SourceFields(Int)
        /\ th[s].pc = "closed" /\ UNCHANGED <<net, inbox, ss, media>>
    BY DEF Types, HandlersOK, Closed
  <1>3. CASE th[s].op = "kick"
    <2> DEFINE q == [th[s] EXCEPT !.pc = "create", !.op = None, !.target = None]
    <2>1. /\ q \in Handling /\ q.pc = "create" /\ q.op = None /\ q.src = th[s].src
          /\ q.target = None
      BY <1>2 DEF Handling
    <2>2. /\ th' = [th EXCEPT ![s] = q] /\ md' = Counted(md, m, -1)
          /\ lock' = None /\ UNCHANGED streams
      BY <1>1, <1>2, <1>3 DEF Closed
    <2> HIDE DEF q
    <2>3. ThreadAt(s, "create", None, th[s].src, None)
      BY <1>2, <2>1, <2>2, ThreadStep
    <2>4. NoSourceBut
      BY <2>2, CountedOnce
    <2>5. QED
      BY <1>2, <1>3, <2>2, <2>3, <2>4
  <1>4. CASE th[s].op = "replace"
    <2> DEFINE q == [th[s] EXCEPT !.pc = "attach", !.op = None, !.target = None]
    <2>1. /\ q \in Handling /\ q.pc = "attach" /\ q.op = None /\ q.src = th[s].src
          /\ q.target = None
      BY <1>2 DEF Handling
    <2> DEFINE r == [md[m] EXCEPT !.replaced = TRUE]
    <2> DEFINE d == [md EXCEPT ![m] = r]
    <2>2. /\ r \in SourceFields(Int) /\ r.ctxSrc = md[m].ctxSrc /\ r.closedAll = md[m].closedAll
          /\ r.rtmp = md[m].rtmp /\ r.clients = md[m].clients /\ r.inited = md[m].inited
      BY <1>2 DEF SourceFields
    <2>3. /\ th' = [th EXCEPT ![s] = q] /\ md' = Counted(d, s, 1)
          /\ lock' = None /\ streams' = [streams EXCEPT ![ss[s].stream] = s]
      BY <1>1, <1>2, <1>4 DEF Closed
    <2> HIDE DEF q, r
    <2>4. /\ d \in [Sessions -> SourceFields(Int)] /\ d[m] = r
          /\ \A x \in Sessions \ {m} : d[x] = md[x]
      BY <1>2, <2>2
    <2> HIDE DEF d
    <2>5. /\ md' \in [Sessions -> SourceFields(Int)]
          /\ \A x \in Sessions : Alike(md'[x], d[x])
      BY <2>3, <2>4, CountedKeeps
    <2>6. ThreadAt(s, "attach", None, th[s].src, None)
      BY <1>2, <2>1, <2>3, ThreadStep
    <2>7. SourceBut(m, {"replaced"})
      BY <2>2, <2>4, <2>5 DEF SourceBut, Alike
    <2>8. QED
      BY <1>1, <1>2, <1>4, <2>3, <2>6, <2>7
  <1>5. CASE th[s].op = "end"
    <2>1. Finish(s, md) /\ UNCHANGED <<streams, lock>>
      BY <1>2, <1>5 DEF Closed
    <2>2. ThreadDone(s) /\ NoSourceBut
      BY <1>2, <2>1, Finished DEF NoSourceBut
    <2>3. QED
      BY <1>2, <1>5, <2>1, <2>2
  <1>6. QED
    BY <1>3, <1>4, <1>5 DEF Closed

LEMMA PlayEffect ==
  ASSUME Types, NEW s \in Sessions, Play(s)
  PROVE  /\ IsNext(s, "play") /\ Taken(s) /\ NoneEnds /\ NoSourceBut
         /\ UNCHANGED <<called, released, asked, streams, lock, media>>
         /\ \/ UNCHANGED <<ss, th>>
            \/ /\ ~ss[s].srcCtx /\ SessionBut(s, {"stream"})
               /\ ss'[s].stream = Head(inbox[s]).name /\ ss'[s].stream \in Names
               /\ ThreadAt(s, IF ss[s].mdsrc = None THEN "find" ELSE "opened",
                           th[s].op, Head(inbox[s]).src, th[s].target)
  <1> DEFINE e == Head(inbox[s])
  <1>1. /\ IsNext(s, "play") /\ Taken(s) /\ e \in Events
        /\ UNCHANGED <<called, released, asked, streams, lock, media>>
    BY TakenEffect DEF Play
  <1>2. /\ e.src \in Sessions \cup {None} /\ e.name \in Names \cup {None}
        /\ ss[s] \in SessionFields(Int) /\ ss \in [Sessions -> SessionFields(Int)]
        /\ th[s] \in Handling /\ th \in [Sessions -> Handling]
    BY <1>1 DEF Types, Events, HandlersOK
  <1>3. CASE ss[s].srcCtx \/ e.name = None
    BY <1>1, <1>3, RefusedEffect DEF Play
  <1>4. CASE ~(ss[s].srcCtx \/ e.name = None)
    <2> DEFINE p == IF ss[s].mdsrc = None THEN "find" ELSE "opened"
    <2> DEFINE q == [th[s] EXCEPT !.src = e.src, !.pc = p]
    <2> DEFINE r == [ss[s] EXCEPT !.stream = e.name]
    <2>1. /\ r \in SessionFields(Int) /\ ss' = [ss EXCEPT ![s] = r]
      BY <1>2, <1>4 DEF Play, SessionFields, Keys
    <2>2. /\ q \in Handling /\ q.pc = p /\ q.op = th[s].op /\ q.src = e.src
          /\ q.target = th[s].target
      BY <1>2 DEF Handling
    <2>3. th' = [th EXCEPT ![s] = q] /\ conn' = conn /\ md' = md
      BY <1>2, <1>4 DEF Play
    <2> HIDE DEF q
    <2>4. ThreadAt(s, p, th[s].op, e.src, th[s].target)
      BY <1>2, <2>2, <2>3, ThreadStep
    <2>5. NoneEnds
      BY <2>3, ConnKept DEF Types
    <2>6. NoSourceBut
      BY <2>3 DEF NoSourceBut, Alike, Types
    <2>7. SessionBut(s, {"stream"}) /\ ss'[s].stream = e.name
      <3>1. /\ ss' \in [Sessions -> SessionFields(Int)] /\ ss'[s] = r
            /\ \A t \in Sessions \ {s} : ss'[t] = ss[t]
        BY <1>2, <2>1, SessionStep
      <3>2. QED
        BY <1>2, <3>1 DEF SessionBut, SessionFields
    <2>8. QED
      BY <1>1, <1>2, <1>4, <2>4, <2>5, <2>6, <2>7
  <1>5. QED
    BY <1>3, <1>4

LEMMA GetMdSourceEffect ==
  ASSUME Types, NEW s \in Sessions, GetMdSource(s), ss[s].stream # None
  PROVE  /\ th[s].pc = "find" /\ lock = None /\ NoSourceBut
         /\ UNCHANGED <<net, inbox, streams, lock, media>>
         /\ SessionBut(s, {"mdsrc"}) /\ ss'[s].mdsrc = streams[ss[s].stream]
         /\ ThreadAt(s, "opened", th[s].op, streams[ss[s].stream], th[s].target)
  <1> DEFINE m == streams[ss[s].stream]
  <1>1. /\ ss[s] \in SessionFields(Int) /\ ss \in [Sessions -> SessionFields(Int)]
        /\ th[s] \in Handling /\ th \in [Sessions -> Handling]
        /\ th[s].src \in Sessions \cup {None}
    BY DEF Types, HandlersOK, Handling
  <1>2. m \in Sessions \cup {None}
    <2>1. ss[s].stream \in Keys
      BY <1>1 DEF SessionFields
    <2>2. QED
      BY <2>1 DEF Types, RegistryOK
  <1> HIDE DEF m
  <1> DEFINE r == [ss[s] EXCEPT !.mdsrc = m]
  <1> DEFINE q == [th[s] EXCEPT !.src = m, !.pc = "opened"]
  <1>3. /\ th[s].pc = "find" /\ lock = None /\ UNCHANGED <<net, inbox, streams, lock, media>>
        /\ md' = Counted(Counted(md, th[s].src, -1), m, 2)
        /\ ss' = [ss EXCEPT ![s] = r] /\ th' = [th EXCEPT ![s] = q]
    BY <1>1 DEF GetMdSource, m
  <1>4. r \in SessionFields(Int)
    BY <1>1, <1>2 DEF SessionFields
  <1>5. /\ q \in Handling /\ q.pc = "opened" /\ q.op = th[s].op /\ q.src = m
        /\ q.target = th[s].target
    BY <1>1, <1>2 DEF Handling
  <1>6. NoSourceBut
    BY <1>1, <1>2, <1>3, CountedTwice
  <1>7. SessionBut(s, {"mdsrc"}) /\ ss'[s].mdsrc = m
    <2>1. /\ ss' \in [Sessions -> SessionFields(Int)] /\ ss'[s] = r
          /\ \A t \in Sessions \ {s} : ss'[t] = ss[t]
      BY <1>1, <1>3, <1>4, SessionStep
    <2>2. QED
      BY <1>1, <2>1 DEF SessionBut, SessionFields
  <1> HIDE DEF q
  <1>8. ThreadAt(s, "opened", th[s].op, m, th[s].target)
    BY <1>1, <1>3, <1>5, ThreadStep
  <1>9. QED
    BY <1>3, <1>6, <1>7, <1>8 DEF m

LEMMA PlayOpenedEffect ==
  ASSUME Types, NEW s \in Sessions, PlayOpened(s)
  PROVE  /\ th[s].pc = "opened" /\ NoneEnds /\ NoSourceBut
         /\ UNCHANGED <<called, released, asked, inbox, streams, lock, media>>
         /\ SessionBut(s, {"valid", "playing"}) /\ ss'[s].valid
         /\ ss'[s].playing \in {ss[s].playing, ss[s].inMd}
         /\ ss[s].inMd /\ ss[s].playing => ss'[s].playing
         /\ \/ ThreadDone(s)
            \/ ThreadTo(s, "join") /\ th[s].src # None /\ ~ss[s].inMd
  <1>1. /\ ss[s] \in SessionFields(Int) /\ ss \in [Sessions -> SessionFields(Int)]
        /\ md \in [Sessions -> SourceFields(Int)]
    BY DEF Types
  <1>2. PICK b \in {ss[s].playing, ss[s].inMd} :
           /\ ss' = [ss EXCEPT ![s] = [ss[s] EXCEPT !.valid = TRUE, !.playing = b]]
           /\ ss[s].inMd /\ ss[s].playing => b
    <2>1. CASE ss' = [ss EXCEPT ![s].valid = TRUE]
      <3>1. [ss[s] EXCEPT !.valid = TRUE] =
              [ss[s] EXCEPT !.valid = TRUE, !.playing = ss[s].playing]
        BY <1>1 DEF SessionFields
      <3>2. ss' = [ss EXCEPT ![s] = [ss[s] EXCEPT !.valid = TRUE]]
        BY <1>1, <2>1
      <3>3. QED
        BY <3>1, <3>2
    <2>2. CASE ss' = [ss EXCEPT ![s].valid = TRUE, ![s].playing = ss[s].inMd]
      BY <1>1, <2>2
    <2>3. QED
      BY <2>1, <2>2 DEF PlayOpened
  <1> DEFINE r == [ss[s] EXCEPT !.valid = TRUE, !.playing = b]
  <1>3. /\ SessionBut(s, {"valid", "playing"}) /\ ss'[s].valid /\ ss'[s].playing = b
    <2>1. r \in SessionFields(Int) /\ ss' = [ss EXCEPT ![s] = r]
      BY <1>1, <1>2 DEF SessionFields
    <2>2. /\ ss' \in [Sessions -> SessionFields(Int)] /\ ss'[s] = r
          /\ \A t \in Sessions \ {s} : ss'[t] = ss[t]
      BY <1>1, <2>1, SessionStep
    <2>3. QED
      BY <1>1, <2>2 DEF SessionBut, SessionFields
  <1>4. NoneEnds
    BY DEF PlayOpened, NoneEnds, Types, NetOK
  <1>5. /\ NoSourceBut
        /\ \/ ThreadDone(s)
           \/ ThreadTo(s, "join") /\ th[s].src # None /\ ~ss[s].inMd
    <2>1. CASE Finish(s, md)
      BY <1>1, <2>1, Finished DEF NoSourceBut
    <2>2. CASE Step(s, "join") /\ md' = md /\ th[s].src # None /\ ~ss[s].inMd
      BY <1>1, <2>2, StepTo DEF NoSourceBut, Alike, Types, HandlersOK
    <2>3. QED
      BY <2>1, <2>2 DEF PlayOpened
  <1>6. QED
    BY <1>2, <1>3, <1>4, <1>5 DEF PlayOpened

LEMMA JoinEffect ==
  ASSUME Types, NEW s \in Sessions, Join(s)
  PROVE  /\ th[s].pc = "join" /\ NoSourceBut /\ UNCHANGED <<net, inbox, streams, lock, media>>
         /\ \/ SessionBut(s, {"playing"}) /\ ss'[s].playing /\ ThreadDone(s)
            \/ ss' = ss /\ ThreadTo(s, "joinAdd") /\ ~ss[s].inMd
  <1>1. /\ ss[s] \in SessionFields(Int) /\ ss \in [Sessions -> SessionFields(Int)]
        /\ md \in [Sessions -> SourceFields(Int)]
    BY DEF Types
  <1>2. CASE ss' = [ss EXCEPT ![s].playing = TRUE] /\ Finish(s, md)
    <2> DEFINE r == [ss[s] EXCEPT !.playing = TRUE]
    <2>1. r \in SessionFields(Int) /\ ss' = [ss EXCEPT ![s] = r]
      BY <1>1, <1>2 DEF SessionFields
    <2>2. /\ ss' \in [Sessions -> SessionFields(Int)] /\ ss'[s] = r
          /\ \A t \in Sessions \ {s} : ss'[t] = ss[t]
      BY <1>1, <2>1, SessionStep
    <2>3. SessionBut(s, {"playing"}) /\ ss'[s].playing
      BY <1>1, <2>2 DEF SessionBut, SessionFields
    <2>4. ThreadDone(s) /\ NoSourceBut
      BY <1>1, <1>2, Finished DEF NoSourceBut
    <2>5. QED
      BY <2>3, <2>4 DEF Join
  <1>3. CASE Step(s, "joinAdd") /\ UNCHANGED <<ss, md>> /\ ~ss[s].inMd
    BY <1>1, <1>3, StepTo DEF NoSourceBut, Alike, Types, HandlersOK, Join
  <1>4. QED
    BY <1>2, <1>3 DEF Join

LEMMA JoinAddEffect ==
  ASSUME Types, NEW s \in Sessions, JoinAdd(s), th[s].src # None
  PROVE  /\ th[s].pc = "joinAdd" /\ UNCHANGED <<net, inbox, streams, lock, media>>
         /\ SessionBut(s, {"inMd", "listRefs", "playing"}) /\ ss'[s].inMd /\ ss'[s].playing
         /\ ss'[s].listRefs = ss[s].listRefs + 1 /\ ThreadDone(s)
         /\ SourceBut(th[s].src, {"clients"})
         /\ md'[th[s].src].clients = md[th[s].src].clients \cup {s}
  <1>1. /\ ss[s] \in SessionFields(Int) /\ ss \in [Sessions -> SessionFields(Int)]
        /\ md \in [Sessions -> SourceFields(Int)]
    BY DEF Types
  <1>2. PICK m \in Sessions : m = th[s].src
    BY DEF Types, HandlersOK, Handling
  <1>3. /\ SessionBut(s, {"inMd", "listRefs", "playing"}) /\ ss'[s].inMd /\ ss'[s].playing
        /\ ss'[s].listRefs = ss[s].listRefs + 1
    <2> DEFINE r == [ss[s] EXCEPT !.inMd = TRUE, !.listRefs = @ + 1, !.playing = TRUE]
    <2>1. r \in SessionFields(Int)
      BY <1>1, ListSet
    <2>2. ss' = [ss EXCEPT ![s] = r]
      BY <1>1 DEF JoinAdd
    <2>3. /\ ss' \in [Sessions -> SessionFields(Int)] /\ ss'[s] = r
          /\ \A t \in Sessions \ {s} : ss'[t] = ss[t]
      BY <1>1, <2>1, <2>2, SessionStep
    <2>4. QED
      BY <1>1, <2>3 DEF SessionBut, SessionFields
  <1>4. /\ ThreadDone(s) /\ SourceBut(m, {"clients"})
        /\ md'[m].clients = md[m].clients \cup {s}
    <2> DEFINE r == [md[m] EXCEPT !.clients = @ \cup {s}]
    <2> DEFINE d == [md EXCEPT ![m] = r]
    <2>1. /\ r \in SourceFields(Int) /\ r.ctxSrc = md[m].ctxSrc /\ r.closedAll = md[m].closedAll
          /\ r.rtmp = md[m].rtmp /\ r.inited = md[m].inited /\ r.replaced = md[m].replaced
          /\ r.clients = md[m].clients \cup {s}
      BY <1>1 DEF SourceFields
    <2>2. Finish(s, d)
      BY <1>1, <1>2 DEF JoinAdd
    <2> HIDE DEF r
    <2>3. /\ d \in [Sessions -> SourceFields(Int)] /\ d[m] = r
          /\ \A x \in Sessions \ {m} : d[x] = md[x]
      BY <1>1, <2>1
    <2> HIDE DEF d
    <2>4. /\ ThreadDone(s) /\ md' \in [Sessions -> SourceFields(Int)]
          /\ \A x \in Sessions : Alike(md'[x], d[x])
      BY <2>2, <2>3, Finished
    <2>5. QED
      BY <2>1, <2>3, <2>4 DEF SourceBut, Alike
  <1>5. QED
    BY <1>2, <1>3, <1>4 DEF JoinAdd

LEMMA ReallyCloseEffect ==
  ASSUME Types, NEW s \in Sessions, ReallyClose(s)
  PROVE  /\ IsNext(s, "close") /\ Taken(s) /\ NoSourceBut
         /\ UNCHANGED <<net, streams, lock, media>>
         /\ SessionBut(s, {"onClose"}) /\ ss'[s].onClose
         /\ \/ /\ UNCHANGED th
               /\ ss[s].valid /\ ss[s].mdsrc # None => ~ss[s].srcCtx /\ ~ss[s].inMd
            \/ /\ ss[s].valid /\ ss[s].mdsrc # None /\ ss[s].srcCtx
               /\ ThreadAt(s, "clear", "end", Head(inbox[s]).src, ss[s].mdsrc)
            \/ /\ ss[s].valid /\ ss[s].mdsrc # None /\ ~ss[s].srcCtx /\ ss[s].inMd
               /\ ThreadAt(s, "leave", "end", Head(inbox[s]).src, ss[s].mdsrc)
  <1> DEFINE e == Head(inbox[s])
  <1> DEFINE m == ss[s].mdsrc
  <1>1. /\ IsNext(s, "close") /\ Taken(s) /\ e \in Events
        /\ UNCHANGED <<net, streams, lock, media>>
    BY TakenEffect DEF ReallyClose
  <1>2. /\ ss[s] \in SessionFields(Int) /\ ss \in [Sessions -> SessionFields(Int)]
        /\ m \in Sessions \cup {None} /\ e.src \in Sessions \cup {None}
        /\ th \in [Sessions -> Handling]
    BY <1>1 DEF Types, SessionFields, Events, HandlersOK
  <1>3. SessionBut(s, {"onClose"}) /\ ss'[s].onClose
    <2> DEFINE r == [ss[s] EXCEPT !.onClose = TRUE]
    <2>1. r \in SessionFields(Int) /\ ss' = [ss EXCEPT ![s] = r]
      BY <1>2 DEF ReallyClose, SessionFields
    <2>2. /\ ss' \in [Sessions -> SessionFields(Int)] /\ ss'[s] = r
          /\ \A t \in Sessions \ {s} : ss'[t] = ss[t]
      BY <1>2, <2>1, SessionStep
    <2>3. QED
      BY <1>2, <2>2 DEF SessionBut, SessionFields
  <1>4. NoSourceBut
    <2>1. CASE md' = md
      BY <2>1 DEF NoSourceBut, Alike, Types
    <2>2. CASE md' = Counted(md, e.src, -1)
      BY <1>2, <2>2, CountedOnce
    <2>3. QED
      BY <2>1, <2>2 DEF ReallyClose
  <1>5. CASE ss[s].valid /\ m # None => ~ss[s].srcCtx /\ ~ss[s].inMd
    BY <1>1, <1>3, <1>4, <1>5 DEF ReallyClose
  <1>6. ASSUME NEW p \in {"clear", "leave"},
               th' = [th EXCEPT ![s] = [pc |-> p, op |-> "end", target |-> m, src |-> e.src]]
        PROVE  ThreadAt(s, p, "end", e.src, m)
    <2> DEFINE q == [pc |-> p, op |-> "end", target |-> m, src |-> e.src]
    <2>1. q \in Handling /\ q.pc = p /\ q.op = "end" /\ q.src = e.src /\ q.target = m
      BY <1>2 DEF Handling
    <2>2. th' = [th EXCEPT ![s] = q]
      BY <1>6
    <2> HIDE DEF q
    <2>3. QED
      BY <1>2, <2>1, <2>2, ThreadStep
  <1>7. CASE ss[s].valid /\ m # None /\ ss[s].srcCtx
    <2>1. th' = [th EXCEPT ![s] = [pc |-> "clear", op |-> "end", target |-> m, src |-> e.src]]
      BY <1>7 DEF ReallyClose
    <2>2. QED
      BY <1>1, <1>3, <1>4, <1>6, <1>7, <2>1
  <1>8. CASE ss[s].valid /\ m # None /\ ~ss[s].srcCtx /\ ss[s].inMd
    <2>1. th' = [th EXCEPT ![s] = [pc |-> "leave", op |-> "end", target |-> m, src |-> e.src]]
      BY <1>8 DEF ReallyClose
    <2>2. QED
      BY <1>1, <1>3, <1>4, <1>6, <1>8, <2>1
  <1>9. QED
    BY <1>5, <1>7, <1>8

LEMMA ClearSrcCtxEffect ==
  ASSUME Types, NEW s \in Sessions, ClearSrcCtx(s), th[s].target # None
  PROVE  /\ th[s].pc = "clear" /\ UNCHANGED <<net, inbox, ss, streams, lock, media>>
         /\ ThreadTo(s, IF ss[s].attached THEN "unregister" ELSE "closeAll")
         /\ SourceBut(th[s].target, {"ctxSrc"})
         /\ md'[th[s].target].ctxSrc = IF md[th[s].target].ctxSrc = s THEN None
                                      ELSE md[th[s].target].ctxSrc
  <1>1. PICK m \in Sessions : m = th[s].target
    BY DEF Types, HandlersOK, Handling
  <1>2. md \in [Sessions -> SourceFields(Int)] /\ md[m] \in SourceFields(Int)
    BY DEF Types
  <1> DEFINE c == IF md[m].ctxSrc = s THEN None ELSE md[m].ctxSrc
  <1> DEFINE r == [md[m] EXCEPT !.ctxSrc = c]
  <1>3. /\ r \in SourceFields(Int) /\ r.ctxSrc = c /\ r.closedAll = md[m].closedAll
        /\ r.rtmp = md[m].rtmp /\ r.clients = md[m].clients /\ r.replaced = md[m].replaced
        /\ r.inited = md[m].inited
    BY <1>2 DEF SourceFields
  <1>4. md' = [md EXCEPT ![m] = r]
    BY <1>1, <1>2 DEF ClearSrcCtx
  <1> HIDE DEF r
  <1>5. /\ md' \in [Sessions -> SourceFields(Int)] /\ md'[m] = r
        /\ \A x \in Sessions \ {m} : md'[x] = md[x]
    BY <1>2, <1>3, <1>4
  <1>6. SourceBut(m, {"ctxSrc"}) /\ md'[m].ctxSrc = c
    BY <1>3, <1>5 DEF SourceBut, Alike
  <1>7. ThreadTo(s, IF ss[s].attached THEN "unregister" ELSE "closeAll")
    BY StepTo DEF ClearSrcCtx, Types, HandlersOK
  <1>8. QED
    BY <1>1, <1>6, <1>7 DEF ClearSrcCtx

LEMMA RemoveMdSourceEffect ==
  ASSUME Types, NEW s \in Sessions, RemoveMdSource(s)
  PROVE  /\ th[s].pc = "unregister" /\ lock = None /\ UNCHANGED <<net, inbox, lock, media>>
         /\ ThreadTo(s, "closeAll") /\ NoSourceBut
         /\ SessionBut(s, {"attached"}) /\ ~ss'[s].attached
         /\ streams' = IF streams[ss[s].stream] = th[s].target
                       THEN [streams EXCEPT ![ss[s].stream] = None] ELSE streams
  <1>1. /\ ss[s] \in SessionFields(Int) /\ ss \in [Sessions -> SessionFields(Int)]
        /\ th[s].target \in Sessions \cup {None}
    BY DEF Types, HandlersOK, Handling
  <1>2. SessionBut(s, {"attached"}) /\ ~ss'[s].attached
    <2> DEFINE r == [ss[s] EXCEPT !.attached = FALSE]
    <2>1. r \in SessionFields(Int) /\ ss' = [ss EXCEPT ![s] = r]
      BY <1>1 DEF RemoveMdSource, SessionFields
    <2>2. /\ ss' \in [Sessions -> SessionFields(Int)] /\ ss'[s] = r
          /\ \A t \in Sessions \ {s} : ss'[t] = ss[t]
      BY <1>1, <2>1, SessionStep
    <2>3. QED
      BY <1>1, <2>2 DEF SessionBut, SessionFields
  <1>3. NoSourceBut
    <2>1. CASE md' = md
      BY <2>1 DEF NoSourceBut, Alike, Types
    <2>2. CASE md' = Counted(md, th[s].target, -1)
      BY <1>1, <2>2, CountedOnce
    <2>3. QED
      BY <2>1, <2>2 DEF RemoveMdSource
  <1>4. ThreadTo(s, "closeAll")
    BY StepTo DEF RemoveMdSource, Types, HandlersOK
  <1>5. QED
    BY <1>2, <1>3, <1>4 DEF RemoveMdSource

LEMMA RemoveClientSessionEffect ==
  ASSUME Types, NEW s \in Sessions, RemoveClientSession(s), th[s].target # None
  PROVE  /\ th[s].pc = "leave" /\ UNCHANGED <<net, inbox, streams, lock, media>>
         /\ SessionBut(s, {"inMd", "listRefs"}) /\ ~ss'[s].inMd /\ ThreadDone(s)
         /\ ss'[s].listRefs = IF s \in md[th[s].target].clients THEN ss[s].listRefs - 1
                              ELSE ss[s].listRefs
         /\ SourceBut(th[s].target, {"clients"})
         /\ md'[th[s].target].clients = md[th[s].target].clients \ {s}
  <1>1. /\ ss[s] \in SessionFields(Int) /\ ss \in [Sessions -> SessionFields(Int)]
        /\ md \in [Sessions -> SourceFields(Int)] /\ ss[s].listRefs \in Int
    BY DEF Types, SessionFields
  <1>2. PICK m \in Sessions : m = th[s].target
    BY DEF Types, HandlersOK, Handling
  <1>3. PICK k \in Int : k = IF s \in md[m].clients THEN ss[s].listRefs - 1 ELSE ss[s].listRefs
    BY <1>1
  <1>4. SessionBut(s, {"inMd", "listRefs"}) /\ ~ss'[s].inMd /\ ss'[s].listRefs = k
    <2> DEFINE r == [ss[s] EXCEPT !.inMd = FALSE, !.listRefs = k]
    <2>1. r \in SessionFields(Int)
      BY <1>1, ListSet
    <2>2. ss' = [ss EXCEPT ![s] = r]
      BY <1>1, <1>2, <1>3 DEF RemoveClientSession
    <2>3. /\ ss' \in [Sessions -> SessionFields(Int)] /\ ss'[s] = r
          /\ \A t \in Sessions \ {s} : ss'[t] = ss[t]
      BY <1>1, <2>1, <2>2, SessionStep
    <2>4. QED
      BY <1>1, <2>3 DEF SessionBut, SessionFields
  <1>5. /\ ThreadDone(s) /\ SourceBut(m, {"clients"})
        /\ md'[m].clients = md[m].clients \ {s}
    <2> DEFINE r == [md[m] EXCEPT !.clients = @ \ {s}]
    <2> DEFINE d == [md EXCEPT ![m] = r]
    <2>1. /\ r \in SourceFields(Int) /\ r.ctxSrc = md[m].ctxSrc /\ r.closedAll = md[m].closedAll
          /\ r.rtmp = md[m].rtmp /\ r.inited = md[m].inited /\ r.replaced = md[m].replaced
          /\ r.clients = md[m].clients \ {s}
      BY <1>1 DEF SourceFields
    <2>2. Finish(s, d)
      BY <1>1, <1>2 DEF RemoveClientSession
    <2> HIDE DEF r
    <2>3. /\ d \in [Sessions -> SourceFields(Int)] /\ d[m] = r
          /\ \A x \in Sessions \ {m} : d[x] = md[x]
      BY <1>1, <2>1
    <2> HIDE DEF d
    <2>4. /\ ThreadDone(s) /\ md' \in [Sessions -> SourceFields(Int)]
          /\ \A x \in Sessions : Alike(md'[x], d[x])
      BY <2>2, <2>3, Finished
    <2>5. QED
      BY <2>1, <2>3, <2>4 DEF SourceBut, Alike
  <1>6. QED
    BY <1>2, <1>3, <1>4, <1>5 DEF RemoveClientSession

LEMMA DestroyEffect ==
  ASSUME Types, NEW s \in Sessions, Destroy(s), ~ss[s].inMd
  PROVE  /\ UNCHANGED <<net, inbox, th, streams, lock, media>>
         /\ ss[s].alive /\ ss[s].onClose /\ th[s].pc = "idle" /\ inbox[s] = <<>>
         /\ \A c \in Sessions : \A i \in 1..Len(frames[c]) : frames[c][i] # s
         /\ SessionBut(s, {"alive", "mdsrc"}) /\ ~ss'[s].alive /\ ss'[s].mdsrc = None
         /\ \/ ss[s].mdsrc = None /\ NoSourceBut
            \/ /\ ss[s].mdsrc # None /\ SourceBut(ss[s].mdsrc, {"ctxSrc"})
               /\ md'[ss[s].mdsrc].ctxSrc = IF md[ss[s].mdsrc].ctxSrc = s THEN None
                                            ELSE md[ss[s].mdsrc].ctxSrc
  <1>1. /\ ss[s] \in SessionFields(Int) /\ ss \in [Sessions -> SessionFields(Int)]
        /\ md \in [Sessions -> SourceFields(Int)] /\ ss[s].mdsrc \in Sessions \cup {None}
    BY DEF Types, SessionFields
  <1>2. SessionBut(s, {"alive", "mdsrc"}) /\ ~ss'[s].alive /\ ss'[s].mdsrc = None
    <2> DEFINE r == [ss[s] EXCEPT !.alive = FALSE, !.inMd = FALSE, !.mdsrc = None]
    <2>1. r \in SessionFields(Int)
      BY <1>1 DEF SessionFields
    <2>2. ss' = [ss EXCEPT ![s] = r]
      BY <1>1 DEF Destroy
    <2>3. /\ ss' \in [Sessions -> SessionFields(Int)] /\ ss'[s] = r
          /\ \A t \in Sessions \ {s} : ss'[t] = ss[t]
      BY <1>1, <2>1, <2>2, SessionStep
    <2>4. QED
      BY <1>1, <2>3 DEF SessionBut, SessionFields
  <1>3. CASE ss[s].mdsrc = None
    <2>1. NoSourceBut
      BY <1>3 DEF Destroy, NoSourceBut, Alike, Types
    <2>2. QED
      BY <1>2, <1>3, <2>1 DEF Destroy
  <1>4. CASE ss[s].mdsrc # None
    <2>1. PICK m \in Sessions : m = ss[s].mdsrc
      BY <1>1, <1>4
    <2> DEFINE k == md[m].refs - 1
    <2> DEFINE c == IF md[m].ctxSrc = s THEN None ELSE md[m].ctxSrc
    <2> DEFINE a == [md[m] EXCEPT !.ctxSrc = c]
    <2> DEFINE r == [a EXCEPT !.refs = k]
    <2>2. /\ a \in SourceFields(Int) /\ a.ctxSrc = c /\ a.closedAll = md[m].closedAll
          /\ a.rtmp = md[m].rtmp /\ a.clients = md[m].clients /\ a.replaced = md[m].replaced
          /\ a.inited = md[m].inited
      BY <1>1 DEF SourceFields
    <2>3. md' = [md EXCEPT ![m] = [md[m] EXCEPT !.ctxSrc = c, !.clients = @, !.refs = k]]
      BY <1>1, <1>4, <2>1 DEF Destroy
    <2>4. [md[m] EXCEPT !.ctxSrc = c, !.clients = @, !.refs = k] = r
      <3> HIDE DEF c, k
      <3>1. md[m] \in SourceFields(Int)
        BY <1>1
      <3>2. QED
        BY <3>1 DEF SourceFields
    <2> HIDE DEF a
    <2>5. /\ r \in SourceFields(Int) /\ Alike(r, a)
      <3>1. k \in Int
        BY <1>1 DEF SourceFields
      <3> HIDE DEF k
      <3>2. QED
        BY <2>2, <3>1 DEF SourceFields, Alike
    <2> HIDE DEF r
    <2>6. /\ md' \in [Sessions -> SourceFields(Int)] /\ md'[m] = r
          /\ \A x \in Sessions \ {m} : md'[x] = md[x]
      BY <1>1, <2>3, <2>4, <2>5
    <2>7. SourceBut(m, {"ctxSrc"}) /\ md'[m].ctxSrc = c
      BY <2>2, <2>5, <2>6 DEF SourceBut, Alike
    <2>8. QED
      BY <1>2, <1>4, <2>1, <2>7 DEF Destroy
  <1>5. QED
    BY <1>3, <1>4

LEMMA OnMediaEffect ==
  ASSUME Types, NEW s \in Sessions, OnMedia(s)
  PROVE  /\ UNCHANGED <<net, inbox, ss, th, streams, lock, passed, heard>> /\ NoSourceBut
         /\ \E m \in Sessions : /\ m = ss[s].mdsrc
                                /\ frames' = [frames EXCEPT ![m] = Append(@, s)]
  <1>1. PICK m \in Sessions : m = ss[s].mdsrc
    BY DEF OnMedia, Types, SessionFields
  <1>2. md' = Counted(md, m, 1) /\ frames' = [frames EXCEPT ![m] = Append(@, s)]
    BY <1>1 DEF OnMedia
  <1>3. NoSourceBut
    BY <1>2, CountedOnce
  <1>4. UNCHANGED <<net, inbox, ss, th, streams, lock, passed, heard>>
    BY DEF OnMedia
  <1>5. QED
    BY <1>1, <1>2, <1>3, <1>4

LEMMA ForwardEffect ==
  ASSUME Types, NEW s \in Sessions, Forward(s)
  PROVE  /\ UNCHANGED <<net, inbox, ss, th, streams, lock, heard>> /\ NoSourceBut
         /\ frames[s] # <<>> /\ s \notin passed
         /\ \/ /\ md[s].ctxSrc = Head(frames[s]) /\ passed' = passed \cup {s}
               /\ UNCHANGED frames
            \/ frames' = [frames EXCEPT ![s] = Tail(@)] /\ UNCHANGED passed
  <1>1. NoSourceBut
    <2>1. CASE md' = md
      BY <2>1 DEF NoSourceBut, Alike, Types
    <2>2. CASE md' = Counted(md, s, -1)
      BY <2>2, CountedOnce
    <2>3. QED
      BY <2>1, <2>2 DEF Forward
  <1>2. QED
    BY <1>1 DEF Forward

LEMMA DeliverEffect ==
  ASSUME Types, NEW s \in Sessions, Deliver(s)
  PROVE  /\ UNCHANGED <<net, inbox, ss, th, streams, lock>> /\ NoSourceBut
         /\ s \in passed /\ passed' = passed \ {s}
         /\ frames' = [frames EXCEPT ![s] = Tail(@)]
         /\ heard' = heard \cup {<<p, Head(frames[s])>> :
                                  p \in {q \in md[s].clients : ss[q].playing}}
  BY CountedOnce DEF Deliver

-----------------------------------------------------------------------------
(* Types.                                                                    *)

LEMMA InitTypes == Init => Types
  <1> SUFFICES ASSUME Init PROVE Types
    OBVIOUS
  <1>1. NetOK /\ HandlersOK /\ RegistryOK /\ MediaOK
    BY DEF Init, NetOK, HandlersOK, Handling, Idle, RegistryOK, MediaOK
  <1>2. NoSession \in SessionFields(Int) /\ NoSource \in SourceFields(Int)
    BY DEF NoSession, NoSource, SessionFields, SourceFields
  <1>3. QED
    BY <1>1, <1>2 DEF Init, Types

LEMMA TargetKnown ==
  ASSUME Inv, NEW s \in Sessions,
         th[s].pc \in {"closeSrc", "closeAll", "drain", "closed", "clear", "unregister", "leave"}
  PROVE  th[s].target # None
  BY DEF Inv, HandlerInv, HandlerOf

LEMMA StreamKnown ==
  ASSUME Inv, NEW s \in Sessions,
         th[s].pc \in {"exist", "kick", "add", "find"}
  PROVE  ss[s].stream # None
  BY DEF Inv, StageInv, StageOf

LEMMA SourceKnown ==
  ASSUME Inv, NEW s \in Sessions, th[s].pc = "joinAdd"
  PROVE  th[s].src # None
  BY DEF Inv, StageInv, StageOf

LEMMA NotListed ==
  ASSUME Inv, NEW s \in Sessions, ss[s].listRefs <= 0
  PROVE  ~ss[s].inMd
  BY DEF Inv, PlayerInv, PlayerOf

\* The parts of Types that a step may touch.
LEMMA Typed ==
  ASSUME Types,
         conn' \in [Sessions -> {"open", "last", "closing", "closed"}],
         UNCHANGED <<called, released, asked>>,
         inbox' \in [Sessions -> Seq(Events)], th' \in [Sessions -> Handling],
         lock' \in Sessions \cup {None}, streams' \in [Keys -> Sessions \cup {None}],
         ss' \in [Sessions -> SessionFields(Int)], md' \in [Sessions -> SourceFields(Int)],
         UNCHANGED media
  PROVE  Types'
  BY DEF Types, NetOK, HandlersOK, RegistryOK, MediaOK, media


LEMMA TypesStep == Types /\ Inv /\ [Next]_vars => Types'
  <1> SUFFICES ASSUME Types, Inv, [Next]_vars PROVE Types'
    OBVIOUS
  <1>1. ASSUME NEW s \in Sessions, NEW n \in Names \cup {None}, InvokePublish(s, n)
        PROVE  Types'
    <2>1. Post(s, "publish", n) /\ called' = called \cup {s}
      BY <1>1 DEF InvokePublish
    <2>2. QED
      BY <1>1, <2>1, PostEffect
         DEF InvokePublish, Types, NetOK, HandlersOK, RegistryOK, MediaOK, NoSourceBut, media
  <1>2. ASSUME NEW s \in Sessions, NEW n \in Names \cup {None}, InvokePlay(s, n) PROVE Types'
    <2>1. Post(s, "play", n) /\ asked' = [asked EXCEPT ![s] = Append(@, n)]
      BY <1>2 DEF InvokePlay
    <2>2. asked' \in [Sessions -> Seq(Names \cup {None})]
      BY <2>1 DEF Types, NetOK
    <2>3. QED
      BY <1>2, <2>1, <2>2, PostEffect
         DEF InvokePlay, Types, NetOK, HandlersOK, RegistryOK, MediaOK, NoSourceBut, media
  <1>3. ASSUME NEW s \in Sessions, OnMedia(s) PROVE Types'
    <2>1. PICK m \in Sessions : frames' = [frames EXCEPT ![m] = Append(@, s)]
      BY <1>3, OnMediaEffect
    <2>2. frames' \in [Sessions -> Seq(Sessions)]
      BY <2>1 DEF Types, MediaOK
    <2>3. QED
      BY <1>3, <2>2, OnMediaEffect
         DEF Types, NetOK, HandlersOK, RegistryOK, MediaOK, NoSourceBut, net
  <1>4. ASSUME NEW s \in Sessions, ReleaseStream(s) PROVE Types'
    BY <1>4 DEF ReleaseStream, Types, NetOK, HandlersOK, RegistryOK, MediaOK, media
  <1>5. ASSUME NEW s \in Sessions, WriteCompleted(s) PROVE Types'
    <2>1. NoneEnds
      BY <1>5, ClosingEndsNone DEF WriteCompleted, Types
    <2>2. QED
      BY <1>5, <2>1
         DEF WriteCompleted, Types, NetOK, HandlersOK, RegistryOK, MediaOK, media, NoneEnds
  <1>6. ASSUME NEW s \in Sessions, OnClose(s) PROVE Types'
    <2>1. Post(s, "close", None) /\ conn' = [conn EXCEPT ![s] = "closed"]
      BY <1>6 DEF OnClose
    <2>2. /\ conn' \in [Sessions -> {"open", "last", "closing", "closed"}]
          /\ UNCHANGED <<called, released, asked, ss, th, streams, lock, media>>
      BY <1>6, <2>1 DEF OnClose, Types, NetOK
    <2>3. inbox' \in [Sessions -> Seq(Events)] /\ md' \in [Sessions -> SourceFields(Int)]
      BY <2>1, PostEffect DEF NoSourceBut
    <2>4. QED
      BY <2>2, <2>3, Typed DEF Types, HandlersOK, RegistryOK
  <1>7. ASSUME NEW s \in Sessions, Publish(s) PROVE Types'
    <2>1. inbox' \in [Sessions -> Seq(Events)]
      BY <1>7, PublishEffect, TakenEffect
    <2>2. QED
      BY <1>7, <2>1, PublishEffect, Typed
         DEF Types, NetOK, HandlersOK, RegistryOK, net, ThreadAt, ThreadTo, ThreadDone,
             SessionBut, SourceBut, NoSourceBut, NoneEnds
  <1>8. ASSUME NEW s \in Sessions, IsExist(s) PROVE Types'
    <2>1. ss[s].stream # None
      BY <1>8, StreamKnown DEF IsExist
    <2>2. QED
      BY <1>8, <2>1, IsExistEffect, Typed
         DEF Types, NetOK, HandlersOK, RegistryOK, net, ThreadAt, ThreadTo, ThreadDone,
             SessionBut, SourceBut, NoSourceBut, NoneEnds
  <1>9. ASSUME NEW s \in Sessions, Kick(s) PROVE Types'
    <2>1. ss[s].stream # None
      BY <1>9, StreamKnown DEF Kick
    <2>2. QED
      BY <1>9, <2>1, KickEffect, Typed
         DEF Types, NetOK, HandlersOK, RegistryOK, net, ThreadAt, ThreadTo, ThreadDone,
             SessionBut, SourceBut, NoSourceBut, NoneEnds
  <1>10. ASSUME NEW s \in Sessions, KickTest(s) PROVE Types'
    <2>1. QED
      BY <1>10, KickTestEffect, Typed
         DEF Types, NetOK, HandlersOK, RegistryOK, net, ThreadAt, ThreadTo, ThreadDone,
             SessionBut, SourceBut, NoSourceBut, NoneEnds
  <1>11. ASSUME NEW s \in Sessions, KickForce(s) PROVE Types'
    <2>1. QED
      BY <1>11, KickForceEffect, Typed
         DEF Types, NetOK, HandlersOK, RegistryOK, net, ThreadAt, ThreadTo, ThreadDone,
             SessionBut, SourceBut, NoSourceBut, NoneEnds
  <1>12. ASSUME NEW s \in Sessions, Create(s) PROVE Types'
    <2>1. QED
      BY <1>12, CreateEffect, Typed
         DEF Types, NetOK, HandlersOK, RegistryOK, net, ThreadAt, ThreadTo, ThreadDone,
             SessionBut, SourceBut, NoSourceBut, NoneEnds
  <1>13. ASSUME NEW s \in Sessions, Add(s) PROVE Types'
    <2>1. ss[s].stream # None
      BY <1>13, StreamKnown DEF Add
    <2>2. md' \in [Sessions -> SourceFields(Int)] /\ th' \in [Sessions -> Handling]
      BY <1>13, <2>1, AddEffect DEF NoSourceBut, ThreadTo, ThreadAt
    <2>3. streams' \in [Keys -> Sessions \cup {None}] /\ lock' \in Sessions \cup {None}
      BY <1>13, <2>1, AddEffect DEF Types, RegistryOK, HandlersOK
    <2>4. UNCHANGED <<net, inbox, ss, media>>
      BY <1>13 DEF Add
    <2>5. QED
      BY <2>2, <2>3, <2>4, Typed DEF Types, NetOK, net
  <1>14. ASSUME NEW s \in Sessions, Attach(s) PROVE Types'
    <2>1. QED
      BY <1>14, AttachEffect, Typed
         DEF Types, NetOK, HandlersOK, RegistryOK, net, ThreadAt, ThreadTo, ThreadDone,
             SessionBut, SourceBut, NoSourceBut, NoneEnds
  <1>15. ASSUME NEW s \in Sessions, CloseSrcCtx(s) PROVE Types'
    <2>1. th[s].target # None
      BY <1>15, TargetKnown DEF CloseSrcCtx
    <2>2. ss' \in [Sessions -> SessionFields(Int)] /\ th' \in [Sessions -> Handling]
      BY <1>15, <2>1, CloseSrcCtxEffect DEF Types, SessionBut, ThreadTo, ThreadAt
    <2>3. UNCHANGED <<called, released, asked, inbox, md, streams, lock, media>> /\ NoneEnds
      BY <1>15, <2>1, CloseSrcCtxEffect
    <2>4. QED
      BY <2>2, <2>3, Typed DEF Types, NetOK, HandlersOK, RegistryOK, NoneEnds
  <1>16. ASSUME NEW s \in Sessions, CloseAllClients(s) PROVE Types'
    <2>1. th[s].target # None
      BY <1>16, TargetKnown DEF CloseAllClients
    <2>2. md' \in [Sessions -> SourceFields(Int)] /\ th' \in [Sessions -> Handling]
      BY <1>16, <2>1, CloseAllClientsEffect DEF SourceBut, ThreadAt, ThreadTo
    <2>3. UNCHANGED <<net, inbox, ss, streams, lock, media>>
      BY <1>16, <2>1, CloseAllClientsEffect
    <2>4. QED
      BY <2>2, <2>3, Typed DEF Types, NetOK, HandlersOK, RegistryOK, net
  <1>17. ASSUME NEW s \in Sessions, Drain(s) PROVE Types'
    <2>1. th[s].target # None
      BY <1>17, TargetKnown DEF Drain
    <2>2. QED
      BY <1>17, <2>1, DrainEffect, Typed
         DEF Types, NetOK, HandlersOK, RegistryOK, net, ThreadAt, ThreadTo, ThreadDone,
             SessionBut, SourceBut, NoSourceBut, NoneEnds
  <1>18. ASSUME NEW s \in Sessions, Closed(s) PROVE Types'
    <2>1. th[s].target # None
      BY <1>18, TargetKnown DEF Closed
    <2>2. md' \in [Sessions -> SourceFields(Int)] /\ th' \in [Sessions -> Handling]
      BY <1>18, <2>1, ClosedEffect DEF NoSourceBut, SourceBut, ThreadAt, ThreadDone
    <2>3. streams' \in [Keys -> Sessions \cup {None}] /\ lock' \in Sessions \cup {None}
      BY <1>18, <2>1, ClosedEffect DEF Types, RegistryOK, HandlersOK
    <2>4. UNCHANGED <<net, inbox, ss, media>>
      BY <1>18 DEF Closed
    <2>5. QED
      BY <2>2, <2>3, <2>4, Typed DEF Types, NetOK, net
  <1>19. ASSUME NEW s \in Sessions, Play(s) PROVE Types'
    <2>1. inbox' \in [Sessions -> Seq(Events)]
      BY <1>19, PlayEffect, TakenEffect
    <2>2. QED
      BY <1>19, <2>1, PlayEffect, Typed
         DEF Types, NetOK, HandlersOK, RegistryOK, net, ThreadAt, ThreadTo, ThreadDone,
             SessionBut, SourceBut, NoSourceBut, NoneEnds
  <1>20. ASSUME NEW s \in Sessions, GetMdSource(s) PROVE Types'
    <2>1. ss[s].stream # None
      BY <1>20, StreamKnown DEF GetMdSource
    <2>2. QED
      BY <1>20, <2>1, GetMdSourceEffect, Typed
         DEF Types, NetOK, HandlersOK, RegistryOK, net, ThreadAt, ThreadTo, ThreadDone,
             SessionBut, SourceBut, NoSourceBut, NoneEnds
  <1>21. ASSUME NEW s \in Sessions, PlayOpened(s) PROVE Types'
    <2>1. /\ md' \in [Sessions -> SourceFields(Int)] /\ ss' \in [Sessions -> SessionFields(Int)]
          /\ th' \in [Sessions -> Handling]
      BY <1>21, PlayOpenedEffect DEF NoSourceBut, SessionBut, ThreadTo, ThreadDone, ThreadAt
    <2>2. UNCHANGED <<called, released, asked, inbox, streams, lock, media>>
      BY <1>21 DEF PlayOpened
    <2>3. QED
      BY <1>21, <2>1, <2>2, PlayOpenedEffect, Typed
         DEF Types, NetOK, HandlersOK, RegistryOK, NoneEnds
  <1>22. ASSUME NEW s \in Sessions, Join(s) PROVE Types'
    <2>1. QED
      BY <1>22, JoinEffect, Typed
         DEF Types, NetOK, HandlersOK, RegistryOK, net, ThreadAt, ThreadTo, ThreadDone,
             SessionBut, SourceBut, NoSourceBut, NoneEnds
  <1>23. ASSUME NEW s \in Sessions, JoinAdd(s) PROVE Types'
    <2>1. th[s].src # None
      BY <1>23, SourceKnown DEF JoinAdd
    <2>2. QED
      BY <1>23, <2>1, JoinAddEffect, Typed
         DEF Types, NetOK, HandlersOK, RegistryOK, net, ThreadAt, ThreadTo, ThreadDone,
             SessionBut, SourceBut, NoSourceBut, NoneEnds
  <1>24. ASSUME NEW s \in Sessions, ReallyClose(s) PROVE Types'
    <2>1. inbox' \in [Sessions -> Seq(Events)]
      BY <1>24, ReallyCloseEffect, TakenEffect
    <2>2. QED
      BY <1>24, <2>1, ReallyCloseEffect, Typed
         DEF Types, NetOK, HandlersOK, RegistryOK, net, ThreadAt, ThreadTo, ThreadDone,
             SessionBut, SourceBut, NoSourceBut, NoneEnds
  <1>25. ASSUME NEW s \in Sessions, ClearSrcCtx(s) PROVE Types'
    <2>1. th[s].target # None
      BY <1>25, TargetKnown DEF ClearSrcCtx
    <2>2. QED
      BY <1>25, <2>1, ClearSrcCtxEffect, Typed
         DEF Types, NetOK, HandlersOK, RegistryOK, net, ThreadAt, ThreadTo, ThreadDone,
             SessionBut, SourceBut, NoSourceBut, NoneEnds
  <1>26. ASSUME NEW s \in Sessions, RemoveMdSource(s) PROVE Types'
    <2>1. /\ md' \in [Sessions -> SourceFields(Int)] /\ ss' \in [Sessions -> SessionFields(Int)]
          /\ th' \in [Sessions -> Handling]
      BY <1>26, RemoveMdSourceEffect DEF NoSourceBut, SessionBut, ThreadTo, ThreadAt
    <2>2. streams' \in [Keys -> Sessions \cup {None}]
      BY <1>26, RemoveMdSourceEffect DEF Types, RegistryOK
    <2>3. UNCHANGED <<net, inbox, lock, media>>
      BY <1>26 DEF RemoveMdSource
    <2>4. QED
      BY <2>1, <2>2, <2>3, Typed DEF Types, NetOK, HandlersOK, net
  <1>27. ASSUME NEW s \in Sessions, RemoveClientSession(s) PROVE Types'
    <2>1. th[s].target # None
      BY <1>27, TargetKnown DEF RemoveClientSession
    <2>2. QED
      BY SMTT(60), <1>27, <2>1, RemoveClientSessionEffect, Typed
         DEF Types, NetOK, HandlersOK, RegistryOK, net, ThreadAt, ThreadTo, ThreadDone,
             SessionBut, SourceBut, NoSourceBut, NoneEnds
  <1>28. ASSUME NEW s \in Sessions, Destroy(s) PROVE Types'
    <2>1. ~ss[s].inMd
      BY <1>28, NotListed DEF Destroy
    <2>2. md' \in [Sessions -> SourceFields(Int)] /\ ss' \in [Sessions -> SessionFields(Int)]
      BY <1>28, <2>1, DestroyEffect DEF SourceBut, NoSourceBut, SessionBut
    <2>3. UNCHANGED <<net, inbox, th, streams, lock, media>>
      BY <1>28 DEF Destroy
    <2>4. QED
      BY <2>2, <2>3, Typed DEF Types, NetOK, HandlersOK, RegistryOK, net
  <1>29. ASSUME NEW s \in Sessions, Forward(s) PROVE Types'
    <2>1. frames[s] \in Seq(Sessions) /\ frames[s] # <<>>
      BY <1>29, ForwardEffect DEF Types, MediaOK
    <2>2. Tail(frames[s]) \in Seq(Sessions)
      BY <2>1
    <2>3. frames' \in [Sessions -> Seq(Sessions)]
      BY <1>29, <2>2, ForwardEffect DEF Types, MediaOK
    <2>4. QED
      BY <1>29, <2>3, ForwardEffect
         DEF Types, NetOK, HandlersOK, RegistryOK, MediaOK, NoSourceBut, net
  <1>30. ASSUME NEW s \in Sessions, Deliver(s) PROVE Types'
    <2>1. frames[s] \in Seq(Sessions) /\ frames[s] # <<>> /\ Head(frames[s]) = s
      BY <1>30, DeliverEffect DEF Types, MediaOK, Inv, HearingInv, PassedOf
    <2>2. Tail(frames[s]) \in Seq(Sessions)
      BY <2>1
    <2>3. frames' \in [Sessions -> Seq(Sessions)]
      BY <1>30, <2>2, DeliverEffect DEF Types, MediaOK
    <2>4. heard' \subseteq Sessions \X Sessions
      BY <1>30, <2>1, DeliverEffect DEF Types, MediaOK, SourceFields
    <2>5. QED
      BY <1>30, <2>3, <2>4, DeliverEffect
         DEF Types, NetOK, HandlersOK, RegistryOK, MediaOK, NoSourceBut, net
  <1>31. CASE UNCHANGED vars
    BY <1>31 DEF vars, net, media, Types, NetOK, HandlersOK, RegistryOK, MediaOK
  <1>32. QED
    BY <1>1, <1>2, <1>3, <1>4, <1>5, <1>6, <1>7, <1>8, <1>9, <1>10, <1>11,
       <1>12, <1>13, <1>14, <1>15, <1>16, <1>17, <1>18, <1>19, <1>20, <1>21,
       <1>22, <1>23, <1>24, <1>25, <1>26, <1>27, <1>28, <1>29, <1>30, <1>31
       DEF Next, Handlers

-----------------------------------------------------------------------------
(* Handlers.                                                                 *)

LEMMA HandlerInvStep == Types /\ Inv /\ [Next]_vars => HandlerInv'
  <1> SUFFICES ASSUME Types, Inv, [Next]_vars,
                      \A s \in Sessions : HandlerOf(s) /\ LifeOf(s)
               PROVE  HandlerInv'
    BY DEF Inv, HandlerInv, LifeInv
  <1>1. ASSUME NEW s \in Sessions, NEW n \in Names \cup {None}, InvokePublish(s, n)
        PROVE  HandlerInv'
    <2>1. UNCHANGED <<ss, th, lock>>
      BY <1>1 DEF InvokePublish
    <2>2. QED
      BY <2>1 DEF HandlerInv, HandlerOf
  <1>2. ASSUME NEW s \in Sessions, NEW n \in Names \cup {None}, InvokePlay(s, n)
        PROVE  HandlerInv'
    <2>1. UNCHANGED <<ss, th, lock>>
      BY <1>2 DEF InvokePlay
    <2>2. QED
      BY <2>1 DEF HandlerInv, HandlerOf
  <1>3. ASSUME NEW s \in Sessions, OnMedia(s) PROVE HandlerInv'
    <2>1. UNCHANGED <<ss, th, lock>>
      BY <1>3, OnMediaEffect
    <2>2. QED
      BY <2>1 DEF HandlerInv, HandlerOf
  <1>4. ASSUME NEW s \in Sessions, ReleaseStream(s) PROVE HandlerInv'
    <2>1. UNCHANGED <<ss, th, lock>>
      BY <1>4 DEF ReleaseStream
    <2>2. QED
      BY <2>1 DEF HandlerInv, HandlerOf
  <1>5. ASSUME NEW s \in Sessions, WriteCompleted(s) PROVE HandlerInv'
    <2>1. UNCHANGED <<ss, th, lock>>
      BY <1>5 DEF WriteCompleted
    <2>2. QED
      BY <2>1 DEF HandlerInv, HandlerOf
  <1>6. ASSUME NEW s \in Sessions, OnClose(s) PROVE HandlerInv'
    <2>1. UNCHANGED <<ss, th, lock>>
      BY <1>6 DEF OnClose
    <2>2. QED
      BY <2>1 DEF HandlerInv, HandlerOf
  <1>7. ASSUME NEW s \in Sessions, Publish(s) PROVE HandlerInv'
    <2>1. HandlerOf(s)'
      BY <1>7, PublishEffect, HandlerOf(s), LifeOf(s)
         DEF HandlerOf, ThreadTo, ThreadAt, ThreadDone, SessionBut, IsNext, LifeOf, Types,
             HandlersOK, Handling
    <2>2. ASSUME NEW t \in Sessions \ {s}
          PROVE  HandlerOf(t)'
      BY <1>7, PublishEffect, HandlerOf(t), HandlerOf(s)
         DEF HandlerOf, ThreadTo, ThreadAt, ThreadDone, SessionBut, Types,
             HandlersOK, Handling
    <2>3. QED
      BY <2>1, <2>2 DEF HandlerInv
  <1>8. ASSUME NEW s \in Sessions, IsExist(s) PROVE HandlerInv'
    <2>1. ss[s].stream # None
      BY <1>8, StreamKnown DEF IsExist
    <2>2. HandlerOf(s)'
      BY <1>8, <2>1, IsExistEffect, HandlerOf(s), LifeOf(s)
         DEF HandlerOf, ThreadTo, ThreadAt, ThreadDone, SessionBut, IsNext, LifeOf, Types,
             HandlersOK, Handling
    <2>3. ASSUME NEW t \in Sessions \ {s}
          PROVE  HandlerOf(t)'
      BY <1>8, <2>1, IsExistEffect, HandlerOf(t), HandlerOf(s)
         DEF HandlerOf, ThreadTo, ThreadAt, ThreadDone, SessionBut, Types,
             HandlersOK, Handling
    <2>4. QED
      BY <2>2, <2>3 DEF HandlerInv
  <1>9. ASSUME NEW s \in Sessions, Kick(s) PROVE HandlerInv'
    <2>1. ss[s].stream # None
      BY <1>9, StreamKnown DEF Kick
    <2>2. HandlerOf(s)'
      <3>1. /\ th[s].pc = "kick" /\ th[s].op = None /\ th[s].target = None
            /\ lock = None /\ lock # s /\ ~ss[s].onClose /\ ss' = ss
        BY <1>9, <2>1, KickEffect, HandlerOf(s) DEF HandlerOf
      <3>2. CASE ThreadTo(s, "create") /\ lock' = lock
        <4>1. th'[s].pc = "create" /\ th'[s].op = None /\ th'[s].target = None
          BY <3>1, <3>2 DEF ThreadTo, ThreadAt
        <4>2. QED
          BY <3>1, <3>2, <4>1 DEF HandlerOf
      <3>3. CASE /\ streams[ss[s].stream] # None /\ lock' = s
                 /\ ThreadAt(s, "kickTest", "kick", th[s].src, streams[ss[s].stream])
        <4>1. th'[s].pc = "kickTest" /\ th'[s].op = "kick" /\ th'[s].target # None
          BY <3>3 DEF ThreadAt
        <4>2. QED
          BY <3>1, <3>3, <4>1 DEF HandlerOf
      <3>4. QED
        BY <1>9, <2>1, <3>2, <3>3, KickEffect
    <2>3. ASSUME NEW t \in Sessions \ {s}
          PROVE  HandlerOf(t)'
      BY <1>9, <2>1, KickEffect, HandlerOf(t), HandlerOf(s)
         DEF HandlerOf, ThreadTo, ThreadAt, ThreadDone, SessionBut, Types,
             HandlersOK, Handling
    <2>4. QED
      BY <2>2, <2>3 DEF HandlerInv
  <1>10. ASSUME NEW s \in Sessions, KickTest(s) PROVE HandlerInv'
    <2>1. HandlerOf(s)'
      BY <1>10, KickTestEffect, HandlerOf(s), LifeOf(s)
         DEF HandlerOf, ThreadTo, ThreadAt, ThreadDone, SessionBut, IsNext, LifeOf, Types,
             HandlersOK, Handling
    <2>2. ASSUME NEW t \in Sessions \ {s}
          PROVE  HandlerOf(t)'
      BY <1>10, KickTestEffect, HandlerOf(t), HandlerOf(s)
         DEF HandlerOf, ThreadTo, ThreadAt, ThreadDone, SessionBut, Types,
             HandlersOK, Handling
    <2>3. QED
      BY <2>1, <2>2 DEF HandlerInv
  <1>11. ASSUME NEW s \in Sessions, KickForce(s) PROVE HandlerInv'
    <2>1. HandlerOf(s)'
      BY <1>11, KickForceEffect, HandlerOf(s), LifeOf(s)
         DEF HandlerOf, ThreadTo, ThreadAt, ThreadDone, SessionBut, IsNext, LifeOf, Types,
             HandlersOK, Handling
    <2>2. ASSUME NEW t \in Sessions \ {s}
          PROVE  HandlerOf(t)'
      BY <1>11, KickForceEffect, HandlerOf(t), HandlerOf(s)
         DEF HandlerOf, ThreadTo, ThreadAt, ThreadDone, SessionBut, Types,
             HandlersOK, Handling
    <2>3. QED
      BY <2>1, <2>2 DEF HandlerInv
  <1>12. ASSUME NEW s \in Sessions, Create(s) PROVE HandlerInv'
    <2>1. HandlerOf(s)'
      BY <1>12, CreateEffect, HandlerOf(s), LifeOf(s)
         DEF HandlerOf, ThreadTo, ThreadAt, ThreadDone, SessionBut, IsNext, LifeOf, Types,
             HandlersOK, Handling
    <2>2. ASSUME NEW t \in Sessions \ {s}
          PROVE  HandlerOf(t)'
      BY <1>12, CreateEffect, HandlerOf(t), HandlerOf(s)
         DEF HandlerOf, ThreadTo, ThreadAt, ThreadDone, SessionBut, Types,
             HandlersOK, Handling
    <2>3. QED
      BY <2>1, <2>2 DEF HandlerInv
  <1>13. ASSUME NEW s \in Sessions, Add(s) PROVE HandlerInv'
    <2>1. ss[s].stream # None
      BY <1>13, StreamKnown DEF Add
    <2>2. HandlerOf(s)'
      BY <1>13, <2>1, AddEffect, HandlerOf(s), LifeOf(s)
         DEF HandlerOf, ThreadTo, ThreadAt, ThreadDone, SessionBut, IsNext, LifeOf, Types,
             HandlersOK, Handling
    <2>3. ASSUME NEW t \in Sessions \ {s}
          PROVE  HandlerOf(t)'
      BY <1>13, <2>1, AddEffect, HandlerOf(t), HandlerOf(s)
         DEF HandlerOf, ThreadTo, ThreadAt, ThreadDone, SessionBut, Types,
             HandlersOK, Handling
    <2>4. QED
      BY <2>2, <2>3 DEF HandlerInv
  <1>14. ASSUME NEW s \in Sessions, Attach(s) PROVE HandlerInv'
    <2>1. HandlerOf(s)'
      BY <1>14, AttachEffect, HandlerOf(s), LifeOf(s)
         DEF HandlerOf, ThreadTo, ThreadAt, ThreadDone, SessionBut, IsNext, LifeOf, Types,
             HandlersOK, Handling
    <2>2. ASSUME NEW t \in Sessions \ {s}
          PROVE  HandlerOf(t)'
      BY <1>14, AttachEffect, HandlerOf(t), HandlerOf(s)
         DEF HandlerOf, ThreadTo, ThreadAt, ThreadDone, SessionBut, Types,
             HandlersOK, Handling
    <2>3. QED
      BY <2>1, <2>2 DEF HandlerInv
  <1>15. ASSUME NEW s \in Sessions, CloseSrcCtx(s) PROVE HandlerInv'
    <2>1. th[s].target # None
      BY <1>15, TargetKnown DEF CloseSrcCtx
    <2>2. /\ th[s].pc = "closeSrc" /\ ThreadTo(s, "closeAll") /\ lock' = lock
          /\ \A t \in Sessions : ss'[t].mdsrc = ss[t].mdsrc /\ ss'[t].onClose = ss[t].onClose
      BY <1>15, <2>1, CloseSrcCtxThread, CloseSrcCtxFields
    <2>3. HandlerOf(s)'
      BY <2>2, HandlerOf(s) DEF HandlerOf, ThreadTo, ThreadAt
    <2>4. ASSUME NEW t \in Sessions \ {s}
          PROVE  HandlerOf(t)'
      BY <2>2, HandlerOf(t) DEF HandlerOf, ThreadTo, ThreadAt
    <2>5. QED
      BY <2>3, <2>4 DEF HandlerInv
  <1>16. ASSUME NEW s \in Sessions, CloseAllClients(s) PROVE HandlerInv'
    <2>1. th[s].target # None
      BY <1>16, TargetKnown DEF CloseAllClients
    <2>2. HandlerOf(s)'
      BY <1>16, <2>1, CloseAllClientsEffect, HandlerOf(s), LifeOf(s)
         DEF HandlerOf, ThreadTo, ThreadAt, ThreadDone, SessionBut, IsNext, LifeOf, Types,
             HandlersOK, Handling
    <2>3. ASSUME NEW t \in Sessions \ {s}
          PROVE  HandlerOf(t)'
      BY <1>16, <2>1, CloseAllClientsEffect, HandlerOf(t), HandlerOf(s)
         DEF HandlerOf, ThreadTo, ThreadAt, ThreadDone, SessionBut, Types,
             HandlersOK, Handling
    <2>4. QED
      BY <2>2, <2>3 DEF HandlerInv
  <1>17. ASSUME NEW s \in Sessions, Drain(s) PROVE HandlerInv'
    <2>1. th[s].target # None
      BY <1>17, TargetKnown DEF Drain
    <2>2. HandlerOf(s)'
      BY <1>17, <2>1, DrainEffect, HandlerOf(s), LifeOf(s)
         DEF HandlerOf, ThreadTo, ThreadAt, ThreadDone, SessionBut, IsNext, LifeOf, Types,
             HandlersOK, Handling
    <2>3. ASSUME NEW t \in Sessions \ {s}
          PROVE  HandlerOf(t)'
      BY <1>17, <2>1, DrainEffect, HandlerOf(t), HandlerOf(s)
         DEF HandlerOf, ThreadTo, ThreadAt, ThreadDone, SessionBut, Types,
             HandlersOK, Handling
    <2>4. QED
      BY <2>2, <2>3 DEF HandlerInv
  <1>18. ASSUME NEW s \in Sessions, Closed(s) PROVE HandlerInv'
    <2>1. th[s].target # None
      BY <1>18, TargetKnown DEF Closed
    <2>2. HandlerOf(s)'
      BY <1>18, <2>1, ClosedEffect, HandlerOf(s), LifeOf(s)
         DEF HandlerOf, ThreadTo, ThreadAt, ThreadDone, SessionBut, IsNext, LifeOf, Types,
             HandlersOK, Handling
    <2>3. ASSUME NEW t \in Sessions \ {s}
          PROVE  HandlerOf(t)'
      BY <1>18, <2>1, ClosedEffect, HandlerOf(t), HandlerOf(s)
         DEF HandlerOf, ThreadTo, ThreadAt, ThreadDone, SessionBut, Types,
             HandlersOK, Handling
    <2>4. QED
      BY <2>2, <2>3 DEF HandlerInv
  <1>19. ASSUME NEW s \in Sessions, Play(s) PROVE HandlerInv'
    <2>1. HandlerOf(s)'
      BY <1>19, PlayEffect, HandlerOf(s), LifeOf(s)
         DEF HandlerOf, ThreadTo, ThreadAt, ThreadDone, SessionBut, IsNext, LifeOf, Types,
             HandlersOK, Handling
    <2>2. ASSUME NEW t \in Sessions \ {s}
          PROVE  HandlerOf(t)'
      BY <1>19, PlayEffect, HandlerOf(t), HandlerOf(s)
         DEF HandlerOf, ThreadTo, ThreadAt, ThreadDone, SessionBut, Types,
             HandlersOK, Handling
    <2>3. QED
      BY <2>1, <2>2 DEF HandlerInv
  <1>20. ASSUME NEW s \in Sessions, GetMdSource(s) PROVE HandlerInv'
    <2>1. ss[s].stream # None
      BY <1>20, StreamKnown DEF GetMdSource
    <2>2. HandlerOf(s)'
      BY <1>20, <2>1, GetMdSourceEffect, HandlerOf(s), LifeOf(s)
         DEF HandlerOf, ThreadTo, ThreadAt, ThreadDone, SessionBut, IsNext, LifeOf, Types,
             HandlersOK, Handling
    <2>3. ASSUME NEW t \in Sessions \ {s}
          PROVE  HandlerOf(t)'
      BY <1>20, <2>1, GetMdSourceEffect, HandlerOf(t), HandlerOf(s)
         DEF HandlerOf, ThreadTo, ThreadAt, ThreadDone, SessionBut, Types,
             HandlersOK, Handling
    <2>4. QED
      BY <2>2, <2>3 DEF HandlerInv
  <1>21. ASSUME NEW s \in Sessions, PlayOpened(s) PROVE HandlerInv'
    <2>1. HandlerOf(s)'
      BY <1>21, PlayOpenedEffect, HandlerOf(s), LifeOf(s)
         DEF HandlerOf, ThreadTo, ThreadAt, ThreadDone, SessionBut, IsNext, LifeOf, Types,
             HandlersOK, Handling
    <2>2. ASSUME NEW t \in Sessions \ {s}
          PROVE  HandlerOf(t)'
      BY <1>21, PlayOpenedEffect, HandlerOf(t), HandlerOf(s)
         DEF HandlerOf, ThreadTo, ThreadAt, ThreadDone, SessionBut, Types,
             HandlersOK, Handling
    <2>3. QED
      BY <2>1, <2>2 DEF HandlerInv
  <1>22. ASSUME NEW s \in Sessions, Join(s) PROVE HandlerInv'
    <2>1. HandlerOf(s)'
      BY <1>22, JoinEffect, HandlerOf(s), LifeOf(s)
         DEF HandlerOf, ThreadTo, ThreadAt, ThreadDone, SessionBut, IsNext, LifeOf, Types,
             HandlersOK, Handling
    <2>2. ASSUME NEW t \in Sessions \ {s}
          PROVE  HandlerOf(t)'
      BY <1>22, JoinEffect, HandlerOf(t), HandlerOf(s)
         DEF HandlerOf, ThreadTo, ThreadAt, ThreadDone, SessionBut, Types,
             HandlersOK, Handling
    <2>3. QED
      BY <2>1, <2>2 DEF HandlerInv
  <1>23. ASSUME NEW s \in Sessions, JoinAdd(s) PROVE HandlerInv'
    <2>1. th[s].src # None
      BY <1>23, SourceKnown DEF JoinAdd
    <2>2. HandlerOf(s)'
      BY <1>23, <2>1, JoinAddEffect, HandlerOf(s), LifeOf(s)
         DEF HandlerOf, ThreadTo, ThreadAt, ThreadDone, SessionBut, IsNext, LifeOf, Types,
             HandlersOK, Handling
    <2>3. ASSUME NEW t \in Sessions \ {s}
          PROVE  HandlerOf(t)'
      BY <1>23, <2>1, JoinAddEffect, HandlerOf(t), HandlerOf(s)
         DEF HandlerOf, ThreadTo, ThreadAt, ThreadDone, SessionBut, Types,
             HandlersOK, Handling
    <2>4. QED
      BY <2>2, <2>3 DEF HandlerInv
  <1>24. ASSUME NEW s \in Sessions, ReallyClose(s) PROVE HandlerInv'
    <2>1. HandlerOf(s)'
      BY <1>24, ReallyCloseEffect, HandlerOf(s), LifeOf(s)
         DEF HandlerOf, ThreadTo, ThreadAt, ThreadDone, SessionBut, IsNext, LifeOf, Types,
             HandlersOK, Handling
    <2>2. ASSUME NEW t \in Sessions \ {s}
          PROVE  HandlerOf(t)'
      BY <1>24, ReallyCloseEffect, HandlerOf(t), HandlerOf(s)
         DEF HandlerOf, ThreadTo, ThreadAt, ThreadDone, SessionBut, Types,
             HandlersOK, Handling
    <2>3. QED
      BY <2>1, <2>2 DEF HandlerInv
  <1>25. ASSUME NEW s \in Sessions, ClearSrcCtx(s) PROVE HandlerInv'
    <2>1. th[s].target # None
      BY <1>25, TargetKnown DEF ClearSrcCtx
    <2>2. HandlerOf(s)'
      BY <1>25, <2>1, ClearSrcCtxEffect, HandlerOf(s), LifeOf(s)
         DEF HandlerOf, ThreadTo, ThreadAt, ThreadDone, SessionBut, IsNext, LifeOf, Types,
             HandlersOK, Handling
    <2>3. ASSUME NEW t \in Sessions \ {s}
          PROVE  HandlerOf(t)'
      BY <1>25, <2>1, ClearSrcCtxEffect, HandlerOf(t), HandlerOf(s)
         DEF HandlerOf, ThreadTo, ThreadAt, ThreadDone, SessionBut, Types,
             HandlersOK, Handling
    <2>4. QED
      BY <2>2, <2>3 DEF HandlerInv
  <1>26. ASSUME NEW s \in Sessions, RemoveMdSource(s) PROVE HandlerInv'
    <2>1. HandlerOf(s)'
      BY <1>26, RemoveMdSourceEffect, HandlerOf(s), LifeOf(s)
         DEF HandlerOf, ThreadTo, ThreadAt, ThreadDone, SessionBut, IsNext, LifeOf, Types,
             HandlersOK, Handling
    <2>2. ASSUME NEW t \in Sessions \ {s}
          PROVE  HandlerOf(t)'
      BY <1>26, RemoveMdSourceEffect, HandlerOf(t), HandlerOf(s)
         DEF HandlerOf, ThreadTo, ThreadAt, ThreadDone, SessionBut, Types,
             HandlersOK, Handling
    <2>3. QED
      BY <2>1, <2>2 DEF HandlerInv
  <1>27. ASSUME NEW s \in Sessions, RemoveClientSession(s) PROVE HandlerInv'
    <2>1. th[s].target # None
      BY <1>27, TargetKnown DEF RemoveClientSession
    <2>2. HandlerOf(s)'
      BY <1>27, <2>1, RemoveClientSessionEffect, HandlerOf(s), LifeOf(s)
         DEF HandlerOf, ThreadTo, ThreadAt, ThreadDone, SessionBut, IsNext, LifeOf, Types,
             HandlersOK, Handling
    <2>3. ASSUME NEW t \in Sessions \ {s}
          PROVE  HandlerOf(t)'
      BY <1>27, <2>1, RemoveClientSessionEffect, HandlerOf(t), HandlerOf(s)
         DEF HandlerOf, ThreadTo, ThreadAt, ThreadDone, SessionBut, Types,
             HandlersOK, Handling
    <2>4. QED
      BY <2>2, <2>3 DEF HandlerInv
  <1>28. ASSUME NEW s \in Sessions, Destroy(s) PROVE HandlerInv'
    <2>1. ~ss[s].inMd
      BY <1>28, NotListed DEF Destroy
    <2>2. HandlerOf(s)'
      BY <1>28, <2>1, DestroyEffect, HandlerOf(s), LifeOf(s)
         DEF HandlerOf, ThreadTo, ThreadAt, ThreadDone, SessionBut, IsNext, LifeOf, Types,
             HandlersOK, Handling
    <2>3. ASSUME NEW t \in Sessions \ {s}
          PROVE  HandlerOf(t)'
      BY <1>28, <2>1, DestroyEffect, HandlerOf(t), HandlerOf(s)
         DEF HandlerOf, ThreadTo, ThreadAt, ThreadDone, SessionBut, Types,
             HandlersOK, Handling
    <2>4. QED
      BY <2>2, <2>3 DEF HandlerInv
  <1>29. ASSUME NEW s \in Sessions, Forward(s) PROVE HandlerInv'
    <2>1. UNCHANGED <<ss, th, lock>>
      BY <1>29, ForwardEffect
    <2>2. QED
      BY <2>1 DEF HandlerInv, HandlerOf
  <1>30. ASSUME NEW s \in Sessions, Deliver(s) PROVE HandlerInv'
    <2>1. UNCHANGED <<ss, th, lock>>
      BY <1>30, DeliverEffect
    <2>2. QED
      BY <2>1 DEF HandlerInv, HandlerOf
  <1>31. CASE UNCHANGED vars
    BY <1>31 DEF vars, HandlerInv, HandlerOf
  <1>32. QED
    BY <1>1, <1>2, <1>3, <1>4, <1>5, <1>6, <1>7, <1>8, <1>9, <1>10, <1>11,
       <1>12, <1>13, <1>14, <1>15, <1>16, <1>17, <1>18, <1>19, <1>20, <1>21,
       <1>22, <1>23, <1>24, <1>25, <1>26, <1>27, <1>28, <1>29, <1>30, <1>31
       DEF Next, Handlers

LEMMA StageInvStep == Types /\ Inv /\ [Next]_vars => StageInv'
  <1> SUFFICES ASSUME Types, Inv, [Next]_vars,
                      \A s \in Sessions : /\ HandlerOf(s) /\ StageOf(s) /\ PlayerOf(s)
                                          /\ LifeOf(s) /\ ClaimOf(s)
               PROVE  StageInv'
    BY DEF Inv, HandlerInv, StageInv, PlayerInv, LifeInv, RegistryInv
  <1>1. ASSUME NEW s \in Sessions, NEW n \in Names \cup {None}, InvokePublish(s, n)
        PROVE  StageInv'
    <2>1. UNCHANGED <<ss, th>>
      BY <1>1 DEF InvokePublish
    <2>2. QED
      BY <2>1 DEF StageInv, StageOf
  <1>2. ASSUME NEW s \in Sessions, NEW n \in Names \cup {None}, InvokePlay(s, n)
        PROVE  StageInv'
    <2>1. UNCHANGED <<ss, th>>
      BY <1>2 DEF InvokePlay
    <2>2. QED
      BY <2>1 DEF StageInv, StageOf
  <1>3. ASSUME NEW s \in Sessions, OnMedia(s) PROVE StageInv'
    <2>1. UNCHANGED <<ss, th>>
      BY <1>3, OnMediaEffect
    <2>2. QED
      BY <2>1 DEF StageInv, StageOf
  <1>4. ASSUME NEW s \in Sessions, ReleaseStream(s) PROVE StageInv'
    <2>1. UNCHANGED <<ss, th>>
      BY <1>4 DEF ReleaseStream
    <2>2. QED
      BY <2>1 DEF StageInv, StageOf
  <1>5. ASSUME NEW s \in Sessions, WriteCompleted(s) PROVE StageInv'
    <2>1. UNCHANGED <<ss, th>>
      BY <1>5 DEF WriteCompleted
    <2>2. QED
      BY <2>1 DEF StageInv, StageOf
  <1>6. ASSUME NEW s \in Sessions, OnClose(s) PROVE StageInv'
    <2>1. UNCHANGED <<ss, th>>
      BY <1>6 DEF OnClose
    <2>2. QED
      BY <2>1 DEF StageInv, StageOf
  <1>7. ASSUME NEW s \in Sessions, Publish(s) PROVE StageInv'
    <2>1. th[s].pc = "idle" /\ th[s].op = None
      BY <1>7, PublishEffect, TakenEffect, HandlerOf(s) DEF HandlerOf
    <2>2. StageOf(s)'
      <3>1. CASE UNCHANGED <<ss, th>>
        BY <3>1, StageOf(s) DEF StageOf
      <3>2. CASE UNCHANGED th /\ SessionBut(s, {"srcCtx", "mdsrc"})
        BY <2>1, <3>2, StageOf(s) DEF StageOf, SessionBut
      <3>3. CASE \E p \in {"kick", "exist"} :
                   ThreadAt(s, p, th[s].op, Head(inbox[s]).src, th[s].target)
        <4>1. ss'[s].srcCtx /\ ss'[s].valid /\ ss'[s].mdsrc = None /\ ss'[s].stream # None
          <5>1. th'[s].pc # "idle"
            BY <3>3 DEF ThreadAt
          <5>2. QED
            BY <1>7, <2>1, <5>1, PublishEffect DEF ThreadAt
        <4>2. th'[s].pc \in {"kick", "exist"} /\ th'[s].op = None
          BY <2>1, <3>3 DEF ThreadAt
        <4>3. QED
          BY <4>1, <4>2 DEF StageOf
      <3>4. QED
        BY <1>7, <3>1, <3>2, <3>3, PublishEffect
    <2>3. ASSUME NEW t \in Sessions \ {s}
          PROVE  StageOf(t)'
      BY <1>7, PublishEffect, StageOf(t) DEF StageOf, SessionBut, ThreadAt
    <2>4. QED
      BY <2>2, <2>3 DEF StageInv
  <1>8. ASSUME NEW s \in Sessions, IsExist(s) PROVE StageInv'
    <2>1. ss[s].stream # None
      BY <1>8, StreamKnown DEF IsExist
    <2>2. StageOf(s)'
      BY <1>8, <2>1, IsExistEffect, HandlerOf(s), StageOf(s)
         DEF StageOf, HandlerOf, ThreadTo, ThreadAt, ThreadDone, SessionBut
    <2>3. ASSUME NEW t \in Sessions \ {s}
          PROVE  StageOf(t)'
      BY <1>8, <2>1, IsExistEffect, StageOf(t)
         DEF StageOf, ThreadTo, ThreadAt, ThreadDone, SessionBut
    <2>4. QED
      BY <2>2, <2>3 DEF StageInv
  <1>9. ASSUME NEW s \in Sessions, Kick(s) PROVE StageInv'
    <2>1. ss[s].stream # None
      BY <1>9, StreamKnown DEF Kick
    <2>2. StageOf(s)'
      BY <1>9, <2>1, KickEffect, HandlerOf(s), StageOf(s)
         DEF StageOf, HandlerOf, ThreadTo, ThreadAt, ThreadDone, SessionBut
    <2>3. ASSUME NEW t \in Sessions \ {s}
          PROVE  StageOf(t)'
      BY <1>9, <2>1, KickEffect, StageOf(t)
         DEF StageOf, ThreadTo, ThreadAt, ThreadDone, SessionBut
    <2>4. QED
      BY <2>2, <2>3 DEF StageInv
  <1>10. ASSUME NEW s \in Sessions, KickTest(s) PROVE StageInv'
    <2>1. StageOf(s)'
      BY <1>10, KickTestEffect, HandlerOf(s), StageOf(s)
         DEF StageOf, HandlerOf, ThreadTo, ThreadAt, ThreadDone, SessionBut
    <2>2. ASSUME NEW t \in Sessions \ {s}
          PROVE  StageOf(t)'
      BY <1>10, KickTestEffect, StageOf(t)
         DEF StageOf, ThreadTo, ThreadAt, ThreadDone, SessionBut
    <2>3. QED
      BY <2>1, <2>2 DEF StageInv
  <1>11. ASSUME NEW s \in Sessions, KickForce(s) PROVE StageInv'
    <2>1. StageOf(s)'
      BY <1>11, KickForceEffect, HandlerOf(s), StageOf(s)
         DEF StageOf, HandlerOf, ThreadTo, ThreadAt, ThreadDone, SessionBut
    <2>2. ASSUME NEW t \in Sessions \ {s}
          PROVE  StageOf(t)'
      BY <1>11, KickForceEffect, StageOf(t)
         DEF StageOf, ThreadTo, ThreadAt, ThreadDone, SessionBut
    <2>3. QED
      BY <2>1, <2>2 DEF StageInv
  <1>12. ASSUME NEW s \in Sessions, Create(s) PROVE StageInv'
    <2>1. StageOf(s)'
      BY <1>12, CreateEffect, HandlerOf(s), StageOf(s)
         DEF StageOf, HandlerOf, ThreadTo, ThreadAt, ThreadDone, SessionBut
    <2>2. ASSUME NEW t \in Sessions \ {s}
          PROVE  StageOf(t)'
      BY <1>12, CreateEffect, StageOf(t)
         DEF StageOf, ThreadTo, ThreadAt, ThreadDone, SessionBut
    <2>3. QED
      BY <2>1, <2>2 DEF StageInv
  <1>13. ASSUME NEW s \in Sessions, Add(s) PROVE StageInv'
    <2>1. ss[s].stream # None
      BY <1>13, StreamKnown DEF Add
    <2>2. StageOf(s)'
      BY <1>13, <2>1, AddEffect, HandlerOf(s), StageOf(s)
         DEF StageOf, HandlerOf, ThreadTo, ThreadAt, ThreadDone, SessionBut
    <2>3. ASSUME NEW t \in Sessions \ {s}
          PROVE  StageOf(t)'
      BY <1>13, <2>1, AddEffect, StageOf(t)
         DEF StageOf, ThreadTo, ThreadAt, ThreadDone, SessionBut
    <2>4. QED
      BY <2>2, <2>3 DEF StageInv
  <1>14. ASSUME NEW s \in Sessions, Attach(s) PROVE StageInv'
    <2>1. StageOf(s)'
      BY <1>14, AttachEffect, HandlerOf(s), StageOf(s)
         DEF StageOf, HandlerOf, ThreadTo, ThreadAt, ThreadDone, SessionBut
    <2>2. ASSUME NEW t \in Sessions \ {s}
          PROVE  StageOf(t)'
      BY <1>14, AttachEffect, StageOf(t)
         DEF StageOf, ThreadTo, ThreadAt, ThreadDone, SessionBut
    <2>3. QED
      BY <2>1, <2>2 DEF StageInv
  <1>15. ASSUME NEW s \in Sessions, CloseSrcCtx(s) PROVE StageInv'
    <2>1. th[s].target # None
      BY <1>15, TargetKnown DEF CloseSrcCtx
    <2>2. StageOf(s)'
      BY <1>15, <2>1, CloseSrcCtxThread, CloseSrcCtxFields, HandlerOf(s), StageOf(s)
         DEF StageOf, HandlerOf, ThreadTo, ThreadAt, ThreadDone, SessionBut
    <2>3. ASSUME NEW t \in Sessions \ {s}
          PROVE  StageOf(t)'
      BY <1>15, <2>1, CloseSrcCtxThread, CloseSrcCtxFields, StageOf(t)
         DEF StageOf, ThreadTo, ThreadAt, ThreadDone, SessionBut
    <2>4. QED
      BY <2>2, <2>3 DEF StageInv
  <1>16. ASSUME NEW s \in Sessions, CloseAllClients(s) PROVE StageInv'
    <2>1. th[s].target # None
      BY <1>16, TargetKnown DEF CloseAllClients
    <2>2. StageOf(s)'
      BY <1>16, <2>1, CloseAllClientsEffect, HandlerOf(s), StageOf(s)
         DEF StageOf, HandlerOf, ThreadTo, ThreadAt, ThreadDone, SessionBut
    <2>3. ASSUME NEW t \in Sessions \ {s}
          PROVE  StageOf(t)'
      BY <1>16, <2>1, CloseAllClientsEffect, StageOf(t)
         DEF StageOf, ThreadTo, ThreadAt, ThreadDone, SessionBut
    <2>4. QED
      BY <2>2, <2>3 DEF StageInv
  <1>17. ASSUME NEW s \in Sessions, Drain(s) PROVE StageInv'
    <2>1. th[s].target # None
      BY <1>17, TargetKnown DEF Drain
    <2>2. StageOf(s)'
      BY <1>17, <2>1, DrainEffect, HandlerOf(s), StageOf(s)
         DEF StageOf, HandlerOf, ThreadTo, ThreadAt, ThreadDone, SessionBut
    <2>3. ASSUME NEW t \in Sessions \ {s}
          PROVE  StageOf(t)'
      BY <1>17, <2>1, DrainEffect, StageOf(t)
         DEF StageOf, ThreadTo, ThreadAt, ThreadDone, SessionBut
    <2>4. QED
      BY <2>2, <2>3 DEF StageInv
  <1>18. ASSUME NEW s \in Sessions, Closed(s) PROVE StageInv'
    <2>1. th[s].target # None
      BY <1>18, TargetKnown DEF Closed
    <2>2. StageOf(s)'
      BY <1>18, <2>1, ClosedEffect, HandlerOf(s), StageOf(s)
         DEF StageOf, HandlerOf, ThreadTo, ThreadAt, ThreadDone, SessionBut
    <2>3. ASSUME NEW t \in Sessions \ {s}
          PROVE  StageOf(t)'
      BY <1>18, <2>1, ClosedEffect, StageOf(t)
         DEF StageOf, ThreadTo, ThreadAt, ThreadDone, SessionBut
    <2>4. QED
      BY <2>2, <2>3 DEF StageInv
  <1>19. ASSUME NEW s \in Sessions, Play(s) PROVE StageInv'
    <2>1. th[s].pc = "idle" /\ th[s].op = None
      BY <1>19, PlayEffect, TakenEffect, HandlerOf(s) DEF HandlerOf
    <2>2. StageOf(s)'
      <3>1. CASE UNCHANGED <<ss, th>>
        BY <3>1, StageOf(s) DEF StageOf
      <3>2. CASE ~UNCHANGED <<ss, th>>
        <4>1. /\ ~ss[s].srcCtx /\ SessionBut(s, {"stream"}) /\ ss'[s].stream \in Names
              /\ ThreadAt(s, IF ss[s].mdsrc = None THEN "find" ELSE "opened",
                          th[s].op, Head(inbox[s]).src, th[s].target)
          BY <1>19, <3>2, PlayEffect
        <4>2. Head(inbox[s]).src \in {None, ss[s].mdsrc}
          <5>1. /\ Head(inbox[s]) = inbox[s][1] /\ Head(inbox[s]).kind = "play"
                /\ 1 \in 1..Len(inbox[s])
            BY <1>19, PlayEffect, TakenEffect DEF Types, NetOK
          <5>2. QED
            BY <4>1, <5>1 DEF Inv, HearingInv, PlayOf
        <4>3. ~ss'[s].srcCtx /\ ss'[s].mdsrc = ss[s].mdsrc /\ ss'[s].stream # None
          BY <4>1 DEF SessionBut
        <4>4. QED
          BY <2>1, <4>1, <4>2, <4>3 DEF StageOf, ThreadAt
      <3>3. QED
        BY <3>1, <3>2
    <2>3. ASSUME NEW t \in Sessions \ {s}
          PROVE  StageOf(t)'
      BY <1>19, PlayEffect, StageOf(t) DEF StageOf, SessionBut, ThreadAt
    <2>4. QED
      BY <2>2, <2>3 DEF StageInv
  <1>20. ASSUME NEW s \in Sessions, GetMdSource(s) PROVE StageInv'
    <2>1. ss[s].stream # None
      BY <1>20, StreamKnown DEF GetMdSource
    <2>2. StageOf(s)'
      BY <1>20, <2>1, GetMdSourceEffect, HandlerOf(s), StageOf(s)
         DEF StageOf, HandlerOf, ThreadTo, ThreadAt, ThreadDone, SessionBut
    <2>3. ASSUME NEW t \in Sessions \ {s}
          PROVE  StageOf(t)'
      BY <1>20, <2>1, GetMdSourceEffect, StageOf(t)
         DEF StageOf, ThreadTo, ThreadAt, ThreadDone, SessionBut
    <2>4. QED
      BY <2>2, <2>3 DEF StageInv
  <1>21. ASSUME NEW s \in Sessions, PlayOpened(s) PROVE StageInv'
    <2>1. StageOf(s)'
      BY <1>21, PlayOpenedEffect, HandlerOf(s), StageOf(s)
         DEF StageOf, HandlerOf, ThreadTo, ThreadAt, ThreadDone, SessionBut
    <2>2. ASSUME NEW t \in Sessions \ {s}
          PROVE  StageOf(t)'
      BY <1>21, PlayOpenedEffect, StageOf(t)
         DEF StageOf, ThreadTo, ThreadAt, ThreadDone, SessionBut
    <2>3. QED
      BY <2>1, <2>2 DEF StageInv
  <1>22. ASSUME NEW s \in Sessions, Join(s) PROVE StageInv'
    <2>1. StageOf(s)'
      BY <1>22, JoinEffect, HandlerOf(s), StageOf(s)
         DEF StageOf, HandlerOf, ThreadTo, ThreadAt, ThreadDone, SessionBut
    <2>2. ASSUME NEW t \in Sessions \ {s}
          PROVE  StageOf(t)'
      BY <1>22, JoinEffect, StageOf(t)
         DEF StageOf, ThreadTo, ThreadAt, ThreadDone, SessionBut
    <2>3. QED
      BY <2>1, <2>2 DEF StageInv
  <1>23. ASSUME NEW s \in Sessions, JoinAdd(s) PROVE StageInv'
    <2>1. th[s].src # None
      BY <1>23, SourceKnown DEF JoinAdd
    <2>2. StageOf(s)'
      BY <1>23, <2>1, JoinAddEffect, HandlerOf(s), StageOf(s)
         DEF StageOf, HandlerOf, ThreadTo, ThreadAt, ThreadDone, SessionBut
    <2>3. ASSUME NEW t \in Sessions \ {s}
          PROVE  StageOf(t)'
      BY <1>23, <2>1, JoinAddEffect, StageOf(t)
         DEF StageOf, ThreadTo, ThreadAt, ThreadDone, SessionBut
    <2>4. QED
      BY <2>2, <2>3 DEF StageInv
  <1>24. ASSUME NEW s \in Sessions, ReallyClose(s) PROVE StageInv'
    <2>1. StageOf(s)'
      BY <1>24, ReallyCloseEffect, HandlerOf(s), StageOf(s)
         DEF StageOf, HandlerOf, ThreadTo, ThreadAt, ThreadDone, SessionBut
    <2>2. ASSUME NEW t \in Sessions \ {s}
          PROVE  StageOf(t)'
      BY <1>24, ReallyCloseEffect, StageOf(t)
         DEF StageOf, ThreadTo, ThreadAt, ThreadDone, SessionBut
    <2>3. QED
      BY <2>1, <2>2 DEF StageInv
  <1>25. ASSUME NEW s \in Sessions, ClearSrcCtx(s) PROVE StageInv'
    <2>1. th[s].target # None
      BY <1>25, TargetKnown DEF ClearSrcCtx
    <2>2. StageOf(s)'
      BY <1>25, <2>1, ClearSrcCtxEffect, HandlerOf(s), StageOf(s)
         DEF StageOf, HandlerOf, ThreadTo, ThreadAt, ThreadDone, SessionBut
    <2>3. ASSUME NEW t \in Sessions \ {s}
          PROVE  StageOf(t)'
      BY <1>25, <2>1, ClearSrcCtxEffect, StageOf(t)
         DEF StageOf, ThreadTo, ThreadAt, ThreadDone, SessionBut
    <2>4. QED
      BY <2>2, <2>3 DEF StageInv
  <1>26. ASSUME NEW s \in Sessions, RemoveMdSource(s) PROVE StageInv'
    <2>1. StageOf(s)'
      BY <1>26, RemoveMdSourceEffect, HandlerOf(s), StageOf(s)
         DEF StageOf, HandlerOf, ThreadTo, ThreadAt, ThreadDone, SessionBut
    <2>2. ASSUME NEW t \in Sessions \ {s}
          PROVE  StageOf(t)'
      BY <1>26, RemoveMdSourceEffect, StageOf(t)
         DEF StageOf, ThreadTo, ThreadAt, ThreadDone, SessionBut
    <2>3. QED
      BY <2>1, <2>2 DEF StageInv
  <1>27. ASSUME NEW s \in Sessions, RemoveClientSession(s) PROVE StageInv'
    <2>1. th[s].target # None
      BY <1>27, TargetKnown DEF RemoveClientSession
    <2>2. StageOf(s)'
      BY <1>27, <2>1, RemoveClientSessionEffect, HandlerOf(s), StageOf(s)
         DEF StageOf, HandlerOf, ThreadTo, ThreadAt, ThreadDone, SessionBut
    <2>3. ASSUME NEW t \in Sessions \ {s}
          PROVE  StageOf(t)'
      BY <1>27, <2>1, RemoveClientSessionEffect, StageOf(t)
         DEF StageOf, ThreadTo, ThreadAt, ThreadDone, SessionBut
    <2>4. QED
      BY <2>2, <2>3 DEF StageInv
  <1>28. ASSUME NEW s \in Sessions, Destroy(s) PROVE StageInv'
    <2>1. ~ss[s].inMd
      BY <1>28, NotListed DEF Destroy
    <2>2. StageOf(s)'
      BY <1>28, <2>1, DestroyEffect, HandlerOf(s), StageOf(s)
         DEF StageOf, HandlerOf, ThreadTo, ThreadAt, ThreadDone, SessionBut
    <2>3. ASSUME NEW t \in Sessions \ {s}
          PROVE  StageOf(t)'
      BY <1>28, <2>1, DestroyEffect, StageOf(t)
         DEF StageOf, ThreadTo, ThreadAt, ThreadDone, SessionBut
    <2>4. QED
      BY <2>2, <2>3 DEF StageInv
  <1>29. ASSUME NEW s \in Sessions, Forward(s) PROVE StageInv'
    <2>1. UNCHANGED <<ss, th>>
      BY <1>29, ForwardEffect
    <2>2. QED
      BY <2>1 DEF StageInv, StageOf
  <1>30. ASSUME NEW s \in Sessions, Deliver(s) PROVE StageInv'
    <2>1. UNCHANGED <<ss, th>>
      BY <1>30, DeliverEffect
    <2>2. QED
      BY <2>1 DEF StageInv, StageOf
  <1>31. CASE UNCHANGED vars
    BY <1>31 DEF vars, StageInv, StageOf
  <1>32. QED
    BY <1>1, <1>2, <1>3, <1>4, <1>5, <1>6, <1>7, <1>8, <1>9, <1>10, <1>11,
       <1>12, <1>13, <1>14, <1>15, <1>16, <1>17, <1>18, <1>19, <1>20, <1>21,
       <1>22, <1>23, <1>24, <1>25, <1>26, <1>27, <1>28, <1>29, <1>30, <1>31
       DEF Next, Handlers

-----------------------------------------------------------------------------
(* The life of a session.                                                    *)

LEMMA LifeKept ==
  ASSUME Types, NEW t \in Sessions, LifeOf(t), inbox'[t] = inbox[t],
         conn[t] = "closed" => conn'[t] = "closed", called \subseteq called',
         ss'[t].srcCtx = ss[t].srcCtx, ss'[t].onClose = ss[t].onClose,
         ss'[t].alive = ss[t].alive, ~ss[t].alive => th'[t].pc = "idle" /\ ss'[t].mdsrc = None
  PROVE  LifeOf(t)'
  BY DEF LifeOf

\* A session that executes an event is there.
LEMMA Alive ==
  ASSUME NEW s \in Sessions, LifeOf(s), th[s].pc # "idle" \/ inbox[s] # <<>>
  PROVE  ss[s].alive
  BY DEF LifeOf

LEMMA TakenLife ==
  ASSUME Types, NEW s \in Sessions, LifeOf(s), NEW k, IsNext(s, k), Taken(s),
         UNCHANGED called, NoneEnds, ss'[s].srcCtx => ss[s].srcCtx \/ k = "publish",
         ss'[s].onClose => k = "close", ss'[s].alive = ss[s].alive
  PROVE  LifeOf(s)'
  <1>1. /\ inbox[s] # <<>> /\ Len(inbox[s]) \in Nat /\ Len(inbox'[s]) = Len(inbox[s]) - 1
        /\ Len(inbox[s]) > 0 /\ inbox'[s] \in Seq(Events) /\ inbox[s][1].kind = k
        /\ \A i \in 1..Len(inbox'[s]) : inbox'[s][i] = inbox[s][i + 1]
    <2>1. inbox[s] \in Seq(Events)
      BY DEF Types, NetOK
    <2>2. QED
      BY <2>1, TakenEffect
  <1>2. ss[s].alive /\ ~ss[s].onClose
    BY <1>1 DEF LifeOf
  <1>3. k = "publish" => ~ss[s].srcCtx /\ s \in called
    BY <1>1 DEF LifeOf
  <1>4. k = "close" => Len(inbox[s]) = 1 /\ conn[s] = "closed"
    <2>1. 1 \in 1..Len(inbox[s])
      BY <1>1
    <2>2. QED
      BY <1>1, <2>1 DEF LifeOf
  <1>5. ASSUME NEW i \in 1..Len(inbox'[s])
        PROVE  /\ inbox'[s][i].kind = "publish" =>
                    /\ ~ss'[s].srcCtx /\ s \in called'
                    /\ \A j \in 1..Len(inbox'[s]) : inbox'[s][j].kind = "publish" => j = i
               /\ inbox'[s][i].kind = "close" => i = Len(inbox'[s]) /\ conn'[s] = "closed"
    <2>1. i + 1 \in 1..Len(inbox[s]) /\ i \in Int
      BY <1>1
    <2>2. ASSUME inbox'[s][i].kind = "publish"
          PROVE  /\ ~ss'[s].srcCtx /\ s \in called'
                 /\ \A j \in 1..Len(inbox'[s]) : inbox'[s][j].kind = "publish" => j = i
      <3>1. inbox[s][i + 1].kind = "publish"
        BY <1>1, <2>2
      <3>2. /\ ~ss[s].srcCtx /\ s \in called
            /\ \A j \in 1..Len(inbox[s]) : inbox[s][j].kind = "publish" => j = i + 1
        BY <2>1, <3>1 DEF LifeOf
      <3>3. 1 \in 1..Len(inbox[s]) /\ 1 # i + 1
        BY <1>1, <2>1
      <3>4. k # "publish"
        BY <1>1, <3>2, <3>3
      <3>5. ASSUME NEW j \in 1..Len(inbox'[s]), inbox'[s][j].kind = "publish"
            PROVE  j = i
        <4>1. j + 1 \in 1..Len(inbox[s]) /\ inbox[s][j + 1].kind = "publish" /\ j \in Int
          BY <1>1, <3>5
        <4>2. j + 1 = i + 1
          BY <3>2, <4>1
        <4>3. QED
          BY <2>1, <4>1, <4>2
      <3>6. QED
        BY <3>2, <3>4, <3>5
    <2>3. ASSUME inbox'[s][i].kind = "close"
          PROVE  i = Len(inbox'[s]) /\ conn'[s] = "closed"
      <3>1. inbox[s][i + 1].kind = "close"
        BY <1>1, <2>3
      <3>2. i + 1 = Len(inbox[s]) /\ conn[s] = "closed"
        BY <2>1, <3>1 DEF LifeOf
      <3>3. QED
        BY <1>1, <2>1, <3>2 DEF NoneEnds
    <2>4. QED
      BY <2>2, <2>3
  <1>6. ss'[s].onClose => inbox'[s] = <<>> /\ conn'[s] = "closed"
    <2>1. k = "close" => Len(inbox'[s]) = 0
      BY <1>1, <1>4
    <2>2. QED
      BY <1>1, <1>4, <2>1 DEF NoneEnds
  <1>7. ss'[s].srcCtx => s \in called'
    BY <1>3 DEF LifeOf
  <1>8. QED
    BY <1>2, <1>5, <1>6, <1>7 DEF LifeOf


LEMMA LifeInvStep == Types /\ Inv /\ [Next]_vars => LifeInv'
  <1> SUFFICES ASSUME Types, Inv, [Next]_vars,
                      \A s \in Sessions : LifeOf(s) /\ HandlerOf(s)
               PROVE  LifeInv'
    BY DEF Inv, HandlerInv, LifeInv
  <1>1. ASSUME NEW s \in Sessions, NEW n \in Names \cup {None}, InvokePublish(s, n)
        PROVE  LifeInv'
    <2>1. /\ Post(s, "publish", n) /\ UNCHANGED <<ss, th>> /\ conn[s] # "closed"
          /\ called \subseteq called' /\ \A t \in Sessions \ {s} : conn'[t] = conn[t]
      BY <1>1 DEF InvokePublish, Types, NetOK
    <2>2. ASSUME NEW t \in Sessions \ {s}
          PROVE  LifeOf(t)'
      BY <2>1, PostEffect, LifeOf(t), LifeKept DEF LifeOf
    <2>3. LifeOf(s)'
      <3>1. /\ Len(inbox[s]) \in Nat /\ Len(inbox'[s]) = Len(inbox[s]) + 1
            /\ inbox'[s][Len(inbox'[s])].kind = "publish"
            /\ \A i \in 1..Len(inbox[s]) : inbox'[s][i] = inbox[s][i]
        <4>1. inbox[s] \in Seq(Events)
          BY DEF Types, NetOK
        <4>2. /\ Len(inbox'[s]) = Len(inbox[s]) + 1
              /\ inbox'[s][Len(inbox'[s])] = Event("publish", n, ss[s].mdsrc)
              /\ \A i \in 1..Len(inbox[s]) : inbox'[s][i] = inbox[s][i]
          BY <2>1, PostEffect
        <4>3. QED
          BY <4>1, <4>2 DEF Event
      <3>2. /\ \A i \in 1..Len(inbox[s]) : inbox[s][i].kind # "close"
            /\ ~ss[s].onClose /\ ss[s].alive
        BY <2>1, LifeOf(s) DEF LifeOf
      <3>3. /\ s \in called' /\ ~ss[s].srcCtx
            /\ \A i \in 1..Len(inbox[s]) : inbox[s][i].kind # "publish"
        BY <1>1, LifeOf(s) DEF InvokePublish, LifeOf
      <3>4. ASSUME NEW i \in 1..Len(inbox'[s])
            PROVE  /\ inbox'[s][i].kind = "publish" =>
                        /\ ~ss'[s].srcCtx /\ s \in called'
                        /\ \A j \in 1..Len(inbox'[s]) : inbox'[s][j].kind = "publish" => j = i
                   /\ inbox'[s][i].kind = "close" => i = Len(inbox'[s]) /\ conn'[s] = "closed"
        <4>1. CASE i \in 1..Len(inbox[s])
          <5>1. inbox'[s][i].kind # "close"
            BY <3>1, <3>2, <4>1
          <5>2. ASSUME inbox'[s][i].kind = "publish"
                PROVE  /\ ~ss'[s].srcCtx /\ s \in called'
                       /\ \A j \in 1..Len(inbox'[s]) : inbox'[s][j].kind = "publish" => j = i
            <6>1. inbox[s][i].kind = "publish"
              BY <3>1, <4>1, <5>2
            <6>2. /\ ~ss[s].srcCtx /\ s \in called
                  /\ \A j \in 1..Len(inbox[s]) : inbox[s][j].kind = "publish" => j = i
              BY <4>1, <6>1, LifeOf(s) DEF LifeOf
            <6>3. ASSUME NEW j \in 1..Len(inbox'[s]), inbox'[s][j].kind = "publish"
                  PROVE  j = i
              <7>1. CASE j \in 1..Len(inbox[s])
                BY <3>1, <6>2, <6>3, <7>1
              <7>2. CASE j = Len(inbox'[s])
                BY <3>1, <3>3, <4>1, <6>1, <6>3, <7>2
              <7>3. QED
                BY <3>1, <7>1, <7>2
            <6>4. QED
              BY <2>1, <6>2, <6>3
          <5>3. QED
            BY <5>1, <5>2
        <4>2. CASE i = Len(inbox'[s])
          BY <2>1, <3>1, <3>3, <4>2
        <4>3. QED
          BY <3>1, <4>1, <4>2
      <3>5. ss'[s].srcCtx => s \in called'
        BY <2>1, LifeOf(s) DEF LifeOf
      <3>6. QED
        BY <2>1, <3>2, <3>4, <3>5 DEF LifeOf
    <2>4. QED
      BY <2>2, <2>3 DEF LifeInv
  <1>2. ASSUME NEW s \in Sessions, NEW n \in Names \cup {None}, InvokePlay(s, n) PROVE LifeInv'
    <2>1. /\ Post(s, "play", n) /\ UNCHANGED <<ss, th>> /\ conn[s] # "closed"
          /\ called \subseteq called' /\ \A t \in Sessions \ {s} : conn'[t] = conn[t]
      BY <1>2 DEF InvokePlay, Types, NetOK
    <2>2. ASSUME NEW t \in Sessions \ {s}
          PROVE  LifeOf(t)'
      BY <2>1, PostEffect, LifeOf(t), LifeKept DEF LifeOf
    <2>3. LifeOf(s)'
      <3>1. /\ Len(inbox[s]) \in Nat /\ Len(inbox'[s]) = Len(inbox[s]) + 1
            /\ inbox'[s][Len(inbox'[s])].kind = "play"
            /\ \A i \in 1..Len(inbox[s]) : inbox'[s][i] = inbox[s][i]
        <4>1. inbox[s] \in Seq(Events)
          BY DEF Types, NetOK
        <4>2. /\ Len(inbox'[s]) = Len(inbox[s]) + 1
              /\ inbox'[s][Len(inbox'[s])] = Event("play", n, ss[s].mdsrc)
              /\ \A i \in 1..Len(inbox[s]) : inbox'[s][i] = inbox[s][i]
          BY <2>1, PostEffect
        <4>3. QED
          BY <4>1, <4>2 DEF Event
      <3>2. /\ \A i \in 1..Len(inbox[s]) : inbox[s][i].kind # "close"
            /\ ~ss[s].onClose /\ ss[s].alive
        BY <2>1, LifeOf(s) DEF LifeOf
      <3>3. "play" \notin {"publish", "close"}
        OBVIOUS
      <3>4. ASSUME NEW i \in 1..Len(inbox'[s])
            PROVE  /\ inbox'[s][i].kind = "publish" =>
                        /\ ~ss'[s].srcCtx /\ s \in called'
                        /\ \A j \in 1..Len(inbox'[s]) : inbox'[s][j].kind = "publish" => j = i
                   /\ inbox'[s][i].kind = "close" => i = Len(inbox'[s]) /\ conn'[s] = "closed"
        <4>1. CASE i \in 1..Len(inbox[s])
          <5>1. inbox'[s][i].kind # "close"
            BY <3>1, <3>2, <4>1
          <5>2. ASSUME inbox'[s][i].kind = "publish"
                PROVE  /\ ~ss'[s].srcCtx /\ s \in called'
                       /\ \A j \in 1..Len(inbox'[s]) : inbox'[s][j].kind = "publish" => j = i
            <6>1. inbox[s][i].kind = "publish"
              BY <3>1, <4>1, <5>2
            <6>2. /\ ~ss[s].srcCtx /\ s \in called
                  /\ \A j \in 1..Len(inbox[s]) : inbox[s][j].kind = "publish" => j = i
              BY <4>1, <6>1, LifeOf(s) DEF LifeOf
            <6>3. ASSUME NEW j \in 1..Len(inbox'[s]), inbox'[s][j].kind = "publish"
                  PROVE  j = i
              <7>1. CASE j \in 1..Len(inbox[s])
                BY <3>1, <6>2, <6>3, <7>1
              <7>2. CASE j = Len(inbox'[s])
                BY <3>1, <3>3, <4>1, <6>1, <6>3, <7>2
              <7>3. QED
                BY <3>1, <7>1, <7>2
            <6>4. QED
              BY <2>1, <6>2, <6>3
          <5>3. QED
            BY <5>1, <5>2
        <4>2. CASE i = Len(inbox'[s])
          BY <2>1, <3>1, <3>3, <4>2
        <4>3. QED
          BY <3>1, <4>1, <4>2
      <3>5. ss'[s].srcCtx => s \in called'
        BY <2>1, LifeOf(s) DEF LifeOf
      <3>6. QED
        BY <2>1, <3>2, <3>4, <3>5 DEF LifeOf
    <2>4. QED
      BY <2>2, <2>3 DEF LifeInv
  <1>3. ASSUME NEW s \in Sessions, OnMedia(s) PROVE LifeInv'
    <2>1. ASSUME NEW t \in Sessions
          PROVE  LifeOf(t)'
      BY <1>3, OnMediaEffect, LifeOf(t), LifeKept DEF LifeOf, net, Types, NoneEnds
    <2>2. QED
      BY <2>1 DEF LifeInv
  <1>4. ASSUME NEW s \in Sessions, ReleaseStream(s) PROVE LifeInv'
    <2>1. ASSUME NEW t \in Sessions
          PROVE  LifeOf(t)'
      BY <1>4, LifeOf(t), LifeKept DEF ReleaseStream, LifeOf, net, Types, NoneEnds
    <2>2. QED
      BY <2>1 DEF LifeInv
  <1>5. ASSUME NEW s \in Sessions, WriteCompleted(s) PROVE LifeInv'
    <2>1. NoneEnds
      BY <1>5, ClosingEndsNone DEF WriteCompleted, Types
    <2>2. ASSUME NEW t \in Sessions
          PROVE  LifeOf(t)'
      BY <1>5, <2>1, LifeOf(t), LifeKept DEF WriteCompleted, LifeOf, NoneEnds
    <2>3. QED
      BY <2>2 DEF LifeInv
  <1>6. ASSUME NEW s \in Sessions, OnClose(s) PROVE LifeInv'
    <2>1. /\ Post(s, "close", None) /\ UNCHANGED <<ss, th>> /\ conn[s] # "closed"
          /\ called \subseteq called' /\ \A t \in Sessions \ {s} : conn'[t] = conn[t]
      BY <1>6 DEF OnClose, Types, NetOK
    <2>2. ASSUME NEW t \in Sessions \ {s}
          PROVE  LifeOf(t)'
      BY <2>1, PostEffect, LifeOf(t), LifeKept DEF LifeOf
    <2>3. LifeOf(s)'
      <3>1. /\ Len(inbox[s]) \in Nat /\ Len(inbox'[s]) = Len(inbox[s]) + 1
            /\ inbox'[s][Len(inbox'[s])].kind = "close"
            /\ \A i \in 1..Len(inbox[s]) : inbox'[s][i] = inbox[s][i]
        <4>1. inbox[s] \in Seq(Events)
          BY DEF Types, NetOK
        <4>2. /\ Len(inbox'[s]) = Len(inbox[s]) + 1
              /\ inbox'[s][Len(inbox'[s])] = Event("close", None, ss[s].mdsrc)
              /\ \A i \in 1..Len(inbox[s]) : inbox'[s][i] = inbox[s][i]
          BY <2>1, PostEffect
        <4>3. QED
          BY <4>1, <4>2 DEF Event
      <3>2. /\ \A i \in 1..Len(inbox[s]) : inbox[s][i].kind # "close"
            /\ ~ss[s].onClose /\ ss[s].alive
        BY <2>1, LifeOf(s) DEF LifeOf
      <3>3. "close" # "publish" /\ conn'[s] = "closed"
        BY <1>6 DEF OnClose, Types, NetOK
      <3>4. ASSUME NEW i \in 1..Len(inbox'[s])
            PROVE  /\ inbox'[s][i].kind = "publish" =>
                        /\ ~ss'[s].srcCtx /\ s \in called'
                        /\ \A j \in 1..Len(inbox'[s]) : inbox'[s][j].kind = "publish" => j = i
                   /\ inbox'[s][i].kind = "close" => i = Len(inbox'[s]) /\ conn'[s] = "closed"
        <4>1. CASE i \in 1..Len(inbox[s])
          <5>1. inbox'[s][i].kind # "close"
            BY <3>1, <3>2, <4>1
          <5>2. ASSUME inbox'[s][i].kind = "publish"
                PROVE  /\ ~ss'[s].srcCtx /\ s \in called'
                       /\ \A j \in 1..Len(inbox'[s]) : inbox'[s][j].kind = "publish" => j = i
            <6>1. inbox[s][i].kind = "publish"
              BY <3>1, <4>1, <5>2
            <6>2. /\ ~ss[s].srcCtx /\ s \in called
                  /\ \A j \in 1..Len(inbox[s]) : inbox[s][j].kind = "publish" => j = i
              BY <4>1, <6>1, LifeOf(s) DEF LifeOf
            <6>3. ASSUME NEW j \in 1..Len(inbox'[s]), inbox'[s][j].kind = "publish"
                  PROVE  j = i
              <7>1. CASE j \in 1..Len(inbox[s])
                BY <3>1, <6>2, <6>3, <7>1
              <7>2. CASE j = Len(inbox'[s])
                BY <3>1, <3>3, <4>1, <6>1, <6>3, <7>2
              <7>3. QED
                BY <3>1, <7>1, <7>2
            <6>4. QED
              BY <2>1, <6>2, <6>3
          <5>3. QED
            BY <5>1, <5>2
        <4>2. CASE i = Len(inbox'[s])
          BY <2>1, <3>1, <3>3, <4>2
        <4>3. QED
          BY <3>1, <4>1, <4>2
      <3>5. ss'[s].srcCtx => s \in called'
        BY <2>1, LifeOf(s) DEF LifeOf
      <3>6. QED
        BY <2>1, <3>2, <3>4, <3>5 DEF LifeOf
    <2>4. QED
      BY <2>2, <2>3 DEF LifeInv
  <1>7. ASSUME NEW s \in Sessions, Publish(s) PROVE LifeInv'
    <2>1. LifeOf(s)'
      <3>1. /\ IsNext(s, "publish") /\ Taken(s) /\ UNCHANGED called /\ NoneEnds
            /\ SessionBut(s, {"srcCtx", "mdsrc", "stream", "valid", "onClose"}) \/ ss' = ss
        BY <1>7, PublishEffect, ConnKept DEF SessionBut, Types, net
      <3>2. inbox[s] # <<>> /\ ~ss[s].onClose
        BY <3>1, LifeOf(s) DEF LifeOf, IsNext
      <3>3. QED
        BY <1>7, <3>1, <3>2, PublishEffect, TakenLife DEF SessionBut
    <2>2. ASSUME NEW t \in Sessions \ {s}
          PROVE  LifeOf(t)'
      <3>1. IsNext(s, "publish") /\ Taken(s) /\ NoneEnds /\ called' = called
        BY <1>7, PublishEffect
      <3>2. inbox'[t] = inbox[t]
        BY <3>1, TakenEffect
      <3>3. ss'[t] = ss[t] /\ th'[t] = th[t]
        BY <1>7, PublishEffect DEF SessionBut, ThreadAt
      <3>4. conn[t] = "closed" => conn'[t] = "closed"
        BY <3>1 DEF NoneEnds
      <3>5. ~ss[t].alive => th'[t].pc = "idle" /\ ss'[t].mdsrc = None
        BY <3>3, LifeOf(t) DEF LifeOf
      <3>6. QED
        BY <3>1, <3>2, <3>3, <3>4, <3>5, LifeOf(t), LifeKept
    <2>3. QED
      BY <2>1, <2>2 DEF LifeInv
  <1>8. ASSUME NEW s \in Sessions, IsExist(s) PROVE LifeInv'
    <2>1. ss[s].stream # None
      BY <1>8, StreamKnown DEF IsExist
    <2>2. ss[s].alive
      BY <1>8, <2>1, IsExistEffect, Alive
    <2>3. ASSUME NEW t \in Sessions
          PROVE  LifeOf(t)'
      BY <1>8, <2>1, <2>2, IsExistEffect, LifeOf(t), LifeKept
         DEF SessionBut, NoneEnds, ThreadTo, ThreadDone, ThreadAt, LifeOf, net
    <2>4. QED
      BY <2>3 DEF LifeInv
  <1>9. ASSUME NEW s \in Sessions, Kick(s) PROVE LifeInv'
    <2>1. ss[s].stream # None
      BY <1>9, StreamKnown DEF Kick
    <2>2. ss[s].alive
      BY <1>9, <2>1, KickEffect, Alive
    <2>3. ASSUME NEW t \in Sessions
          PROVE  LifeOf(t)'
      BY <1>9, <2>1, <2>2, KickEffect, LifeOf(t), LifeKept
         DEF SessionBut, NoneEnds, ThreadTo, ThreadDone, ThreadAt, LifeOf, net
    <2>4. QED
      BY <2>3 DEF LifeInv
  <1>10. ASSUME NEW s \in Sessions, KickTest(s) PROVE LifeInv'
    <2>1. ss[s].alive
      BY <1>10, KickTestEffect, Alive
    <2>2. ASSUME NEW t \in Sessions
          PROVE  LifeOf(t)'
      BY <1>10, <2>1, KickTestEffect, LifeOf(t), LifeKept
         DEF SessionBut, NoneEnds, ThreadTo, ThreadDone, ThreadAt, LifeOf, net
    <2>3. QED
      BY <2>2 DEF LifeInv
  <1>11. ASSUME NEW s \in Sessions, KickForce(s) PROVE LifeInv'
    <2>1. ss[s].alive
      BY <1>11, KickForceEffect, Alive
    <2>2. ASSUME NEW t \in Sessions
          PROVE  LifeOf(t)'
      BY <1>11, <2>1, KickForceEffect, LifeOf(t), LifeKept
         DEF SessionBut, NoneEnds, ThreadTo, ThreadDone, ThreadAt, LifeOf, net
    <2>3. QED
      BY <2>2 DEF LifeInv
  <1>12. ASSUME NEW s \in Sessions, Create(s) PROVE LifeInv'
    <2>1. ss[s].alive
      BY <1>12, CreateEffect, Alive
    <2>2. ASSUME NEW t \in Sessions
          PROVE  LifeOf(t)'
      BY <1>12, <2>1, CreateEffect, LifeOf(t), LifeKept
         DEF SessionBut, NoneEnds, ThreadTo, ThreadDone, ThreadAt, LifeOf, net
    <2>3. QED
      BY <2>2 DEF LifeInv
  <1>13. ASSUME NEW s \in Sessions, Add(s) PROVE LifeInv'
    <2>1. ss[s].stream # None
      BY <1>13, StreamKnown DEF Add
    <2>2. ss[s].alive
      BY <1>13, <2>1, AddEffect, Alive
    <2>3. ASSUME NEW t \in Sessions
          PROVE  LifeOf(t)'
      BY <1>13, <2>1, <2>2, AddEffect, LifeOf(t), LifeKept
         DEF SessionBut, NoneEnds, ThreadTo, ThreadDone, ThreadAt, LifeOf, net
    <2>4. QED
      BY <2>3 DEF LifeInv
  <1>14. ASSUME NEW s \in Sessions, Attach(s) PROVE LifeInv'
    <2>1. ss[s].alive
      BY <1>14, AttachEffect, Alive
    <2>2. ASSUME NEW t \in Sessions
          PROVE  LifeOf(t)'
      BY <1>14, <2>1, AttachEffect, LifeOf(t), LifeKept
         DEF SessionBut, NoneEnds, ThreadTo, ThreadDone, ThreadAt, LifeOf, net
    <2>3. QED
      BY <2>2 DEF LifeInv
  <1>15. ASSUME NEW s \in Sessions, CloseSrcCtx(s) PROVE LifeInv'
    <2>1. th[s].target # None
      BY <1>15, TargetKnown DEF CloseSrcCtx
    <2>2. ss[s].alive
      BY <1>15, <2>1, CloseSrcCtxThread, CloseSrcCtxFields, Alive
    <2>3. ASSUME NEW t \in Sessions
          PROVE  LifeOf(t)'
      BY <1>15, <2>1, <2>2, CloseSrcCtxThread, CloseSrcCtxFields, LifeOf(t), LifeKept
         DEF SessionBut, NoneEnds, ThreadTo, ThreadDone, ThreadAt, LifeOf, net
    <2>4. QED
      BY <2>3 DEF LifeInv
  <1>16. ASSUME NEW s \in Sessions, CloseAllClients(s) PROVE LifeInv'
    <2>1. th[s].target # None
      BY <1>16, TargetKnown DEF CloseAllClients
    <2>2. ss[s].alive
      BY <1>16, <2>1, CloseAllClientsEffect, Alive
    <2>3. ASSUME NEW t \in Sessions
          PROVE  LifeOf(t)'
      BY <1>16, <2>1, <2>2, CloseAllClientsEffect, LifeOf(t), LifeKept
         DEF SessionBut, NoneEnds, ThreadTo, ThreadDone, ThreadAt, LifeOf, net
    <2>4. QED
      BY <2>3 DEF LifeInv
  <1>17. ASSUME NEW s \in Sessions, Drain(s) PROVE LifeInv'
    <2>1. th[s].target # None
      BY <1>17, TargetKnown DEF Drain
    <2>2. /\ th[s].pc = "drain" /\ ThreadTo(s, "closed") /\ NoneEnds
          /\ UNCHANGED <<called, inbox>>
          /\ \A t \in Sessions :
               /\ ss'[t].srcCtx = ss[t].srcCtx /\ ss'[t].onClose = ss[t].onClose
               /\ ss'[t].alive = ss[t].alive /\ ss'[t].mdsrc = ss[t].mdsrc
      BY <1>17, <2>1, DrainEffect
    <2>3. ss[s].alive
      BY <2>2, Alive
    <2>4. ASSUME NEW t \in Sessions
          PROVE  LifeOf(t)'
      BY <2>2, <2>3, LifeOf(t), LifeKept DEF ThreadTo, ThreadAt, LifeOf, NoneEnds
    <2>5. QED
      BY <2>4 DEF LifeInv
  <1>18. ASSUME NEW s \in Sessions, Closed(s) PROVE LifeInv'
    <2>1. th[s].target # None
      BY <1>18, TargetKnown DEF Closed
    <2>2. ss[s].alive
      BY <1>18, <2>1, ClosedEffect, Alive
    <2>3. ASSUME NEW t \in Sessions
          PROVE  LifeOf(t)'
      BY <1>18, <2>1, <2>2, ClosedEffect, LifeOf(t), LifeKept
         DEF SessionBut, NoneEnds, ThreadTo, ThreadDone, ThreadAt, LifeOf, net
    <2>4. QED
      BY <2>3 DEF LifeInv
  <1>19. ASSUME NEW s \in Sessions, Play(s) PROVE LifeInv'
    <2>1. LifeOf(s)'
      <3>1. /\ IsNext(s, "play") /\ Taken(s) /\ UNCHANGED called /\ NoneEnds
            /\ SessionBut(s, {"srcCtx", "mdsrc", "stream", "valid", "onClose"}) \/ ss' = ss
        BY <1>19, PlayEffect, ConnKept DEF SessionBut, Types, net
      <3>2. inbox[s] # <<>> /\ ~ss[s].onClose
        BY <3>1, LifeOf(s) DEF LifeOf, IsNext
      <3>3. QED
        BY <1>19, <3>1, <3>2, PlayEffect, TakenLife DEF SessionBut
    <2>2. ASSUME NEW t \in Sessions \ {s}
          PROVE  LifeOf(t)'
      <3>1. IsNext(s, "play") /\ Taken(s) /\ NoneEnds /\ called' = called
        BY <1>19, PlayEffect
      <3>2. inbox'[t] = inbox[t]
        BY <3>1, TakenEffect
      <3>3. ss'[t] = ss[t] /\ th'[t] = th[t]
        BY <1>19, PlayEffect DEF SessionBut, ThreadAt
      <3>4. conn[t] = "closed" => conn'[t] = "closed"
        BY <3>1 DEF NoneEnds
      <3>5. ~ss[t].alive => th'[t].pc = "idle" /\ ss'[t].mdsrc = None
        BY <3>3, LifeOf(t) DEF LifeOf
      <3>6. QED
        BY <3>1, <3>2, <3>3, <3>4, <3>5, LifeOf(t), LifeKept
    <2>3. QED
      BY <2>1, <2>2 DEF LifeInv
  <1>20. ASSUME NEW s \in Sessions, GetMdSource(s) PROVE LifeInv'
    <2>1. ss[s].stream # None
      BY <1>20, StreamKnown DEF GetMdSource
    <2>2. ss[s].alive
      BY <1>20, <2>1, GetMdSourceEffect, Alive
    <2>3. ASSUME NEW t \in Sessions
          PROVE  LifeOf(t)'
      BY <1>20, <2>1, <2>2, GetMdSourceEffect, LifeOf(t), LifeKept
         DEF SessionBut, NoneEnds, ThreadTo, ThreadDone, ThreadAt, LifeOf, net
    <2>4. QED
      BY <2>3 DEF LifeInv
  <1>21. ASSUME NEW s \in Sessions, PlayOpened(s) PROVE LifeInv'
    <2>1. ss[s].alive
      BY <1>21, PlayOpenedEffect, Alive
    <2>2. ASSUME NEW t \in Sessions
          PROVE  LifeOf(t)'
      BY <1>21, <2>1, PlayOpenedEffect, LifeOf(t), LifeKept
         DEF SessionBut, NoneEnds, ThreadTo, ThreadDone, ThreadAt, LifeOf, net
    <2>3. QED
      BY <2>2 DEF LifeInv
  <1>22. ASSUME NEW s \in Sessions, Join(s) PROVE LifeInv'
    <2>1. ss[s].alive
      BY <1>22, JoinEffect, Alive
    <2>2. ASSUME NEW t \in Sessions
          PROVE  LifeOf(t)'
      BY <1>22, <2>1, JoinEffect, LifeOf(t), LifeKept
         DEF SessionBut, NoneEnds, ThreadTo, ThreadDone, ThreadAt, LifeOf, net
    <2>3. QED
      BY <2>2 DEF LifeInv
  <1>23. ASSUME NEW s \in Sessions, JoinAdd(s) PROVE LifeInv'
    <2>1. th[s].src # None
      BY <1>23, SourceKnown DEF JoinAdd
    <2>2. ss[s].alive
      BY <1>23, <2>1, JoinAddEffect, Alive
    <2>3. ASSUME NEW t \in Sessions
          PROVE  LifeOf(t)'
      BY <1>23, <2>1, <2>2, JoinAddEffect, LifeOf(t), LifeKept
         DEF SessionBut, NoneEnds, ThreadTo, ThreadDone, ThreadAt, LifeOf, net
    <2>4. QED
      BY <2>3 DEF LifeInv
  <1>24. ASSUME NEW s \in Sessions, ReallyClose(s) PROVE LifeInv'
    <2>1. LifeOf(s)'
      <3>1. /\ IsNext(s, "close") /\ Taken(s) /\ UNCHANGED called /\ NoneEnds
            /\ SessionBut(s, {"srcCtx", "mdsrc", "stream", "valid", "onClose"}) \/ ss' = ss
        BY <1>24, ReallyCloseEffect, ConnKept DEF SessionBut, Types, net
      <3>2. inbox[s] # <<>> /\ ~ss[s].onClose
        BY <3>1, LifeOf(s) DEF LifeOf, IsNext
      <3>3. QED
        BY <1>24, <3>1, <3>2, ReallyCloseEffect, TakenLife DEF SessionBut
    <2>2. ASSUME NEW t \in Sessions \ {s}
          PROVE  LifeOf(t)'
      BY <1>24, ReallyCloseEffect, TakenEffect, LifeOf(t), LifeKept
         DEF SessionBut, NoneEnds, ThreadAt, LifeOf, net
    <2>3. QED
      BY <2>1, <2>2 DEF LifeInv
  <1>25. ASSUME NEW s \in Sessions, ClearSrcCtx(s) PROVE LifeInv'
    <2>1. th[s].target # None
      BY <1>25, TargetKnown DEF ClearSrcCtx
    <2>2. ss[s].alive
      BY <1>25, <2>1, ClearSrcCtxEffect, Alive
    <2>3. ASSUME NEW t \in Sessions
          PROVE  LifeOf(t)'
      BY <1>25, <2>1, <2>2, ClearSrcCtxEffect, LifeOf(t), LifeKept
         DEF SessionBut, NoneEnds, ThreadTo, ThreadDone, ThreadAt, LifeOf, net
    <2>4. QED
      BY <2>3 DEF LifeInv
  <1>26. ASSUME NEW s \in Sessions, RemoveMdSource(s) PROVE LifeInv'
    <2>1. ss[s].alive
      BY <1>26, RemoveMdSourceEffect, Alive
    <2>2. ASSUME NEW t \in Sessions
          PROVE  LifeOf(t)'
      BY <1>26, <2>1, RemoveMdSourceEffect, LifeOf(t), LifeKept
         DEF SessionBut, NoneEnds, ThreadTo, ThreadDone, ThreadAt, LifeOf, net
    <2>3. QED
      BY <2>2 DEF LifeInv
  <1>27. ASSUME NEW s \in Sessions, RemoveClientSession(s) PROVE LifeInv'
    <2>1. th[s].target # None
      BY <1>27, TargetKnown DEF RemoveClientSession
    <2>2. ss[s].alive
      BY <1>27, <2>1, RemoveClientSessionEffect, Alive
    <2>3. ASSUME NEW t \in Sessions
          PROVE  LifeOf(t)'
      BY <1>27, <2>1, <2>2, RemoveClientSessionEffect, LifeOf(t), LifeKept
         DEF SessionBut, NoneEnds, ThreadTo, ThreadDone, ThreadAt, LifeOf, net
    <2>4. QED
      BY <2>3 DEF LifeInv
  <1>28. ASSUME NEW s \in Sessions, Destroy(s) PROVE LifeInv'
    <2>1. ~ss[s].inMd
      BY <1>28, NotListed DEF Destroy
    <2>2. ASSUME NEW t \in Sessions \ {s}
          PROVE  LifeOf(t)'
      BY <1>28, <2>1, DestroyEffect, LifeOf(t), LifeKept DEF SessionBut, LifeOf, net
    <2>3. LifeOf(s)'
      BY <1>28, <2>1, DestroyEffect, LifeOf(s) DEF SessionBut, LifeOf, net
    <2>4. QED
      BY <2>2, <2>3 DEF LifeInv
  <1>29. ASSUME NEW s \in Sessions, Forward(s) PROVE LifeInv'
    <2>1. ASSUME NEW t \in Sessions
          PROVE  LifeOf(t)'
      BY <1>29, ForwardEffect, LifeOf(t), LifeKept DEF LifeOf, net, Types, NoneEnds
    <2>2. QED
      BY <2>1 DEF LifeInv
  <1>30. ASSUME NEW s \in Sessions, Deliver(s) PROVE LifeInv'
    <2>1. ASSUME NEW t \in Sessions
          PROVE  LifeOf(t)'
      BY <1>30, DeliverEffect, LifeOf(t), LifeKept DEF LifeOf, net, Types, NoneEnds
    <2>2. QED
      BY <2>1 DEF LifeInv
  <1>31. CASE UNCHANGED vars
    BY <1>31 DEF vars, net, LifeInv, LifeOf
  <1>32. QED
    BY <1>1, <1>2, <1>3, <1>4, <1>5, <1>6, <1>7, <1>8, <1>9, <1>10, <1>11,
       <1>12, <1>13, <1>14, <1>15, <1>16, <1>17, <1>18, <1>19, <1>20, <1>21,
       <1>22, <1>23, <1>24, <1>25, <1>26, <1>27, <1>28, <1>29, <1>30, <1>31
       DEF Next, Handlers

-----------------------------------------------------------------------------
(* Players.                                                                  *)

LEMMA PlayersKept ==
  ASSUME Types, PlayerInv, \A m \in Sessions : md'[m].clients = md[m].clients,
         \A p \in Sessions :
            /\ ss'[p].inMd = ss[p].inMd /\ ss'[p].listRefs = ss[p].listRefs
            /\ ss'[p].mdsrc = ss[p].mdsrc \/ ~ss[p].inMd
            /\ ss'[p].srcCtx => ss'[p].mdsrc \in {None, p} /\ ~ss'[p].playing
            /\ ss[p].inMd /\ ss[p].playing => ss'[p].playing
  PROVE  PlayerInv'
  <1>1. \A p \in Sessions : PlayerOf(p)'
    BY DEF PlayerInv, PlayerOf
  <1>2. \A m, p \in Sessions : p \in md'[m].clients <=> ss'[p].inMd /\ ss'[p].mdsrc = m
    BY DEF PlayerInv
  <1>3. QED
    BY <1>1, <1>2 DEF PlayerInv

\* One player enters or leaves the list of its source.
LEMMA PlayerMoves ==
  ASSUME Types, PlayerInv, NEW s \in Sessions, NEW m \in Sessions, ss[s].mdsrc = m,
         ~ss'[s].srcCtx, ss'[s].mdsrc = m, ss'[s].inMd => ss'[s].playing,
         ss'[s].listRefs = IF ss'[s].inMd THEN 1 ELSE 0,
         \A t \in Sessions \ {s} : ss'[t] = ss[t],
         \A x \in Sessions \ {m} : md'[x].clients = md[x].clients,
         \A t \in Sessions \ {s} : t \in md'[m].clients <=> t \in md[m].clients,
         s \in md'[m].clients <=> ss'[s].inMd
  PROVE  PlayerInv'
  <1>1. \A p \in Sessions : PlayerOf(p)'
    BY DEF PlayerInv, PlayerOf
  <1>2. ASSUME NEW x \in Sessions, NEW p \in Sessions
        PROVE  p \in md'[x].clients <=> ss'[p].inMd /\ ss'[p].mdsrc = x
    <2>1. p \in md[x].clients <=> ss[p].inMd /\ ss[p].mdsrc = x
      BY DEF PlayerInv
    <2>2. CASE p = s
      BY <2>1, <2>2
    <2>3. CASE p # s
      BY <2>1, <2>3
    <2>4. QED
      BY <2>2, <2>3
  <1>3. QED
    BY <1>1, <1>2 DEF PlayerInv


LEMMA PlayerInvStep == Types /\ Inv /\ [Next]_vars => PlayerInv'
  <1> SUFFICES ASSUME Types, Inv, [Next]_vars, PlayerInv,
                      \A s \in Sessions : PlayerOf(s) /\ HandlerOf(s) /\ StageOf(s)
               PROVE  PlayerInv'
    BY DEF Inv, HandlerInv, StageInv, PlayerInv
  <1>1. ASSUME NEW s \in Sessions, NEW n \in Names \cup {None}, InvokePublish(s, n)
        PROVE  PlayerInv'
    <2>1. Post(s, "publish", n) /\ UNCHANGED ss
      BY <1>1 DEF InvokePublish
    <2>2. NoSourceBut
      BY <2>1, PostEffect
    <2>3. QED
      BY <2>1, <2>2, PlayersKept DEF NoSourceBut, Alike, PlayerOf
  <1>2. ASSUME NEW s \in Sessions, NEW n \in Names \cup {None}, InvokePlay(s, n)
        PROVE  PlayerInv'
    <2>1. Post(s, "play", n) /\ UNCHANGED ss
      BY <1>2 DEF InvokePlay
    <2>2. NoSourceBut
      BY <2>1, PostEffect
    <2>3. QED
      BY <2>1, <2>2, PlayersKept DEF NoSourceBut, Alike, PlayerOf
  <1>3. ASSUME NEW s \in Sessions, OnMedia(s) PROVE PlayerInv'
    <2>1. NoSourceBut
      BY <1>3, OnMediaEffect
    <2>2. UNCHANGED ss
      BY <1>3, OnMediaEffect
    <2>3. QED
      BY <2>1, <2>2, PlayersKept DEF NoSourceBut, Alike, PlayerOf
  <1>4. ASSUME NEW s \in Sessions, ReleaseStream(s) PROVE PlayerInv'
    <2>1. UNCHANGED <<ss, md>>
      BY <1>4 DEF ReleaseStream
    <2>2. NoSourceBut
      BY <2>1 DEF NoSourceBut, Alike, Types
    <2>3. QED
      BY <2>1, <2>2, PlayersKept DEF NoSourceBut, Alike, PlayerOf
  <1>5. ASSUME NEW s \in Sessions, WriteCompleted(s) PROVE PlayerInv'
    <2>1. UNCHANGED <<ss, md>>
      BY <1>5 DEF WriteCompleted
    <2>2. NoSourceBut
      BY <2>1 DEF NoSourceBut, Alike, Types
    <2>3. QED
      BY <2>1, <2>2, PlayersKept DEF NoSourceBut, Alike, PlayerOf
  <1>6. ASSUME NEW s \in Sessions, OnClose(s) PROVE PlayerInv'
    <2>1. Post(s, "close", None) /\ UNCHANGED ss
      BY <1>6 DEF OnClose
    <2>2. NoSourceBut
      BY <2>1, PostEffect
    <2>3. QED
      BY <2>1, <2>2, PlayersKept DEF NoSourceBut, Alike, PlayerOf
  <1>7. ASSUME NEW s \in Sessions, Publish(s) PROVE PlayerInv'
    <2>1. \A m \in Sessions : md'[m].clients = md[m].clients
      BY <1>7, PublishEffect DEF NoSourceBut, SourceBut, Alike
    <2>2. ASSUME NEW p \in Sessions
          PROVE  /\ ss'[p].inMd = ss[p].inMd /\ ss'[p].listRefs = ss[p].listRefs
                 /\ ss'[p].mdsrc = ss[p].mdsrc \/ ~ss[p].inMd
                 /\ ss'[p].srcCtx => ss'[p].mdsrc \in {None, p} /\ ~ss'[p].playing
                 /\ ss[p].inMd /\ ss[p].playing => ss'[p].playing
      BY <1>7, PublishEffect, StageOf(s), PlayerOf(p)
         DEF SessionBut, StageOf, PlayerOf
    <2>3. QED
      BY <2>1, <2>2, PlayersKept
  <1>8. ASSUME NEW s \in Sessions, IsExist(s) PROVE PlayerInv'
    <2>1. ss[s].stream # None
      BY <1>8, StreamKnown DEF IsExist
    <2>2. \A m \in Sessions : md'[m].clients = md[m].clients
      BY <1>8, <2>1, IsExistEffect DEF NoSourceBut, SourceBut, Alike
    <2>3. ASSUME NEW p \in Sessions
          PROVE  /\ ss'[p].inMd = ss[p].inMd /\ ss'[p].listRefs = ss[p].listRefs
                 /\ ss'[p].mdsrc = ss[p].mdsrc \/ ~ss[p].inMd
                 /\ ss'[p].srcCtx => ss'[p].mdsrc \in {None, p} /\ ~ss'[p].playing
                 /\ ss[p].inMd /\ ss[p].playing => ss'[p].playing
      BY <1>8, <2>1, IsExistEffect, StageOf(s), PlayerOf(p)
         DEF SessionBut, StageOf, PlayerOf
    <2>4. QED
      BY <2>2, <2>3, PlayersKept
  <1>9. ASSUME NEW s \in Sessions, Kick(s) PROVE PlayerInv'
    <2>1. ss[s].stream # None
      BY <1>9, StreamKnown DEF Kick
    <2>2. \A m \in Sessions : md'[m].clients = md[m].clients
      BY <1>9, <2>1, KickEffect DEF NoSourceBut, SourceBut, Alike
    <2>3. ASSUME NEW p \in Sessions
          PROVE  /\ ss'[p].inMd = ss[p].inMd /\ ss'[p].listRefs = ss[p].listRefs
                 /\ ss'[p].mdsrc = ss[p].mdsrc \/ ~ss[p].inMd
                 /\ ss'[p].srcCtx => ss'[p].mdsrc \in {None, p} /\ ~ss'[p].playing
                 /\ ss[p].inMd /\ ss[p].playing => ss'[p].playing
      BY <1>9, <2>1, KickEffect, StageOf(s), PlayerOf(p)
         DEF SessionBut, StageOf, PlayerOf
    <2>4. QED
      BY <2>2, <2>3, PlayersKept
  <1>10. ASSUME NEW s \in Sessions, KickTest(s) PROVE PlayerInv'
    <2>1. \A m \in Sessions : md'[m].clients = md[m].clients
      BY <1>10, KickTestEffect DEF NoSourceBut, SourceBut, Alike
    <2>2. ASSUME NEW p \in Sessions
          PROVE  /\ ss'[p].inMd = ss[p].inMd /\ ss'[p].listRefs = ss[p].listRefs
                 /\ ss'[p].mdsrc = ss[p].mdsrc \/ ~ss[p].inMd
                 /\ ss'[p].srcCtx => ss'[p].mdsrc \in {None, p} /\ ~ss'[p].playing
                 /\ ss[p].inMd /\ ss[p].playing => ss'[p].playing
      BY <1>10, KickTestEffect, StageOf(s), PlayerOf(p)
         DEF SessionBut, StageOf, PlayerOf
    <2>3. QED
      BY <2>1, <2>2, PlayersKept
  <1>11. ASSUME NEW s \in Sessions, KickForce(s) PROVE PlayerInv'
    <2>1. \A m \in Sessions : md'[m].clients = md[m].clients
      BY <1>11, KickForceEffect DEF NoSourceBut, SourceBut, Alike
    <2>2. ASSUME NEW p \in Sessions
          PROVE  /\ ss'[p].inMd = ss[p].inMd /\ ss'[p].listRefs = ss[p].listRefs
                 /\ ss'[p].mdsrc = ss[p].mdsrc \/ ~ss[p].inMd
                 /\ ss'[p].srcCtx => ss'[p].mdsrc \in {None, p} /\ ~ss'[p].playing
                 /\ ss[p].inMd /\ ss[p].playing => ss'[p].playing
      BY <1>11, KickForceEffect, StageOf(s), PlayerOf(p)
         DEF SessionBut, StageOf, PlayerOf
    <2>3. QED
      BY <2>1, <2>2, PlayersKept
  <1>12. ASSUME NEW s \in Sessions, Create(s) PROVE PlayerInv'
    <2>1. \A m \in Sessions : md'[m].clients = md[m].clients
      BY <1>12, CreateEffect DEF NoSourceBut, SourceBut, Alike
    <2>2. ASSUME NEW p \in Sessions
          PROVE  /\ ss'[p].inMd = ss[p].inMd /\ ss'[p].listRefs = ss[p].listRefs
                 /\ ss'[p].mdsrc = ss[p].mdsrc \/ ~ss[p].inMd
                 /\ ss'[p].srcCtx => ss'[p].mdsrc \in {None, p} /\ ~ss'[p].playing
                 /\ ss[p].inMd /\ ss[p].playing => ss'[p].playing
      BY <1>12, CreateEffect, StageOf(s), PlayerOf(p)
         DEF SessionBut, StageOf, PlayerOf
    <2>3. QED
      BY <2>1, <2>2, PlayersKept
  <1>13. ASSUME NEW s \in Sessions, Add(s) PROVE PlayerInv'
    <2>1. ss[s].stream # None
      BY <1>13, StreamKnown DEF Add
    <2>2. \A m \in Sessions : md'[m].clients = md[m].clients
      BY <1>13, <2>1, AddEffect DEF NoSourceBut, SourceBut, Alike
    <2>3. ASSUME NEW p \in Sessions
          PROVE  /\ ss'[p].inMd = ss[p].inMd /\ ss'[p].listRefs = ss[p].listRefs
                 /\ ss'[p].mdsrc = ss[p].mdsrc \/ ~ss[p].inMd
                 /\ ss'[p].srcCtx => ss'[p].mdsrc \in {None, p} /\ ~ss'[p].playing
                 /\ ss[p].inMd /\ ss[p].playing => ss'[p].playing
      BY <1>13, <2>1, AddEffect, StageOf(s), PlayerOf(p)
         DEF SessionBut, StageOf, PlayerOf
    <2>4. QED
      BY <2>2, <2>3, PlayersKept
  <1>14. ASSUME NEW s \in Sessions, Attach(s) PROVE PlayerInv'
    <2>1. \A m \in Sessions : md'[m].clients = md[m].clients
      BY <1>14, AttachEffect DEF NoSourceBut, SourceBut, Alike
    <2>2. ASSUME NEW p \in Sessions
          PROVE  /\ ss'[p].inMd = ss[p].inMd /\ ss'[p].listRefs = ss[p].listRefs
                 /\ ss'[p].mdsrc = ss[p].mdsrc \/ ~ss[p].inMd
                 /\ ss'[p].srcCtx => ss'[p].mdsrc \in {None, p} /\ ~ss'[p].playing
                 /\ ss[p].inMd /\ ss[p].playing => ss'[p].playing
      BY <1>14, AttachEffect, StageOf(s), PlayerOf(p)
         DEF SessionBut, StageOf, PlayerOf
    <2>3. QED
      BY <2>1, <2>2, PlayersKept
  <1>15. ASSUME NEW s \in Sessions, CloseSrcCtx(s) PROVE PlayerInv'
    <2>1. th[s].target # None
      BY <1>15, TargetKnown DEF CloseSrcCtx
    <2>2. \A m \in Sessions : md'[m].clients = md[m].clients
      BY <1>15, <2>1, CloseSrcCtxThread, CloseSrcCtxFields DEF NoSourceBut, SourceBut, Alike
    <2>3. ASSUME NEW p \in Sessions
          PROVE  /\ ss'[p].inMd = ss[p].inMd /\ ss'[p].listRefs = ss[p].listRefs
                 /\ ss'[p].mdsrc = ss[p].mdsrc \/ ~ss[p].inMd
                 /\ ss'[p].srcCtx => ss'[p].mdsrc \in {None, p} /\ ~ss'[p].playing
                 /\ ss[p].inMd /\ ss[p].playing => ss'[p].playing
      BY <1>15, <2>1, CloseSrcCtxThread, CloseSrcCtxFields, StageOf(s), PlayerOf(p)
         DEF SessionBut, StageOf, PlayerOf
    <2>4. QED
      BY <2>2, <2>3, PlayersKept
  <1>16. ASSUME NEW s \in Sessions, CloseAllClients(s) PROVE PlayerInv'
    <2>1. th[s].target # None
      BY <1>16, TargetKnown DEF CloseAllClients
    <2>2. \A m \in Sessions : md'[m].clients = md[m].clients
      BY <1>16, <2>1, CloseAllClientsEffect DEF NoSourceBut, SourceBut, Alike
    <2>3. ASSUME NEW p \in Sessions
          PROVE  /\ ss'[p].inMd = ss[p].inMd /\ ss'[p].listRefs = ss[p].listRefs
                 /\ ss'[p].mdsrc = ss[p].mdsrc \/ ~ss[p].inMd
                 /\ ss'[p].srcCtx => ss'[p].mdsrc \in {None, p} /\ ~ss'[p].playing
                 /\ ss[p].inMd /\ ss[p].playing => ss'[p].playing
      BY <1>16, <2>1, CloseAllClientsEffect, StageOf(s), PlayerOf(p)
         DEF SessionBut, StageOf, PlayerOf
    <2>4. QED
      BY <2>2, <2>3, PlayersKept
  <1>17. ASSUME NEW s \in Sessions, Drain(s) PROVE PlayerInv'
    <2>1. th[s].target # None
      BY <1>17, TargetKnown DEF Drain
    <2>2. PICK m \in Sessions : m = th[s].target
      BY <2>1 DEF Types, HandlersOK, Handling
    <2>3. /\ \A x \in Sessions \ {m} : md'[x].clients = md[x].clients
          /\ md'[m].clients = {}
      BY <1>17, <2>1, <2>2, DrainEffect DEF SourceBut, Alike
    <2>4. ASSUME NEW p \in Sessions
          PROVE  PlayerOf(p)' /\ (ss'[p].inMd <=> ss[p].inMd /\ p \notin md[m].clients)
      <3>1. /\ ss'[p].mdsrc = ss[p].mdsrc /\ ss'[p].srcCtx = ss[p].srcCtx
            /\ ss'[p].playing = ss[p].playing
        BY <1>17, <2>1, DrainEffect
      <3>2. CASE p \in md[m].clients
        <4>1. ss[p].inMd
          BY <3>2 DEF PlayerInv
        <4>2. ~ss'[p].inMd /\ ss'[p].listRefs = 0
          BY <1>17, <2>1, <2>2, <3>2, <4>1, DrainEffect, PlayerOf(p) DEF PlayerOf
        <4>3. QED
          BY <3>1, <3>2, <4>2, PlayerOf(p) DEF PlayerOf
      <3>3. CASE p \notin md[m].clients
        <4>1. ss'[p] = ss[p]
          BY <1>17, <2>1, <2>2, <3>3, DrainEffect
        <4>2. QED
          BY <3>3, <4>1, PlayerOf(p) DEF PlayerOf
      <3>4. QED
        BY <3>2, <3>3
    <2>5. ASSUME NEW x \in Sessions, NEW p \in Sessions
          PROVE  p \in md'[x].clients <=> ss'[p].inMd /\ ss'[p].mdsrc = x
      <3>1. ss'[p].mdsrc = ss[p].mdsrc
        BY <1>17, <2>1, DrainEffect
      <3>2. /\ p \in md[x].clients <=> ss[p].inMd /\ ss[p].mdsrc = x
            /\ p \in md[m].clients <=> ss[p].inMd /\ ss[p].mdsrc = m
        BY DEF PlayerInv
      <3>3. QED
        BY <2>3, <2>4, <3>1, <3>2
    <2>6. QED
      BY <2>4, <2>5 DEF PlayerInv
  <1>18. ASSUME NEW s \in Sessions, Closed(s) PROVE PlayerInv'
    <2>1. th[s].target # None
      BY <1>18, TargetKnown DEF Closed
    <2>2. \A m \in Sessions : md'[m].clients = md[m].clients
      BY <1>18, <2>1, ClosedEffect DEF NoSourceBut, SourceBut, Alike
    <2>3. ASSUME NEW p \in Sessions
          PROVE  /\ ss'[p].inMd = ss[p].inMd /\ ss'[p].listRefs = ss[p].listRefs
                 /\ ss'[p].mdsrc = ss[p].mdsrc \/ ~ss[p].inMd
                 /\ ss'[p].srcCtx => ss'[p].mdsrc \in {None, p} /\ ~ss'[p].playing
                 /\ ss[p].inMd /\ ss[p].playing => ss'[p].playing
      BY <1>18, <2>1, ClosedEffect, StageOf(s), PlayerOf(p)
         DEF SessionBut, StageOf, PlayerOf
    <2>4. QED
      BY <2>2, <2>3, PlayersKept
  <1>19. ASSUME NEW s \in Sessions, Play(s) PROVE PlayerInv'
    <2>1. \A m \in Sessions : md'[m].clients = md[m].clients
      BY <1>19, PlayEffect DEF NoSourceBut, SourceBut, Alike
    <2>2. ASSUME NEW p \in Sessions
          PROVE  /\ ss'[p].inMd = ss[p].inMd /\ ss'[p].listRefs = ss[p].listRefs
                 /\ ss'[p].mdsrc = ss[p].mdsrc \/ ~ss[p].inMd
                 /\ ss'[p].srcCtx => ss'[p].mdsrc \in {None, p} /\ ~ss'[p].playing
                 /\ ss[p].inMd /\ ss[p].playing => ss'[p].playing
      BY <1>19, PlayEffect, StageOf(s), PlayerOf(p)
         DEF SessionBut, StageOf, PlayerOf
    <2>3. QED
      BY <2>1, <2>2, PlayersKept
  <1>20. ASSUME NEW s \in Sessions, GetMdSource(s) PROVE PlayerInv'
    <2>1. ss[s].stream # None
      BY <1>20, StreamKnown DEF GetMdSource
    <2>2. \A m \in Sessions : md'[m].clients = md[m].clients
      BY <1>20, <2>1, GetMdSourceEffect DEF NoSourceBut, SourceBut, Alike
    <2>3. ASSUME NEW p \in Sessions
          PROVE  /\ ss'[p].inMd = ss[p].inMd /\ ss'[p].listRefs = ss[p].listRefs
                 /\ ss'[p].mdsrc = ss[p].mdsrc \/ ~ss[p].inMd
                 /\ ss'[p].srcCtx => ss'[p].mdsrc \in {None, p} /\ ~ss'[p].playing
                 /\ ss[p].inMd /\ ss[p].playing => ss'[p].playing
      BY <1>20, <2>1, GetMdSourceEffect, StageOf(s), PlayerOf(p)
         DEF SessionBut, StageOf, PlayerOf
    <2>4. QED
      BY <2>2, <2>3, PlayersKept
  <1>21. ASSUME NEW s \in Sessions, PlayOpened(s) PROVE PlayerInv'
    <2>1. \A m \in Sessions : md'[m].clients = md[m].clients
      BY <1>21, PlayOpenedEffect DEF NoSourceBut, SourceBut, Alike
    <2>2. ASSUME NEW p \in Sessions
          PROVE  /\ ss'[p].inMd = ss[p].inMd /\ ss'[p].listRefs = ss[p].listRefs
                 /\ ss'[p].mdsrc = ss[p].mdsrc \/ ~ss[p].inMd
                 /\ ss'[p].srcCtx => ss'[p].mdsrc \in {None, p} /\ ~ss'[p].playing
                 /\ ss[p].inMd /\ ss[p].playing => ss'[p].playing
      BY <1>21, PlayOpenedEffect, StageOf(s), PlayerOf(p)
         DEF SessionBut, StageOf, PlayerOf
    <2>3. QED
      BY <2>1, <2>2, PlayersKept
  <1>22. ASSUME NEW s \in Sessions, Join(s) PROVE PlayerInv'
    <2>1. \A m \in Sessions : md'[m].clients = md[m].clients
      BY <1>22, JoinEffect DEF NoSourceBut, SourceBut, Alike
    <2>2. ASSUME NEW p \in Sessions
          PROVE  /\ ss'[p].inMd = ss[p].inMd /\ ss'[p].listRefs = ss[p].listRefs
                 /\ ss'[p].mdsrc = ss[p].mdsrc \/ ~ss[p].inMd
                 /\ ss'[p].srcCtx => ss'[p].mdsrc \in {None, p} /\ ~ss'[p].playing
                 /\ ss[p].inMd /\ ss[p].playing => ss'[p].playing
      BY <1>22, JoinEffect, StageOf(s), PlayerOf(p)
         DEF SessionBut, StageOf, PlayerOf
    <2>3. QED
      BY <2>1, <2>2, PlayersKept
  <1>23. ASSUME NEW s \in Sessions, JoinAdd(s) PROVE PlayerInv'
    <2>1. th[s].src # None /\ th[s].pc = "joinAdd"
      BY <1>23, SourceKnown DEF JoinAdd
    <2>2. PICK m \in Sessions : m = th[s].src /\ m = ss[s].mdsrc
      BY <2>1, StageOf(s) DEF StageOf, Types, HandlersOK, Handling
    <2>3. ~ss[s].srcCtx /\ ~ss[s].inMd /\ ss[s].listRefs = 0
      BY <2>1, StageOf(s), PlayerOf(s) DEF StageOf, PlayerOf
    <2>4. /\ ~ss'[s].srcCtx /\ ss'[s].mdsrc = m /\ ss'[s].inMd /\ ss'[s].playing
          /\ ss'[s].listRefs = 1 /\ \A t \in Sessions \ {s} : ss'[t] = ss[t]
      <3>1. /\ SessionBut(s, {"inMd", "listRefs", "playing"}) /\ ss'[s].inMd /\ ss'[s].playing
            /\ ss'[s].listRefs = ss[s].listRefs + 1
        BY <1>23, <2>1, JoinAddEffect
      <3>2. QED
        BY <2>2, <2>3, <3>1 DEF SessionBut
    <2>5. /\ \A x \in Sessions \ {m} : md'[x].clients = md[x].clients
          /\ md'[m].clients = md[m].clients \cup {s}
      <3> DEFINE g == th[s].src
      <3>1. SourceBut(g, {"clients"}) /\ md'[g].clients = md[g].clients \cup {s}
        BY <1>23, <2>1, JoinAddEffect
      <3>2. \A x \in Sessions \ {g} : md'[x].clients = md[x].clients
        BY <3>1 DEF SourceBut, Alike
      <3>3. g = m
        BY <2>2
      <3>4. QED
        BY <3>1, <3>2, <3>3
    <2>6. QED
      BY <2>2, <2>4, <2>5, PlayerMoves
  <1>24. ASSUME NEW s \in Sessions, ReallyClose(s) PROVE PlayerInv'
    <2>1. \A m \in Sessions : md'[m].clients = md[m].clients
      BY <1>24, ReallyCloseEffect DEF NoSourceBut, SourceBut, Alike
    <2>2. ASSUME NEW p \in Sessions
          PROVE  /\ ss'[p].inMd = ss[p].inMd /\ ss'[p].listRefs = ss[p].listRefs
                 /\ ss'[p].mdsrc = ss[p].mdsrc \/ ~ss[p].inMd
                 /\ ss'[p].srcCtx => ss'[p].mdsrc \in {None, p} /\ ~ss'[p].playing
                 /\ ss[p].inMd /\ ss[p].playing => ss'[p].playing
      BY <1>24, ReallyCloseEffect, StageOf(s), PlayerOf(p)
         DEF SessionBut, StageOf, PlayerOf
    <2>3. QED
      BY <2>1, <2>2, PlayersKept
  <1>25. ASSUME NEW s \in Sessions, ClearSrcCtx(s) PROVE PlayerInv'
    <2>1. th[s].target # None
      BY <1>25, TargetKnown DEF ClearSrcCtx
    <2>2. \A m \in Sessions : md'[m].clients = md[m].clients
      BY <1>25, <2>1, ClearSrcCtxEffect DEF NoSourceBut, SourceBut, Alike
    <2>3. ASSUME NEW p \in Sessions
          PROVE  /\ ss'[p].inMd = ss[p].inMd /\ ss'[p].listRefs = ss[p].listRefs
                 /\ ss'[p].mdsrc = ss[p].mdsrc \/ ~ss[p].inMd
                 /\ ss'[p].srcCtx => ss'[p].mdsrc \in {None, p} /\ ~ss'[p].playing
                 /\ ss[p].inMd /\ ss[p].playing => ss'[p].playing
      BY <1>25, <2>1, ClearSrcCtxEffect, StageOf(s), PlayerOf(p)
         DEF SessionBut, StageOf, PlayerOf
    <2>4. QED
      BY <2>2, <2>3, PlayersKept
  <1>26. ASSUME NEW s \in Sessions, RemoveMdSource(s) PROVE PlayerInv'
    <2>1. \A m \in Sessions : md'[m].clients = md[m].clients
      BY <1>26, RemoveMdSourceEffect DEF NoSourceBut, SourceBut, Alike
    <2>2. ASSUME NEW p \in Sessions
          PROVE  /\ ss'[p].inMd = ss[p].inMd /\ ss'[p].listRefs = ss[p].listRefs
                 /\ ss'[p].mdsrc = ss[p].mdsrc \/ ~ss[p].inMd
                 /\ ss'[p].srcCtx => ss'[p].mdsrc \in {None, p} /\ ~ss'[p].playing
                 /\ ss[p].inMd /\ ss[p].playing => ss'[p].playing
      BY <1>26, RemoveMdSourceEffect, StageOf(s), PlayerOf(p)
         DEF SessionBut, StageOf, PlayerOf
    <2>3. QED
      BY <2>1, <2>2, PlayersKept
  <1>27. ASSUME NEW s \in Sessions, RemoveClientSession(s) PROVE PlayerInv'
    <2>1. th[s].target # None /\ th[s].pc = "leave"
      BY <1>27, TargetKnown DEF RemoveClientSession
    <2>2. PICK m \in Sessions : m = th[s].target /\ m = ss[s].mdsrc
      BY <2>1, HandlerOf(s) DEF HandlerOf, Types, HandlersOK, Handling
    <2>3. ~ss[s].srcCtx /\ (s \in md[m].clients <=> ss[s].inMd)
      BY <2>1, <2>2, StageOf(s) DEF StageOf, PlayerInv
    <2>4. /\ ~ss'[s].srcCtx /\ ss'[s].mdsrc = m /\ ~ss'[s].inMd
          /\ \A t \in Sessions \ {s} : ss'[t] = ss[t]
      BY <1>27, <2>1, <2>2, <2>3, RemoveClientSessionEffect DEF SessionBut
    <2>5. ss'[s].listRefs = 0
      <3>1. ss'[s].listRefs = IF s \in md[m].clients THEN ss[s].listRefs - 1 ELSE ss[s].listRefs
        BY <1>27, <2>1, <2>2, RemoveClientSessionEffect
      <3>2. ss[s].listRefs = IF ss[s].inMd THEN 1 ELSE 0
        BY PlayerOf(s) DEF PlayerOf
      <3>3. QED
        BY <2>3, <3>1, <3>2
    <2>6. /\ \A x \in Sessions \ {m} : md'[x].clients = md[x].clients
          /\ md'[m].clients = md[m].clients \ {s}
      <3>1. SourceBut(m, {"clients"}) /\ md'[m].clients = md[m].clients \ {s}
        BY <1>27, <2>1, <2>2, RemoveClientSessionEffect
      <3>2. QED
        BY <3>1 DEF SourceBut, Alike
    <2>7. QED
      BY <2>2, <2>4, <2>5, <2>6, PlayerMoves
  <1>28. ASSUME NEW s \in Sessions, Destroy(s) PROVE PlayerInv'
    <2>1. ~ss[s].inMd
      BY <1>28, NotListed DEF Destroy
    <2>2. \A m \in Sessions : md'[m].clients = md[m].clients
      BY <1>28, <2>1, DestroyEffect DEF NoSourceBut, SourceBut, Alike
    <2>3. ASSUME NEW p \in Sessions
          PROVE  /\ ss'[p].inMd = ss[p].inMd /\ ss'[p].listRefs = ss[p].listRefs
                 /\ ss'[p].mdsrc = ss[p].mdsrc \/ ~ss[p].inMd
                 /\ ss'[p].srcCtx => ss'[p].mdsrc \in {None, p} /\ ~ss'[p].playing
                 /\ ss[p].inMd /\ ss[p].playing => ss'[p].playing
      BY <1>28, <2>1, DestroyEffect, StageOf(s), PlayerOf(p)
         DEF SessionBut, StageOf, PlayerOf
    <2>4. QED
      BY <2>2, <2>3, PlayersKept
  <1>29. ASSUME NEW s \in Sessions, Forward(s) PROVE PlayerInv'
    <2>1. NoSourceBut
      BY <1>29, ForwardEffect
    <2>2. UNCHANGED ss
      BY <1>29, ForwardEffect
    <2>3. QED
      BY <2>1, <2>2, PlayersKept DEF NoSourceBut, Alike, PlayerOf
  <1>30. ASSUME NEW s \in Sessions, Deliver(s) PROVE PlayerInv'
    <2>1. NoSourceBut
      BY <1>30, DeliverEffect
    <2>2. UNCHANGED ss
      BY <1>30, DeliverEffect
    <2>3. QED
      BY <2>1, <2>2, PlayersKept DEF NoSourceBut, Alike, PlayerOf
  <1>31. CASE UNCHANGED vars
    BY <1>31 DEF vars, PlayerInv, PlayerOf
  <1>32. QED
    BY <1>1, <1>2, <1>3, <1>4, <1>5, <1>6, <1>7, <1>8, <1>9, <1>10, <1>11,
       <1>12, <1>13, <1>14, <1>15, <1>16, <1>17, <1>18, <1>19, <1>20, <1>21,
       <1>22, <1>23, <1>24, <1>25, <1>26, <1>27, <1>28, <1>29, <1>30, <1>31
       DEF Next, Handlers

-----------------------------------------------------------------------------
(* Sources.                                                                  *)

\* A source that was created stays created.
LEMMA MadeStays == Types /\ Inv /\ [Next]_vars => \A m \in Sessions : Made(m) => Made(m)'
  <1> SUFFICES ASSUME Types, \A s \in Sessions : HandlerOf(s) /\ StageOf(s) /\ LifeOf(s),
                      Inv, [Next]_vars
               PROVE  \A m \in Sessions : Made(m) => Made(m)'
    BY DEF Inv, HandlerInv, StageInv, LifeInv
  <1>1. ASSUME NEW s \in Sessions, NEW n \in Names \cup {None}, InvokePublish(s, n)
        PROVE  \A m \in Sessions : Made(m) => Made(m)'
    BY <1>1 DEF InvokePublish, Made
  <1>2. ASSUME NEW s \in Sessions, NEW n \in Names \cup {None}, InvokePlay(s, n)
        PROVE  \A m \in Sessions : Made(m) => Made(m)'
    BY <1>2 DEF InvokePlay, Made
  <1>3. ASSUME NEW s \in Sessions, OnMedia(s) PROVE \A m \in Sessions : Made(m) => Made(m)'
    BY <1>3, OnMediaEffect DEF OnMedia, Made
  <1>4. ASSUME NEW s \in Sessions, ReleaseStream(s)
        PROVE  \A m \in Sessions : Made(m) => Made(m)'
    BY <1>4 DEF ReleaseStream, Made
  <1>5. ASSUME NEW s \in Sessions, WriteCompleted(s)
        PROVE  \A m \in Sessions : Made(m) => Made(m)'
    BY <1>5 DEF WriteCompleted, Made
  <1>6. ASSUME NEW s \in Sessions, OnClose(s) PROVE \A m \in Sessions : Made(m) => Made(m)'
    BY <1>6 DEF OnClose, Made
  <1>7. ASSUME NEW s \in Sessions, Publish(s) PROVE \A m \in Sessions : Made(m) => Made(m)'
    <2>1. ~ss[s].srcCtx
      <3>1. /\ Head(inbox[s]) = inbox[s][1] /\ inbox[s][1].kind = "publish"
            /\ 1 \in 1..Len(inbox[s])
        BY <1>7, PublishEffect, TakenEffect DEF Types, NetOK
      <3>2. QED
        BY <3>1, LifeOf(s) DEF LifeOf
    <2>2. QED
      BY <1>7, <2>1, PublishEffect DEF Made, SessionBut, ThreadAt
  <1>8. ASSUME NEW s \in Sessions, IsExist(s) PROVE \A m \in Sessions : Made(m) => Made(m)'
    <2>1. ss[s].stream # None
      BY <1>8, StreamKnown DEF IsExist
    <2>2. QED
      BY <1>8, <2>1, IsExistEffect, HandlerOf(s), StageOf(s)
         DEF Made, HandlerOf, StageOf, SessionBut, ThreadTo, ThreadDone, ThreadAt
  <1>9. ASSUME NEW s \in Sessions, Kick(s) PROVE \A m \in Sessions : Made(m) => Made(m)'
    <2>1. ss[s].stream # None
      BY <1>9, StreamKnown DEF Kick
    <2>2. QED
      BY <1>9, <2>1, KickEffect, HandlerOf(s), StageOf(s)
         DEF Made, HandlerOf, StageOf, SessionBut, ThreadTo, ThreadDone, ThreadAt
  <1>10. ASSUME NEW s \in Sessions, KickTest(s) PROVE \A m \in Sessions : Made(m) => Made(m)'
    <2>1. QED
      BY <1>10, KickTestEffect, HandlerOf(s), StageOf(s)
         DEF Made, HandlerOf, StageOf, SessionBut, ThreadTo, ThreadDone, ThreadAt
  <1>11. ASSUME NEW s \in Sessions, KickForce(s) PROVE \A m \in Sessions : Made(m) => Made(m)'
    <2>1. QED
      BY <1>11, KickForceEffect, HandlerOf(s), StageOf(s)
         DEF Made, HandlerOf, StageOf, SessionBut, ThreadTo, ThreadDone, ThreadAt
  <1>12. ASSUME NEW s \in Sessions, Create(s) PROVE \A m \in Sessions : Made(m) => Made(m)'
    <2>1. QED
      BY <1>12, CreateEffect, HandlerOf(s), StageOf(s)
         DEF Made, HandlerOf, StageOf, SessionBut, ThreadTo, ThreadDone, ThreadAt
  <1>13. ASSUME NEW s \in Sessions, Add(s) PROVE \A m \in Sessions : Made(m) => Made(m)'
    <2>1. ss[s].stream # None
      BY <1>13, StreamKnown DEF Add
    <2>2. QED
      BY <1>13, <2>1, AddEffect, HandlerOf(s), StageOf(s)
         DEF Made, HandlerOf, StageOf, SessionBut, ThreadTo, ThreadDone, ThreadAt
  <1>14. ASSUME NEW s \in Sessions, Attach(s) PROVE \A m \in Sessions : Made(m) => Made(m)'
    <2>1. QED
      BY <1>14, AttachEffect, HandlerOf(s), StageOf(s)
         DEF Made, HandlerOf, StageOf, SessionBut, ThreadTo, ThreadDone, ThreadAt
  <1>15. ASSUME NEW s \in Sessions, CloseSrcCtx(s)
         PROVE  \A m \in Sessions : Made(m) => Made(m)'
    <2>1. th[s].target # None
      BY <1>15, TargetKnown DEF CloseSrcCtx
    <2>2. QED
      BY <1>15, <2>1, CloseSrcCtxThread, CloseSrcCtxFields, HandlerOf(s), StageOf(s)
         DEF Made, HandlerOf, StageOf, SessionBut, ThreadTo, ThreadDone, ThreadAt
  <1>16. ASSUME NEW s \in Sessions, CloseAllClients(s)
         PROVE  \A m \in Sessions : Made(m) => Made(m)'
    <2>1. th[s].target # None
      BY <1>16, TargetKnown DEF CloseAllClients
    <2>2. QED
      BY <1>16, <2>1, CloseAllClientsEffect, HandlerOf(s), StageOf(s)
         DEF Made, HandlerOf, StageOf, SessionBut, ThreadTo, ThreadDone, ThreadAt
  <1>17. ASSUME NEW s \in Sessions, Drain(s) PROVE \A m \in Sessions : Made(m) => Made(m)'
    <2>1. th[s].target # None
      BY <1>17, TargetKnown DEF Drain
    <2>2. QED
      BY <1>17, <2>1, DrainEffect, HandlerOf(s), StageOf(s)
         DEF Made, HandlerOf, StageOf, SessionBut, ThreadTo, ThreadDone, ThreadAt
  <1>18. ASSUME NEW s \in Sessions, Closed(s) PROVE \A m \in Sessions : Made(m) => Made(m)'
    <2>1. th[s].target # None
      BY <1>18, TargetKnown DEF Closed
    <2>2. QED
      BY <1>18, <2>1, ClosedEffect, HandlerOf(s), StageOf(s)
         DEF Made, HandlerOf, StageOf, SessionBut, ThreadTo, ThreadDone, ThreadAt
  <1>19. ASSUME NEW s \in Sessions, Play(s) PROVE \A m \in Sessions : Made(m) => Made(m)'
    <2>1. QED
      BY <1>19, PlayEffect, HandlerOf(s), StageOf(s)
         DEF Made, HandlerOf, StageOf, SessionBut, ThreadTo, ThreadDone, ThreadAt
  <1>20. ASSUME NEW s \in Sessions, GetMdSource(s)
         PROVE  \A m \in Sessions : Made(m) => Made(m)'
    <2>1. ss[s].stream # None
      BY <1>20, StreamKnown DEF GetMdSource
    <2>2. QED
      BY <1>20, <2>1, GetMdSourceEffect, HandlerOf(s), StageOf(s)
         DEF Made, HandlerOf, StageOf, SessionBut, ThreadTo, ThreadDone, ThreadAt
  <1>21. ASSUME NEW s \in Sessions, PlayOpened(s) PROVE \A m \in Sessions : Made(m) => Made(m)'
    <2>1. QED
      BY <1>21, PlayOpenedEffect, HandlerOf(s), StageOf(s)
         DEF Made, HandlerOf, StageOf, SessionBut, ThreadTo, ThreadDone, ThreadAt
  <1>22. ASSUME NEW s \in Sessions, Join(s) PROVE \A m \in Sessions : Made(m) => Made(m)'
    <2>1. QED
      BY <1>22, JoinEffect, HandlerOf(s), StageOf(s)
         DEF Made, HandlerOf, StageOf, SessionBut, ThreadTo, ThreadDone, ThreadAt
  <1>23. ASSUME NEW s \in Sessions, JoinAdd(s) PROVE \A m \in Sessions : Made(m) => Made(m)'
    <2>1. th[s].src # None
      BY <1>23, SourceKnown DEF JoinAdd
    <2>2. QED
      BY <1>23, <2>1, JoinAddEffect, HandlerOf(s), StageOf(s)
         DEF Made, HandlerOf, StageOf, SessionBut, ThreadTo, ThreadDone, ThreadAt
  <1>24. ASSUME NEW s \in Sessions, ReallyClose(s)
         PROVE  \A m \in Sessions : Made(m) => Made(m)'
    <2>1. QED
      BY <1>24, ReallyCloseEffect, HandlerOf(s), StageOf(s)
         DEF Made, HandlerOf, StageOf, SessionBut, ThreadTo, ThreadDone, ThreadAt
  <1>25. ASSUME NEW s \in Sessions, ClearSrcCtx(s)
         PROVE  \A m \in Sessions : Made(m) => Made(m)'
    <2>1. th[s].target # None
      BY <1>25, TargetKnown DEF ClearSrcCtx
    <2>2. QED
      BY <1>25, <2>1, ClearSrcCtxEffect, HandlerOf(s), StageOf(s)
         DEF Made, HandlerOf, StageOf, SessionBut, ThreadTo, ThreadDone, ThreadAt
  <1>26. ASSUME NEW s \in Sessions, RemoveMdSource(s)
         PROVE  \A m \in Sessions : Made(m) => Made(m)'
    <2>1. QED
      BY <1>26, RemoveMdSourceEffect, HandlerOf(s), StageOf(s)
         DEF Made, HandlerOf, StageOf, SessionBut, ThreadTo, ThreadDone, ThreadAt
  <1>27. ASSUME NEW s \in Sessions, RemoveClientSession(s)
         PROVE  \A m \in Sessions : Made(m) => Made(m)'
    <2>1. th[s].target # None
      BY <1>27, TargetKnown DEF RemoveClientSession
    <2>2. QED
      BY <1>27, <2>1, RemoveClientSessionEffect, HandlerOf(s), StageOf(s)
         DEF Made, HandlerOf, StageOf, SessionBut, ThreadTo, ThreadDone, ThreadAt
  <1>28. ASSUME NEW s \in Sessions, Destroy(s) PROVE \A m \in Sessions : Made(m) => Made(m)'
    <2>1. ~ss[s].inMd
      BY <1>28, NotListed DEF Destroy
    <2>2. QED
      BY <1>28, <2>1, DestroyEffect, HandlerOf(s), StageOf(s)
         DEF Made, HandlerOf, StageOf, SessionBut, ThreadTo, ThreadDone, ThreadAt
  <1>29. ASSUME NEW s \in Sessions, Forward(s) PROVE \A m \in Sessions : Made(m) => Made(m)'
    BY <1>29, ForwardEffect DEF Forward, Made
  <1>30. ASSUME NEW s \in Sessions, Deliver(s) PROVE \A m \in Sessions : Made(m) => Made(m)'
    BY <1>30, DeliverEffect DEF Deliver, Made
  <1>31. CASE UNCHANGED vars
    BY <1>31 DEF vars, Made
  <1>32. QED
    BY <1>1, <1>2, <1>3, <1>4, <1>5, <1>6, <1>7, <1>8, <1>9, <1>10, <1>11,
       <1>12, <1>13, <1>14, <1>15, <1>16, <1>17, <1>18, <1>19, <1>20, <1>21,
       <1>22, <1>23, <1>24, <1>25, <1>26, <1>27, <1>28, <1>29, <1>30, <1>31
       DEF Next, Handlers

LEMMA EnteredMade ==
  ASSUME Inv, NEW m \in Sessions, Entered(m)
  PROVE  Made(m)
  <1>1. ss[m].mdsrc = m /\ SourceOf(m)
    BY DEF Inv, RegistryInv, ClaimOf, StageInv, StageOf, SourceInv, Entered
  <1>2. QED
    BY <1>1 DEF SourceOf

LEMMA TargetMade ==
  ASSUME Types, Inv, NEW s \in Sessions, th[s].target # None
  PROVE  th[s].target \in Sessions /\ Made(th[s].target)
  <1>1. /\ th[s].target \in Sessions
        /\ th[s].op \in {"kick", "replace", "end"}
        /\ th[s].op = "end" => th[s].target = ss[s].mdsrc
    BY DEF Types, HandlersOK, Handling, Inv, HandlerInv, HandlerOf
  <1>2. CASE th[s].op = "end"
    <2>1. ss[s].mdsrc # None /\ SourceOf(s)
      BY <1>1, <1>2 DEF Inv, SourceInv
    <2>2. QED
      BY <1>1, <1>2, <2>1 DEF SourceOf
  <1>3. CASE th[s].op # "end"
    <2>1. PICK m \in Sessions : m = th[s].target
      BY <1>1
    <2>2. Entered(m)
      BY <1>1, <1>3, <2>1 DEF Inv, RegistryInv, HeldBy, Holding
    <2>3. QED
      BY <2>1, <2>2, EnteredMade
  <1>4. QED
    BY <1>2, <1>3

\* Where a session has its sources from.
LEMMA SourceFrom ==
  ASSUME Types, NEW t \in Sessions, SourceOf(t), \A m \in Sessions : Made(m) => Made(m)',
         \/ ss'[t].mdsrc \in {ss[t].mdsrc, None}
         \/ \E x \in Sessions : ss'[t].mdsrc = x /\ Made(x)',
         \/ th'[t].src \in {th[t].src, None}
         \/ \E x \in Sessions : th'[t].src = x /\ Made(x)',
         \A i \in 1..Len(inbox'[t]) :
            \/ \E j \in 1..Len(inbox[t]) : inbox'[t][i] = inbox[t][j]
            \/ inbox'[t][i].src \in {None, ss[t].mdsrc}
  PROVE  SourceOf(t)'
  <1>1. /\ ss[t].mdsrc \in Sessions \cup {None} /\ th[t].src \in Sessions \cup {None}
        /\ \A j \in 1..Len(inbox[t]) : inbox[t][j].src \in Sessions \cup {None}
    <2>1. ss[t] \in SessionFields(Int) /\ th[t] \in Handling /\ inbox[t] \in Seq(Events)
      BY DEF Types, HandlersOK, NetOK
    <2>2. \A j \in 1..Len(inbox[t]) : inbox[t][j] \in Events
      BY <2>1
    <2>3. ss[t].mdsrc \in Sessions \cup {None}
      BY <2>1 DEF SessionFields
    <2>4. th[t].src \in Sessions \cup {None}
      BY <2>1 DEF Handling
    <2>5. \A j \in 1..Len(inbox[t]) : inbox[t][j].src \in Sessions \cup {None}
      BY <2>2 DEF Events
    <2>6. QED
      BY <2>3, <2>4, <2>5
  <1>2. ss'[t].mdsrc # None => \E x \in Sessions : x = ss'[t].mdsrc /\ Made(x)'
    BY <1>1 DEF SourceOf
  <1>3. th'[t].src # None => \E x \in Sessions : x = th'[t].src /\ Made(x)'
    BY <1>1 DEF SourceOf
  <1>4. ASSUME NEW i \in 1..Len(inbox'[t]), inbox'[t][i].src # None
        PROVE  \E x \in Sessions : x = inbox'[t][i].src /\ Made(x)'
    <2>1. CASE \E j \in 1..Len(inbox[t]) : inbox'[t][i] = inbox[t][j]
      BY <1>1, <1>4, <2>1 DEF SourceOf
    <2>2. CASE inbox'[t][i].src \in {None, ss[t].mdsrc}
      BY <1>1, <1>4, <2>2 DEF SourceOf
    <2>3. QED
      BY <2>1, <2>2
  <1>5. QED
    BY <1>2, <1>3, <1>4 DEF SourceOf, Made

LEMMA SourceKept ==
  ASSUME Types, NEW t \in Sessions, SourceOf(t), \A m \in Sessions : Made(m) => Made(m)',
         ss'[t].mdsrc \in {ss[t].mdsrc, None}, th'[t].src \in {th[t].src, None},
         inbox'[t] = inbox[t]
  PROVE  SourceOf(t)'
  BY SourceFrom

LEMMA TakenSource ==
  ASSUME Types, NEW s \in Sessions, NEW k, IsNext(s, k), Taken(s), SourceOf(s)
  PROVE  /\ Head(inbox[s]).src # None =>
              \E x \in Sessions : x = Head(inbox[s]).src /\ Made(x)
         /\ \A i \in 1..Len(inbox'[s]) :
              \E j \in 1..Len(inbox[s]) : inbox'[s][i] = inbox[s][j]
  <1>1. inbox[s] \in Seq(Events)
    BY DEF Types, NetOK
  <1>2. /\ Len(inbox'[s]) = Len(inbox[s]) - 1 /\ 1 \in 1..Len(inbox[s])
        /\ Head(inbox[s]) = inbox[s][1] /\ Head(inbox[s]) \in Events
        /\ \A i \in 1..Len(inbox'[s]) : inbox'[s][i] = inbox[s][i + 1]
    BY <1>1, TakenEffect
  <1>3. Head(inbox[s]).src \in Sessions \cup {None}
    BY <1>2 DEF Events
  <1>4. ASSUME NEW i \in 1..Len(inbox'[s])
        PROVE  \E j \in 1..Len(inbox[s]) : inbox'[s][i] = inbox[s][j]
    <2>1. i + 1 \in 1..Len(inbox[s])
      BY <1>1, <1>2
    <2>2. QED
      BY <1>2, <2>1
  <1>5. QED
    BY <1>2, <1>3, <1>4 DEF SourceOf


LEMMA SourcesStep ==
  ASSUME Types, Inv, [Next]_vars
  PROVE  \A s \in Sessions : SourceOf(s)'
  <1> SUFFICES ASSUME \A s \in Sessions : SourceOf(s) /\ StageOf(s) /\ HandlerOf(s),
                      \A m \in Sessions : Made(m) => Made(m)'
               PROVE  \A s \in Sessions : SourceOf(s)'
    BY MadeStays DEF Inv, SourceInv, StageInv, HandlerInv
  <1>1. ASSUME NEW s \in Sessions, NEW n \in Names \cup {None}, InvokePublish(s, n)
        PROVE  \A t \in Sessions : SourceOf(t)'
    <2>1. Post(s, "publish", n) /\ UNCHANGED <<ss, th>>
      BY <1>1 DEF InvokePublish
    <2>2. SourceOf(s)'
      <3>1. inbox[s] \in Seq(Events)
        BY DEF Types, NetOK
      <3>2. /\ Len(inbox'[s]) = Len(inbox[s]) + 1
            /\ \A i \in 1..Len(inbox[s]) : inbox'[s][i] = inbox[s][i]
            /\ inbox'[s][Len(inbox'[s])] = Event("publish", n, ss[s].mdsrc)
        BY <2>1, PostEffect
      <3>3. ASSUME NEW i \in 1..Len(inbox'[s])
            PROVE  \/ \E j \in 1..Len(inbox[s]) : inbox'[s][i] = inbox[s][j]
                   \/ inbox'[s][i].src \in {None, ss[s].mdsrc}
        <4>1. CASE i = Len(inbox'[s])
          BY <3>2, <4>1 DEF Event
        <4>2. CASE i # Len(inbox'[s])
          BY <3>1, <3>2, <4>2
        <4>3. QED
          BY <4>1, <4>2
      <3>4. QED
        BY <2>1, <3>3, SourceFrom
    <2>3. ASSUME NEW t \in Sessions \ {s}
          PROVE  SourceOf(t)'
      BY <2>1, PostEffect, SourceKept
    <2>4. QED
      BY <2>2, <2>3
  <1>2. ASSUME NEW s \in Sessions, NEW n \in Names \cup {None}, InvokePlay(s, n)
        PROVE  \A t \in Sessions : SourceOf(t)'
    <2>1. Post(s, "play", n) /\ UNCHANGED <<ss, th>>
      BY <1>2 DEF InvokePlay
    <2>2. SourceOf(s)'
      <3>1. inbox[s] \in Seq(Events)
        BY DEF Types, NetOK
      <3>2. /\ Len(inbox'[s]) = Len(inbox[s]) + 1
            /\ \A i \in 1..Len(inbox[s]) : inbox'[s][i] = inbox[s][i]
            /\ inbox'[s][Len(inbox'[s])] = Event("play", n, ss[s].mdsrc)
        BY <2>1, PostEffect
      <3>3. ASSUME NEW i \in 1..Len(inbox'[s])
            PROVE  \/ \E j \in 1..Len(inbox[s]) : inbox'[s][i] = inbox[s][j]
                   \/ inbox'[s][i].src \in {None, ss[s].mdsrc}
        <4>1. CASE i = Len(inbox'[s])
          BY <3>2, <4>1 DEF Event
        <4>2. CASE i # Len(inbox'[s])
          BY <3>1, <3>2, <4>2
        <4>3. QED
          BY <4>1, <4>2
      <3>4. QED
        BY <2>1, <3>3, SourceFrom
    <2>3. ASSUME NEW t \in Sessions \ {s}
          PROVE  SourceOf(t)'
      BY <2>1, PostEffect, SourceKept
    <2>4. QED
      BY <2>2, <2>3
  <1>3. ASSUME NEW s \in Sessions, OnMedia(s) PROVE \A t \in Sessions : SourceOf(t)'
    BY <1>3, OnMediaEffect, SourceKept
  <1>4. ASSUME NEW s \in Sessions, ReleaseStream(s) PROVE \A t \in Sessions : SourceOf(t)'
    BY <1>4, SourceKept DEF ReleaseStream
  <1>5. ASSUME NEW s \in Sessions, WriteCompleted(s) PROVE \A t \in Sessions : SourceOf(t)'
    BY <1>5, SourceKept DEF WriteCompleted
  <1>6. ASSUME NEW s \in Sessions, OnClose(s) PROVE \A t \in Sessions : SourceOf(t)'
    <2>1. Post(s, "close", None) /\ UNCHANGED <<ss, th>>
      BY <1>6 DEF OnClose
    <2>2. SourceOf(s)'
      <3>1. inbox[s] \in Seq(Events)
        BY DEF Types, NetOK
      <3>2. /\ Len(inbox'[s]) = Len(inbox[s]) + 1
            /\ \A i \in 1..Len(inbox[s]) : inbox'[s][i] = inbox[s][i]
            /\ inbox'[s][Len(inbox'[s])] = Event("close", None, ss[s].mdsrc)
        BY <2>1, PostEffect
      <3>3. ASSUME NEW i \in 1..Len(inbox'[s])
            PROVE  \/ \E j \in 1..Len(inbox[s]) : inbox'[s][i] = inbox[s][j]
                   \/ inbox'[s][i].src \in {None, ss[s].mdsrc}
        <4>1. CASE i = Len(inbox'[s])
          BY <3>2, <4>1 DEF Event
        <4>2. CASE i # Len(inbox'[s])
          BY <3>1, <3>2, <4>2
        <4>3. QED
          BY <4>1, <4>2
      <3>4. QED
        BY <2>1, <3>3, SourceFrom
    <2>3. ASSUME NEW t \in Sessions \ {s}
          PROVE  SourceOf(t)'
      BY <2>1, PostEffect, SourceKept
    <2>4. QED
      BY <2>2, <2>3
  <1>7. ASSUME NEW s \in Sessions, Publish(s) PROVE \A t \in Sessions : SourceOf(t)'
    <2>1. /\ Head(inbox[s]).src # None =>
               \E x \in Sessions : x = Head(inbox[s]).src /\ Made(x)
          /\ \A i \in 1..Len(inbox'[s]) :
               \E j \in 1..Len(inbox[s]) : inbox'[s][i] = inbox[s][j]
          /\ \A t \in Sessions \ {s} : inbox'[t] = inbox[t]
      BY <1>7, PublishEffect, TakenSource, TakenEffect
    <2>2. SourceOf(s)'
      <3>1. \/ th'[s].src \in {th[s].src, None}
            \/ \E x \in Sessions : th'[s].src = x /\ Made(x)'
        BY <1>7, <2>1, PublishEffect DEF ThreadAt
      <3>2. ss'[s].mdsrc \in {ss[s].mdsrc, None}
        BY <1>7, PublishEffect DEF SessionBut
      <3>3. QED
        BY <2>1, <3>1, <3>2, SourceFrom
    <2>3. ASSUME NEW t \in Sessions \ {s}
          PROVE  SourceOf(t)'
      BY <1>7, <2>1, PublishEffect, SourceKept DEF SessionBut, ThreadAt
    <2>4. QED
      BY <2>2, <2>3
  <1>8. ASSUME NEW s \in Sessions, IsExist(s) PROVE \A t \in Sessions : SourceOf(t)'
    <2>1. ss[s].stream # None
      BY <1>8, StreamKnown DEF IsExist
    <2>2. ASSUME NEW t \in Sessions
          PROVE  SourceOf(t)'
      BY <1>8, <2>1, IsExistEffect, SourceKept
         DEF SessionBut, ThreadTo, ThreadDone, ThreadAt
    <2>3. QED
      BY <2>2
  <1>9. ASSUME NEW s \in Sessions, Kick(s) PROVE \A t \in Sessions : SourceOf(t)'
    <2>1. ss[s].stream # None
      BY <1>9, StreamKnown DEF Kick
    <2>2. ASSUME NEW t \in Sessions
          PROVE  SourceOf(t)'
      BY <1>9, <2>1, KickEffect, SourceKept
         DEF SessionBut, ThreadTo, ThreadDone, ThreadAt
    <2>3. QED
      BY <2>2
  <1>10. ASSUME NEW s \in Sessions, KickTest(s) PROVE \A t \in Sessions : SourceOf(t)'
    <2>1. ASSUME NEW t \in Sessions
          PROVE  SourceOf(t)'
      BY <1>10, KickTestEffect, SourceKept
         DEF SessionBut, ThreadTo, ThreadDone, ThreadAt
    <2>2. QED
      BY <2>1
  <1>11. ASSUME NEW s \in Sessions, KickForce(s) PROVE \A t \in Sessions : SourceOf(t)'
    <2>1. ASSUME NEW t \in Sessions
          PROVE  SourceOf(t)'
      BY <1>11, KickForceEffect, SourceKept
         DEF SessionBut, ThreadTo, ThreadDone, ThreadAt
    <2>2. QED
      BY <2>1
  <1>12. ASSUME NEW s \in Sessions, Create(s) PROVE \A t \in Sessions : SourceOf(t)'
    <2>1. /\ th[s].pc = "create" /\ SessionBut(s, {"mdsrc"}) /\ ss'[s].mdsrc = s
          /\ ThreadAt(s, "add", th[s].op, s, th[s].target) /\ inbox' = inbox
      BY <1>12, CreateEffect
    <2>2. ss[s].srcCtx /\ th[s].op = None
      BY <2>1, StageOf(s), HandlerOf(s) DEF StageOf, HandlerOf
    <2>3. Made(s)'
      BY <2>1, <2>2 DEF Made, SessionBut, ThreadAt
    <2>4. SourceOf(s)'
      BY <2>1, <2>3, SourceFrom DEF ThreadAt
    <2>5. ASSUME NEW t \in Sessions \ {s}
          PROVE  SourceOf(t)'
      BY <2>1, SourceKept DEF SessionBut, ThreadAt
    <2>6. QED
      BY <2>4, <2>5
  <1>13. ASSUME NEW s \in Sessions, Add(s) PROVE \A t \in Sessions : SourceOf(t)'
    <2>1. ss[s].stream # None
      BY <1>13, StreamKnown DEF Add
    <2>2. ASSUME NEW t \in Sessions
          PROVE  SourceOf(t)'
      BY <1>13, <2>1, AddEffect, SourceKept
         DEF SessionBut, ThreadTo, ThreadDone, ThreadAt
    <2>3. QED
      BY <2>2
  <1>14. ASSUME NEW s \in Sessions, Attach(s) PROVE \A t \in Sessions : SourceOf(t)'
    <2>1. ASSUME NEW t \in Sessions
          PROVE  SourceOf(t)'
      BY <1>14, AttachEffect, SourceKept
         DEF SessionBut, ThreadTo, ThreadDone, ThreadAt
    <2>2. QED
      BY <2>1
  <1>15. ASSUME NEW s \in Sessions, CloseSrcCtx(s) PROVE \A t \in Sessions : SourceOf(t)'
    <2>1. th[s].target # None
      BY <1>15, TargetKnown DEF CloseSrcCtx
    <2>2. ASSUME NEW t \in Sessions
          PROVE  SourceOf(t)'
      BY <1>15, <2>1, CloseSrcCtxThread, CloseSrcCtxFields, SourceKept
         DEF SessionBut, ThreadTo, ThreadDone, ThreadAt
    <2>3. QED
      BY <2>2
  <1>16. ASSUME NEW s \in Sessions, CloseAllClients(s) PROVE \A t \in Sessions : SourceOf(t)'
    <2>1. th[s].target # None
      BY <1>16, TargetKnown DEF CloseAllClients
    <2>2. ASSUME NEW t \in Sessions
          PROVE  SourceOf(t)'
      BY <1>16, <2>1, CloseAllClientsEffect, SourceKept
         DEF SessionBut, ThreadTo, ThreadDone, ThreadAt
    <2>3. QED
      BY <2>2
  <1>17. ASSUME NEW s \in Sessions, Drain(s) PROVE \A t \in Sessions : SourceOf(t)'
    <2>1. th[s].target # None
      BY <1>17, TargetKnown DEF Drain
    <2>2. ASSUME NEW t \in Sessions
          PROVE  SourceOf(t)'
      BY <1>17, <2>1, DrainEffect, SourceKept
         DEF SessionBut, ThreadTo, ThreadDone, ThreadAt
    <2>3. QED
      BY <2>2
  <1>18. ASSUME NEW s \in Sessions, Closed(s) PROVE \A t \in Sessions : SourceOf(t)'
    <2>1. th[s].target # None
      BY <1>18, TargetKnown DEF Closed
    <2>2. ASSUME NEW t \in Sessions
          PROVE  SourceOf(t)'
      BY <1>18, <2>1, ClosedEffect, SourceKept
         DEF SessionBut, ThreadTo, ThreadDone, ThreadAt
    <2>3. QED
      BY <2>2
  <1>19. ASSUME NEW s \in Sessions, Play(s) PROVE \A t \in Sessions : SourceOf(t)'
    <2>1. /\ Head(inbox[s]).src # None =>
               \E x \in Sessions : x = Head(inbox[s]).src /\ Made(x)
          /\ \A i \in 1..Len(inbox'[s]) :
               \E j \in 1..Len(inbox[s]) : inbox'[s][i] = inbox[s][j]
          /\ \A t \in Sessions \ {s} : inbox'[t] = inbox[t]
      BY <1>19, PlayEffect, TakenSource, TakenEffect
    <2>2. SourceOf(s)'
      <3>1. \/ th'[s].src \in {th[s].src, None}
            \/ \E x \in Sessions : th'[s].src = x /\ Made(x)'
        BY <1>19, <2>1, PlayEffect DEF ThreadAt
      <3>2. ss'[s].mdsrc \in {ss[s].mdsrc, None}
        BY <1>19, PlayEffect DEF SessionBut
      <3>3. QED
        BY <2>1, <3>1, <3>2, SourceFrom
    <2>3. ASSUME NEW t \in Sessions \ {s}
          PROVE  SourceOf(t)'
      BY <1>19, <2>1, PlayEffect, SourceKept DEF SessionBut, ThreadAt
    <2>4. QED
      BY <2>2, <2>3
  <1>20. ASSUME NEW s \in Sessions, GetMdSource(s) PROVE \A t \in Sessions : SourceOf(t)'
    <2>1. ss[s].stream # None /\ ss[s].stream \in Keys
      BY <1>20, StreamKnown DEF GetMdSource, Types, SessionFields
    <2>2. /\ SessionBut(s, {"mdsrc"}) /\ ss'[s].mdsrc = streams[ss[s].stream]
          /\ ThreadAt(s, "opened", th[s].op, streams[ss[s].stream], th[s].target)
          /\ inbox' = inbox
      BY <1>20, <2>1, GetMdSourceEffect
    <2>3. ASSUME streams[ss[s].stream] # None
          PROVE  \E x \in Sessions : x = streams[ss[s].stream] /\ Made(x)'
      <3>1. PICK x \in Sessions : x = streams[ss[s].stream] /\ Entered(x)
        BY <2>1, <2>3 DEF Types, RegistryOK, Inv, RegistryInv, NameOf
      <3>2. QED
        BY <3>1, EnteredMade
    <2>4. SourceOf(s)'
      BY <2>2, <2>3, SourceFrom DEF ThreadAt
    <2>5. ASSUME NEW t \in Sessions \ {s}
          PROVE  SourceOf(t)'
      BY <2>2, SourceKept DEF SessionBut, ThreadAt
    <2>6. QED
      BY <2>4, <2>5
  <1>21. ASSUME NEW s \in Sessions, PlayOpened(s) PROVE \A t \in Sessions : SourceOf(t)'
    <2>1. ASSUME NEW t \in Sessions
          PROVE  SourceOf(t)'
      BY <1>21, PlayOpenedEffect, SourceKept
         DEF SessionBut, ThreadTo, ThreadDone, ThreadAt
    <2>2. QED
      BY <2>1
  <1>22. ASSUME NEW s \in Sessions, Join(s) PROVE \A t \in Sessions : SourceOf(t)'
    <2>1. ASSUME NEW t \in Sessions
          PROVE  SourceOf(t)'
      BY <1>22, JoinEffect, SourceKept
         DEF SessionBut, ThreadTo, ThreadDone, ThreadAt
    <2>2. QED
      BY <2>1
  <1>23. ASSUME NEW s \in Sessions, JoinAdd(s) PROVE \A t \in Sessions : SourceOf(t)'
    <2>1. th[s].src # None
      BY <1>23, SourceKnown DEF JoinAdd
    <2>2. ASSUME NEW t \in Sessions
          PROVE  SourceOf(t)'
      BY <1>23, <2>1, JoinAddEffect, SourceKept
         DEF SessionBut, ThreadTo, ThreadDone, ThreadAt
    <2>3. QED
      BY <2>2
  <1>24. ASSUME NEW s \in Sessions, ReallyClose(s) PROVE \A t \in Sessions : SourceOf(t)'
    <2>1. /\ Head(inbox[s]).src # None =>
               \E x \in Sessions : x = Head(inbox[s]).src /\ Made(x)
          /\ \A i \in 1..Len(inbox'[s]) :
               \E j \in 1..Len(inbox[s]) : inbox'[s][i] = inbox[s][j]
          /\ \A t \in Sessions \ {s} : inbox'[t] = inbox[t]
      BY <1>24, ReallyCloseEffect, TakenSource, TakenEffect
    <2>2. SourceOf(s)'
      <3>1. \/ th'[s].src \in {th[s].src, None}
            \/ \E x \in Sessions : th'[s].src = x /\ Made(x)'
        BY <1>24, <2>1, ReallyCloseEffect DEF ThreadAt
      <3>2. ss'[s].mdsrc \in {ss[s].mdsrc, None}
        BY <1>24, ReallyCloseEffect DEF SessionBut
      <3>3. QED
        BY <2>1, <3>1, <3>2, SourceFrom
    <2>3. ASSUME NEW t \in Sessions \ {s}
          PROVE  SourceOf(t)'
      BY <1>24, <2>1, ReallyCloseEffect, SourceKept DEF SessionBut, ThreadAt
    <2>4. QED
      BY <2>2, <2>3
  <1>25. ASSUME NEW s \in Sessions, ClearSrcCtx(s) PROVE \A t \in Sessions : SourceOf(t)'
    <2>1. th[s].target # None
      BY <1>25, TargetKnown DEF ClearSrcCtx
    <2>2. ASSUME NEW t \in Sessions
          PROVE  SourceOf(t)'
      BY <1>25, <2>1, ClearSrcCtxEffect, SourceKept
         DEF SessionBut, ThreadTo, ThreadDone, ThreadAt
    <2>3. QED
      BY <2>2
  <1>26. ASSUME NEW s \in Sessions, RemoveMdSource(s) PROVE \A t \in Sessions : SourceOf(t)'
    <2>1. ASSUME NEW t \in Sessions
          PROVE  SourceOf(t)'
      BY <1>26, RemoveMdSourceEffect, SourceKept
         DEF SessionBut, ThreadTo, ThreadDone, ThreadAt
    <2>2. QED
      BY <2>1
  <1>27. ASSUME NEW s \in Sessions, RemoveClientSession(s)
         PROVE  \A t \in Sessions : SourceOf(t)'
    <2>1. th[s].target # None
      BY <1>27, TargetKnown DEF RemoveClientSession
    <2>2. ASSUME NEW t \in Sessions
          PROVE  SourceOf(t)'
      BY <1>27, <2>1, RemoveClientSessionEffect, SourceKept
         DEF SessionBut, ThreadTo, ThreadDone, ThreadAt
    <2>3. QED
      BY <2>2
  <1>28. ASSUME NEW s \in Sessions, Destroy(s) PROVE \A t \in Sessions : SourceOf(t)'
    <2>1. ~ss[s].inMd
      BY <1>28, NotListed DEF Destroy
    <2>2. ASSUME NEW t \in Sessions
          PROVE  SourceOf(t)'
      BY <1>28, <2>1, DestroyEffect, SourceKept
         DEF SessionBut, ThreadTo, ThreadDone, ThreadAt
    <2>3. QED
      BY <2>2
  <1>29. ASSUME NEW s \in Sessions, Forward(s) PROVE \A t \in Sessions : SourceOf(t)'
    BY <1>29, ForwardEffect, SourceKept
  <1>30. ASSUME NEW s \in Sessions, Deliver(s) PROVE \A t \in Sessions : SourceOf(t)'
    BY <1>30, DeliverEffect, SourceKept
  <1>31. CASE UNCHANGED vars
    BY <1>31, SourceKept DEF vars
  <1>32. QED
    BY <1>1, <1>2, <1>3, <1>4, <1>5, <1>6, <1>7, <1>8, <1>9, <1>10, <1>11,
       <1>12, <1>13, <1>14, <1>15, <1>16, <1>17, <1>18, <1>19, <1>20, <1>21,
       <1>22, <1>23, <1>24, <1>25, <1>26, <1>27, <1>28, <1>29, <1>30, <1>31
       DEF Next, Handlers

LEMMA ContextKept ==
  ASSUME NEW m \in Sessions, ContextOf(m), Made(m) => Made(m)',
         frames'[m] = frames[m] \/ Made(m), ss'[m].mdsrc = ss[m].mdsrc,
         ss[m].valid => ss'[m].valid, ss[m].onClose => ss'[m].onClose,
         md'[m].ctxSrc = md[m].ctxSrc, Alike(md'[m], md[m]) \/ Made(m)
  PROVE  ContextOf(m)'
  <1>1. ~Made(m)' => Alike(md[m], NoSource)' /\ frames'[m] = <<>>
    BY DEF ContextOf, Alike
  <1>2. QED
    BY <1>1 DEF ContextOf


LEMMA ContextsStep ==
  ASSUME Types, Inv, [Next]_vars
  PROVE  \A m \in Sessions : ContextOf(m)'
  <1> SUFFICES ASSUME \A m \in Sessions : /\ ContextOf(m) /\ StageOf(m) /\ HandlerOf(m)
                                          /\ SourceOf(m) /\ PlayerOf(m) /\ LifeOf(m),
                      \A m \in Sessions : Made(m) => Made(m)'
               PROVE  \A m \in Sessions : ContextOf(m)'
    BY MadeStays DEF Inv, SourceInv, StageInv, HandlerInv, PlayerInv, LifeInv
  <1>1. ASSUME NEW s \in Sessions, NEW n \in Names \cup {None}, InvokePublish(s, n)
        PROVE  \A m \in Sessions : ContextOf(m)'
    <2>1. Post(s, "publish", n) /\ UNCHANGED <<ss, th, media>>
      BY <1>1 DEF InvokePublish
    <2>2. QED
      BY <2>1, PostEffect, ContextKept DEF NoSourceBut, Alike, media
  <1>2. ASSUME NEW s \in Sessions, NEW n \in Names \cup {None}, InvokePlay(s, n)
        PROVE  \A m \in Sessions : ContextOf(m)'
    <2>1. Post(s, "play", n) /\ UNCHANGED <<ss, th, media>>
      BY <1>2 DEF InvokePlay
    <2>2. QED
      BY <2>1, PostEffect, ContextKept DEF NoSourceBut, Alike, media
  <1>3. ASSUME NEW s \in Sessions, OnMedia(s) PROVE \A m \in Sessions : ContextOf(m)'
    <2>1. PICK x \in Sessions : x = ss[s].mdsrc /\ frames' = [frames EXCEPT ![x] = Append(@, s)]
      BY <1>3, OnMediaEffect
    <2>2. Made(x)
      BY <2>1, SourceOf(s) DEF SourceOf
    <2>3. \A m \in Sessions : frames'[m] = frames[m] \/ Made(m)
      BY <2>1, <2>2 DEF Types, MediaOK
    <2>4. QED
      BY <1>3, <2>3, OnMediaEffect, ContextKept DEF NoSourceBut, Alike
  <1>4. ASSUME NEW s \in Sessions, ReleaseStream(s) PROVE \A m \in Sessions : ContextOf(m)'
    BY <1>4, ContextKept DEF ReleaseStream, media, Alike
  <1>5. ASSUME NEW s \in Sessions, WriteCompleted(s) PROVE \A m \in Sessions : ContextOf(m)'
    BY <1>5, ContextKept DEF WriteCompleted, media, Alike
  <1>6. ASSUME NEW s \in Sessions, OnClose(s) PROVE \A m \in Sessions : ContextOf(m)'
    <2>1. Post(s, "close", None) /\ UNCHANGED <<ss, th, media>>
      BY <1>6 DEF OnClose
    <2>2. QED
      BY <2>1, PostEffect, ContextKept DEF NoSourceBut, Alike, media
  <1>7. ASSUME NEW s \in Sessions, Publish(s) PROVE \A m \in Sessions : ContextOf(m)'
    <2>1. ~ss[s].srcCtx
      <3>1. /\ Head(inbox[s]) = inbox[s][1] /\ inbox[s][1].kind = "publish"
            /\ 1 \in 1..Len(inbox[s])
        BY <1>7, PublishEffect, TakenEffect DEF Types, NetOK
      <3>2. QED
        BY <3>1, LifeOf(s) DEF LifeOf
    <2>2. /\ \A t \in Sessions \ {s} : ss'[t] = ss[t]
          /\ ss'[s].mdsrc \in {ss[s].mdsrc, None} /\ ss'[s].onClose = ss[s].onClose
          /\ NoSourceBut /\ frames' = frames
      BY <1>7, PublishEffect DEF SessionBut, media
    <2>3. ContextOf(s)'
      <3>1. ~Made(s)
        BY <2>1 DEF Made
      <3>2. Alike(md'[s], NoSource) /\ frames'[s] = <<>>
        BY <2>2, <3>1, ContextOf(s) DEF ContextOf, NoSourceBut, Alike
      <3>3. md'[s].ctxSrc = None
        BY <3>2 DEF Alike, NoSource
      <3>4. ss'[s].mdsrc = s /\ md'[s].ctxSrc = None => ss'[s].onClose
        BY <2>2, <3>3, ContextOf(s) DEF ContextOf, ConstantsAssumption, NoSourceBut, Alike
      <3>5. QED
        BY <3>2, <3>3, <3>4 DEF ContextOf, Alike, NoSource
    <2>4. ASSUME NEW m \in Sessions \ {s}
          PROVE  ContextOf(m)'
      BY <2>2, ContextKept DEF NoSourceBut, Alike
    <2>5. QED
      BY <2>3, <2>4
  <1>8. ASSUME NEW s \in Sessions, IsExist(s) PROVE \A m \in Sessions : ContextOf(m)'
    <2>1. ss[s].stream # None
      BY <1>8, StreamKnown DEF IsExist
    <2>2. ASSUME NEW m \in Sessions
          PROVE  ContextOf(m)'
      BY <1>8, <2>1, IsExistEffect, ContextKept
         DEF SessionBut, SourceBut, NoSourceBut, Alike, media
    <2>3. QED
      BY <2>2
  <1>9. ASSUME NEW s \in Sessions, Kick(s) PROVE \A m \in Sessions : ContextOf(m)'
    <2>1. ss[s].stream # None
      BY <1>9, StreamKnown DEF Kick
    <2>2. ASSUME NEW m \in Sessions
          PROVE  ContextOf(m)'
      BY <1>9, <2>1, KickEffect, ContextKept
         DEF SessionBut, SourceBut, NoSourceBut, Alike, media
    <2>3. QED
      BY <2>2
  <1>10. ASSUME NEW s \in Sessions, KickTest(s) PROVE \A m \in Sessions : ContextOf(m)'
    <2>1. ASSUME NEW m \in Sessions
          PROVE  ContextOf(m)'
      BY <1>10, KickTestEffect, ContextKept
         DEF SessionBut, SourceBut, NoSourceBut, Alike, media
    <2>2. QED
      BY <2>1
  <1>11. ASSUME NEW s \in Sessions, KickForce(s) PROVE \A m \in Sessions : ContextOf(m)'
    <2>1. ASSUME NEW m \in Sessions
          PROVE  ContextOf(m)'
      BY <1>11, KickForceEffect, ContextKept
         DEF SessionBut, SourceBut, NoSourceBut, Alike, media
    <2>2. QED
      BY <2>1
  <1>12. ASSUME NEW s \in Sessions, Create(s) PROVE \A m \in Sessions : ContextOf(m)'
    <2>1. /\ th[s].pc = "create" /\ SessionBut(s, {"mdsrc"}) /\ ss'[s].mdsrc = s
          /\ SourceBut(s, {"ctxSrc", "rtmp"}) /\ md'[s].ctxSrc = s /\ frames' = frames
      BY <1>12, CreateEffect DEF media
    <2>2. ContextOf(s)'
      <3>1. ss'[s].valid /\ Made(s)'
        <4>1. ThreadAt(s, "add", th[s].op, s, th[s].target)
          BY <1>12, CreateEffect
        <4>2. QED
          BY <2>1, <4>1, StageOf(s), HandlerOf(s)
             DEF StageOf, HandlerOf, Made, SessionBut, ThreadAt
      <3>2. QED
        BY <2>1, <3>1 DEF ContextOf
    <2>3. ASSUME NEW m \in Sessions \ {s}
          PROVE  ContextOf(m)'
      BY <2>1, ContextKept DEF SessionBut, SourceBut, Alike
    <2>4. QED
      BY <2>2, <2>3
  <1>13. ASSUME NEW s \in Sessions, Add(s) PROVE \A m \in Sessions : ContextOf(m)'
    <2>1. ss[s].stream # None
      BY <1>13, StreamKnown DEF Add
    <2>2. ASSUME NEW m \in Sessions
          PROVE  ContextOf(m)'
      BY <1>13, <2>1, AddEffect, ContextKept
         DEF SessionBut, SourceBut, NoSourceBut, Alike, media
    <2>3. QED
      BY <2>2
  <1>14. ASSUME NEW s \in Sessions, Attach(s) PROVE \A m \in Sessions : ContextOf(m)'
    <2>1. Made(s)
      BY <1>14, AttachEffect, StageOf(s), HandlerOf(s) DEF StageOf, HandlerOf, Made
    <2>2. ASSUME NEW m \in Sessions
          PROVE  ContextOf(m)'
      BY <1>14, <2>1, AttachEffect, ContextKept DEF SessionBut, SourceBut, Alike, media
    <2>3. QED
      BY <2>2
  <1>15. ASSUME NEW s \in Sessions, CloseSrcCtx(s) PROVE \A m \in Sessions : ContextOf(m)'
    <2>1. th[s].target # None
      BY <1>15, TargetKnown DEF CloseSrcCtx
    <2>2. ASSUME NEW m \in Sessions
          PROVE  ContextOf(m)'
      BY <1>15, <2>1, CloseSrcCtxThread, CloseSrcCtxFields, ContextKept
         DEF SessionBut, SourceBut, NoSourceBut, Alike, media
    <2>3. QED
      BY <2>2
  <1>16. ASSUME NEW s \in Sessions, CloseAllClients(s) PROVE \A m \in Sessions : ContextOf(m)'
    <2>1. th[s].target # None
      BY <1>16, TargetKnown DEF CloseAllClients
    <2>2. th[s].target \in Sessions /\ Made(th[s].target)
      BY <2>1, TargetMade
    <2>3. ASSUME NEW m \in Sessions
          PROVE  ContextOf(m)'
      BY <1>16, <2>1, <2>2, CloseAllClientsEffect, ContextKept
         DEF SessionBut, SourceBut, NoSourceBut, Alike, media
    <2>4. QED
      BY <2>3
  <1>17. ASSUME NEW s \in Sessions, Drain(s) PROVE \A m \in Sessions : ContextOf(m)'
    <2>1. th[s].target # None
      BY <1>17, TargetKnown DEF Drain
    <2>2. th[s].target \in Sessions /\ Made(th[s].target)
      BY <2>1, TargetMade
    <2>3. ASSUME NEW m \in Sessions
          PROVE  ContextOf(m)'
      BY <1>17, <2>1, <2>2, DrainEffect, ContextKept
         DEF SessionBut, SourceBut, NoSourceBut, Alike, media
    <2>4. QED
      BY <2>3
  <1>18. ASSUME NEW s \in Sessions, Closed(s) PROVE \A m \in Sessions : ContextOf(m)'
    <2>1. th[s].target # None
      BY <1>18, TargetKnown DEF Closed
    <2>2. th[s].target \in Sessions /\ Made(th[s].target)
      BY <2>1, TargetMade
    <2>3. ASSUME NEW m \in Sessions
          PROVE  ContextOf(m)'
      BY <1>18, <2>1, <2>2, ClosedEffect, ContextKept
         DEF SessionBut, SourceBut, NoSourceBut, Alike, media
    <2>4. QED
      BY <2>3
  <1>19. ASSUME NEW s \in Sessions, Play(s) PROVE \A m \in Sessions : ContextOf(m)'
    <2>1. ASSUME NEW m \in Sessions
          PROVE  ContextOf(m)'
      BY <1>19, PlayEffect, ContextKept
         DEF SessionBut, SourceBut, NoSourceBut, Alike, media
    <2>2. QED
      BY <2>1
  <1>20. ASSUME NEW s \in Sessions, GetMdSource(s) PROVE \A m \in Sessions : ContextOf(m)'
    <2>1. ss[s].stream # None /\ ss[s].stream \in Keys
      BY <1>20, StreamKnown DEF GetMdSource, Types, SessionFields
    <2>2. /\ SessionBut(s, {"mdsrc"}) /\ ss'[s].mdsrc = streams[ss[s].stream]
          /\ NoSourceBut /\ frames' = frames /\ ~Made(s)
      BY <1>20, <2>1, GetMdSourceEffect, StageOf(s) DEF StageOf, Made, media
    <2>3. ss'[s].mdsrc # s
      <3>1. CASE streams[ss[s].stream] = None
        BY <2>2, <3>1 DEF ConstantsAssumption
      <3>2. CASE streams[ss[s].stream] # None
        <4>1. PICK x \in Sessions : x = streams[ss[s].stream] /\ Entered(x)
          BY <2>1, <3>2 DEF Types, RegistryOK, Inv, RegistryInv, NameOf
        <4>2. QED
          BY <2>2, <4>1, EnteredMade
      <3>3. QED
        BY <3>1, <3>2
    <2>4. ContextOf(s)'
      <3>1. Alike(md'[s], NoSource) /\ frames'[s] = <<>>
        BY <2>2, ContextOf(s) DEF ContextOf, NoSourceBut, Alike
      <3>2. md'[s].ctxSrc = None
        BY <3>1 DEF Alike, NoSource
      <3>3. QED
        BY <2>3, <3>1, <3>2 DEF ContextOf, Alike, NoSource
    <2>5. ASSUME NEW m \in Sessions \ {s}
          PROVE  ContextOf(m)'
      BY <2>2, ContextKept DEF NoSourceBut, Alike, SessionBut
    <2>6. QED
      BY <2>4, <2>5
  <1>21. ASSUME NEW s \in Sessions, PlayOpened(s) PROVE \A m \in Sessions : ContextOf(m)'
    <2>1. ASSUME NEW m \in Sessions
          PROVE  ContextOf(m)'
      BY <1>21, PlayOpenedEffect, ContextKept
         DEF SessionBut, SourceBut, NoSourceBut, Alike, media
    <2>2. QED
      BY <2>1
  <1>22. ASSUME NEW s \in Sessions, Join(s) PROVE \A m \in Sessions : ContextOf(m)'
    <2>1. ASSUME NEW m \in Sessions
          PROVE  ContextOf(m)'
      BY <1>22, JoinEffect, ContextKept
         DEF SessionBut, SourceBut, NoSourceBut, Alike, media
    <2>2. QED
      BY <2>1
  <1>23. ASSUME NEW s \in Sessions, JoinAdd(s) PROVE \A m \in Sessions : ContextOf(m)'
    <2>1. th[s].src # None
      BY <1>23, SourceKnown DEF JoinAdd
    <2>2. th[s].src \in Sessions /\ Made(th[s].src)
      BY <2>1, SourceOf(s) DEF SourceOf, Types, HandlersOK, Handling
    <2>3. ASSUME NEW m \in Sessions
          PROVE  ContextOf(m)'
      BY <1>23, <2>1, <2>2, JoinAddEffect, ContextKept DEF SessionBut, SourceBut, Alike, media
    <2>4. QED
      BY <2>3
  <1>24. ASSUME NEW s \in Sessions, ReallyClose(s) PROVE \A m \in Sessions : ContextOf(m)'
    <2>1. ASSUME NEW m \in Sessions
          PROVE  ContextOf(m)'
      BY <1>24, ReallyCloseEffect, ContextKept
         DEF SessionBut, SourceBut, NoSourceBut, Alike, media
    <2>2. QED
      BY <2>1
  <1>25. ASSUME NEW s \in Sessions, ClearSrcCtx(s) PROVE \A m \in Sessions : ContextOf(m)'
    <2>1. th[s].target # None
      BY <1>25, TargetKnown DEF ClearSrcCtx
    <2>2. th[s].target = s /\ ss[s].onClose /\ Made(s)
      <3>1. th[s].op = "end" /\ th[s].pc = "clear"
        BY <1>25, <2>1, ClearSrcCtxEffect, HandlerOf(s) DEF HandlerOf
      <3>2. ss[s].srcCtx /\ ss[s].onClose /\ th[s].target = ss[s].mdsrc
        BY <3>1, HandlerOf(s), StageOf(s) DEF HandlerOf, StageOf
      <3>3. th[s].target = s
        BY <2>1, <3>2, PlayerOf(s) DEF PlayerOf
      <3>4. QED
        BY <3>1, <3>2, <3>3 DEF Made
    <2>3. /\ ss' = ss /\ frames' = frames /\ SourceBut(s, {"ctxSrc"})
          /\ md'[s].ctxSrc = IF md[s].ctxSrc = s THEN None ELSE md[s].ctxSrc
      BY <1>25, <2>1, <2>2, ClearSrcCtxEffect DEF media
    <2>4. ContextOf(s)'
      <3>1. Made(s)'
        BY <2>2
      <3>2. md'[s].ctxSrc = None
        BY <2>3, ContextOf(s) DEF ContextOf
      <3>3. QED
        BY <2>2, <2>3, <3>1, <3>2 DEF ContextOf
    <2>5. ASSUME NEW m \in Sessions \ {s}
          PROVE  ContextOf(m)'
      BY <2>3, ContextKept DEF SourceBut, Alike
    <2>6. QED
      BY <2>4, <2>5
  <1>26. ASSUME NEW s \in Sessions, RemoveMdSource(s) PROVE \A m \in Sessions : ContextOf(m)'
    <2>1. ASSUME NEW m \in Sessions
          PROVE  ContextOf(m)'
      BY <1>26, RemoveMdSourceEffect, ContextKept
         DEF SessionBut, SourceBut, NoSourceBut, Alike, media
    <2>2. QED
      BY <2>1
  <1>27. ASSUME NEW s \in Sessions, RemoveClientSession(s)
         PROVE  \A m \in Sessions : ContextOf(m)'
    <2>1. th[s].target # None
      BY <1>27, TargetKnown DEF RemoveClientSession
    <2>2. th[s].target \in Sessions /\ Made(th[s].target)
      BY <2>1, TargetMade
    <2>3. ASSUME NEW m \in Sessions
          PROVE  ContextOf(m)'
      BY <1>27, <2>1, <2>2, RemoveClientSessionEffect, ContextKept
         DEF SessionBut, SourceBut, NoSourceBut, Alike, media
    <2>4. QED
      BY <2>3
  <1>28. ASSUME NEW s \in Sessions, Destroy(s) PROVE \A m \in Sessions : ContextOf(m)'
    <2>1. ~ss[s].inMd
      BY <1>28, NotListed DEF Destroy
    <2>2. /\ SessionBut(s, {"alive", "mdsrc"}) /\ ss'[s].mdsrc = None /\ ss[s].onClose
          /\ frames' = frames
      BY <1>28, <2>1, DestroyEffect DEF media
    <2>3. \A m \in Sessions : m # s \/ ss[s].mdsrc # s => md'[m].ctxSrc = md[m].ctxSrc
      <3>1. CASE ss[s].mdsrc = None
        BY <1>28, <2>1, <3>1, DestroyEffect DEF SourceBut, NoSourceBut, Alike
      <3>2. CASE ss[s].mdsrc # None
        <4>1. PICK x \in Sessions : x = ss[s].mdsrc
          BY <3>2, SourceOf(s) DEF Types, SessionFields
        <4>2. /\ SourceBut(x, {"ctxSrc"})
              /\ md'[x].ctxSrc = IF md[x].ctxSrc = s THEN None ELSE md[x].ctxSrc
          BY <1>28, <2>1, <3>2, <4>1, DestroyEffect
        <4>3. x # s => md'[x].ctxSrc = md[x].ctxSrc
          BY <4>2, ContextOf(x) DEF ContextOf, ConstantsAssumption
        <4>4. QED
          BY <4>1, <4>2, <4>3 DEF SourceBut, Alike
      <3>3. QED
        BY <3>1, <3>2
    <2>4. \A m \in Sessions : Made(m) \/ Alike(md'[m], md[m])
      <3>1. CASE ss[s].mdsrc = None
        BY <1>28, <2>1, <3>1, DestroyEffect DEF NoSourceBut
      <3>2. CASE ss[s].mdsrc # None
        <4>1. SourceBut(ss[s].mdsrc, {"ctxSrc"}) /\ Made(ss[s].mdsrc)
          BY <1>28, <2>1, <3>2, DestroyEffect, SourceOf(s) DEF SourceOf
        <4>2. QED
          BY <4>1 DEF SourceBut
      <3>3. QED
        BY <3>1, <3>2
    <2>5. ContextOf(s)'
      <3>1. md'[s].ctxSrc = None
        <4>1. CASE ss[s].mdsrc = s
          <5>1. md'[s].ctxSrc = IF md[s].ctxSrc = s THEN None ELSE md[s].ctxSrc
            BY <1>28, <2>1, <4>1, DestroyEffect DEF ConstantsAssumption
          <5>2. QED
            BY <5>1, ContextOf(s) DEF ContextOf
        <4>2. CASE ss[s].mdsrc # s
          BY <2>3, <4>2, ContextOf(s) DEF ContextOf
        <4>3. QED
          BY <4>1, <4>2
      <3>2. ~Made(s)' => Alike(md[s], NoSource)' /\ frames'[s] = <<>>
        BY <2>2, <2>4, ContextOf(s) DEF ContextOf, Alike
      <3>3. ss'[s].mdsrc # s
        BY <2>2 DEF ConstantsAssumption
      <3>4. QED
        BY <3>1, <3>2, <3>3 DEF ContextOf
    <2>6. ASSUME NEW m \in Sessions \ {s}
          PROVE  ContextOf(m)'
      BY <2>2, <2>3, <2>4, ContextKept DEF SessionBut
    <2>7. QED
      BY <2>5, <2>6
  <1>29. ASSUME NEW s \in Sessions, Forward(s) PROVE \A m \in Sessions : ContextOf(m)'
    <2>1. \A m \in Sessions \ {s} : frames'[m] = frames[m]
      BY <1>29, ForwardEffect DEF Types, MediaOK
    <2>2. Made(s)
      <3>1. frames[s] # <<>>
        BY <1>29, ForwardEffect DEF Inv, HearingInv, PassedOf
      <3>2. QED
        BY <3>1, ContextOf(s) DEF ContextOf
    <2>3. QED
      BY <1>29, <2>1, <2>2, ForwardEffect, ContextKept DEF NoSourceBut, Alike
  <1>30. ASSUME NEW s \in Sessions, Deliver(s) PROVE \A m \in Sessions : ContextOf(m)'
    <2>1. \A m \in Sessions \ {s} : frames'[m] = frames[m]
      BY <1>30, DeliverEffect DEF Types, MediaOK
    <2>2. Made(s)
      <3>1. frames[s] # <<>>
        BY <1>30, DeliverEffect DEF Inv, HearingInv, PassedOf
      <3>2. QED
        BY <3>1, ContextOf(s) DEF ContextOf
    <2>3. QED
      BY <1>30, <2>1, <2>2, DeliverEffect, ContextKept DEF NoSourceBut, Alike
  <1>31. CASE UNCHANGED vars
    BY <1>31, ContextKept DEF vars, media, Alike
  <1>32. QED
    BY <1>1, <1>2, <1>3, <1>4, <1>5, <1>6, <1>7, <1>8, <1>9, <1>10, <1>11,
       <1>12, <1>13, <1>14, <1>15, <1>16, <1>17, <1>18, <1>19, <1>20, <1>21,
       <1>22, <1>23, <1>24, <1>25, <1>26, <1>27, <1>28, <1>29, <1>30, <1>31
       DEF Next, Handlers

LEMMA SourceInvStep == Types /\ Inv /\ [Next]_vars => SourceInv'
  BY SourcesStep, ContextsStep DEF SourceInv

-----------------------------------------------------------------------------
(* The registry.                                                             *)

\* What no step but RemoveMdSource undoes in a session that has a name, or is
\* about to get it.
FieldsKept(s) ==
    /\ \/ ss'[s].attached = ss[s].attached
       \/ th[s].pc = "attach" /\ ss'[s].attached /\ th'[s].pc = "idle" /\ ~ss'[s].onClose
    /\ ss[s].valid => ss'[s].valid
    /\ ss[s].closing => ss'[s].closing
    /\ ss[s].onClose => ss'[s].onClose
    /\ Entered(s) \/ th[s].op = "replace" =>
         /\ ss'[s].stream = ss[s].stream
         /\ ss'[s].srcCtx = ss[s].srcCtx
         /\ ss'[s].mdsrc = ss[s].mdsrc

\* A thread that neither takes nor gives back the registry's lock.
ThreadKept(s) ==
    /\ th'[s].pc = "add" => th[s].pc = "add" \/ ~Made(s)
    /\ th'[s].pc = "attach" => th[s].pc = "attach"
    /\ th[s].pc = "attach" => th'[s].pc = "attach" \/ ss'[s].attached
    /\ th[s].op \in {"kick", "replace"} \/ th'[s].op \in {"kick", "replace"} =>
         th'[s].op = th[s].op /\ th'[s].target = th[s].target
    /\ ss[s].attached /\ ss'[s].onClose => th'[s].pc \in {"clear", "unregister"}

LEMMA ClaimKept ==
  ASSUME Inv, NEW s \in Sessions, FieldsKept(s),
         th'[s].pc = "add" => th[s].pc = "add" \/ ~Made(s),
         th'[s].pc = "attach" => ~ss[s].attached,
         th'[s].op = "replace" => th[s].op = "replace" \/ th[s].pc = "add",
         ss[s].attached /\ ss'[s].onClose => th'[s].pc \in {"clear", "unregister"},
         th'[s].pc = "add" \/ th'[s].op = "replace" => md'[s].closedAll = md[s].closedAll
  PROVE  ClaimOf(s)'
  <1>1. HandlerOf(s) /\ StageOf(s) /\ ClaimOf(s) /\ ContextOf(s)
    BY DEF Inv, HandlerInv, StageInv, RegistryInv, SourceInv
  <1>2. Entered(s) => Made(s)
    BY EnteredMade
  <1>3. ss'[s].attached => Entered(s)
    BY DEF FieldsKept, Entered
  <1>4. ss'[s].attached => ss'[s].srcCtx /\ ss'[s].valid /\ ss'[s].mdsrc = s
    BY <1>1, <1>3 DEF FieldsKept, Entered, StageOf, ClaimOf
  <1>5. ss'[s].attached => th'[s].pc \notin {"add", "attach"} /\ th'[s].op # "replace"
    BY <1>1, <1>2, <1>3 DEF FieldsKept, Entered, HandlerOf, ClaimOf
  <1>6. ss'[s].attached /\ ss'[s].onClose => th'[s].pc \in {"clear", "unregister"}
    BY DEF FieldsKept
  <1>7. th'[s].pc = "add" \/ th'[s].op = "replace" => ~md'[s].closedAll
    BY <1>1 DEF ClaimOf, ContextOf, Alike, NoSource
  <1>8. QED
    BY <1>4, <1>5, <1>6, <1>7 DEF ClaimOf

LEMMA HolderKept ==
  ASSUME NEW t \in Sessions, ThreadKept(t), NEW m
  PROVE  Holding(t, m)' <=> Holding(t, m)
  BY DEF ThreadKept, Holding

LEMMA EnteredKept ==
  ASSUME NEW s \in Sessions, FieldsKept(s), ThreadKept(s)
  PROVE  Entered(s)' <=> Entered(s)
  BY DEF ThreadKept, FieldsKept, Entered

LEMMA OthersKept ==
  ASSUME Inv, NEW t \in Sessions, ss'[t] = ss[t], th'[t] = th[t]
  PROVE  FieldsKept(t) /\ ThreadKept(t)
  BY DEF Inv, RegistryInv, ClaimOf, FieldsKept, ThreadKept

LEMMA RegistryKept ==
  ASSUME Types, Inv, \A m \in Sessions : Made(m) => Made(m)', streams' = streams,
         \A s \in Sessions : FieldsKept(s) /\ ThreadKept(s),
         \A m \in Sessions : th'[m].pc = "add" \/ th'[m].op = "replace" =>
            md'[m].closedAll = md[m].closedAll,
         \A m \in Sessions : md'[m].replaced = md[m].replaced,
         \A t, m \in Sessions :
            /\ Holding(t, m) /\ th'[t].pc \in {"closeAll", "drain", "closed"}
            => th[t].pc \in {"closeAll", "drain", "closed"} \/ ss'[m].closing \/ ss'[m].onClose
  PROVE  RegistryInv'
  <1>1. ASSUME NEW s \in Sessions PROVE ClaimOf(s)'
    <2>1. FieldsKept(s) /\ ThreadKept(s) /\ ClaimOf(s)
      BY DEF Inv, RegistryInv
    <2>2. QED
      BY <2>1, ClaimKept DEF ThreadKept, ClaimOf
  <1>2. ASSUME NEW s \in Sessions PROVE EntryOf(s)'
    <2>1. FieldsKept(s) /\ ThreadKept(s) /\ EntryOf(s) /\ (Entered(s)' <=> Entered(s))
      BY EnteredKept DEF Inv, RegistryInv
    <2>2. th'[s].op = "replace" => streams'[ss'[s].stream] = th'[s].target
      BY <2>1 DEF EntryOf, FieldsKept, ThreadKept
    <2>3. ASSUME Entered(s), streams'[ss'[s].stream] # s
          PROVE  ss'[s].closing \/ ss'[s].onClose \/ \E t \in Sessions : Holding(t, s)'
      <3>1. ss[s].closing \/ ss[s].onClose \/ \E t \in Sessions : Holding(t, s)
        BY <2>1, <2>3 DEF EntryOf, FieldsKept
      <3>2. QED
        BY <2>1, <3>1, HolderKept DEF FieldsKept
    <2>4. QED
      BY <2>1, <2>2, <2>3 DEF EntryOf
  <1>3. ASSUME NEW m \in Sessions PROVE ReplacedOf(m)'
    <2>1. ThreadKept(m) /\ ReplacedOf(m)
      BY DEF Inv, RegistryInv
    <2>2. QED
      BY <2>1 DEF ThreadKept, ReplacedOf
  <1>4. ASSUME NEW t \in Sessions, NEW m \in Sessions PROVE HeldBy(t, m)'
    <2>1. FieldsKept(m) /\ HeldBy(t, m) /\ (Entered(m)' <=> Entered(m))
      BY EnteredKept DEF Inv, RegistryInv
    <2>2. Holding(t, m)' <=> Holding(t, m)
      BY HolderKept
    <2>3. QED
      BY <2>1, <2>2 DEF HeldBy, FieldsKept
  <1>5. ASSUME NEW n \in Keys PROVE NameOf(n)'
    <2>1. NameOf(n)
      BY DEF Inv, RegistryInv
    <2>2. CASE streams[n] # None
      <3>1. PICK x \in Sessions : x = streams[n]
        BY <2>2 DEF Types, RegistryOK
      <3>2. Entered(x)' /\ Entered(x) /\ FieldsKept(x) /\ ss[x].stream = n
        BY <2>1, <2>2, <3>1, EnteredKept DEF NameOf
      <3>3. ss'[x].stream = n
        BY <3>2 DEF FieldsKept
      <3>4. QED
        BY <3>1, <3>2, <3>3 DEF NameOf, Entered
    <2>3. QED
      BY <2>2 DEF NameOf
  <1>6. QED
    BY <1>1, <1>2, <1>3, <1>4, <1>5 DEF RegistryInv

LEMMA NoHolders ==
  ASSUME Inv, lock = None, NEW t \in Sessions
  PROVE  th[t].op \notin {"kick", "replace"} /\ \A m : ~Holding(t, m)
  BY DEF Inv, HandlerInv, HandlerOf, Holding, ConstantsAssumption

\* The source that a thread closes with the registry's lock is another's, and its
\* session has it or will not use it any more.
LEMMA HeldContext ==
  ASSUME Types, Inv, NEW t \in Sessions, NEW m \in Sessions, Holding(t, m)
  PROVE  /\ Entered(m) /\ m # t
         /\ md[m].ctxSrc \in {None, m}
         /\ md[m].ctxSrc = None => ss[m].onClose
  <1>1. Entered(m) /\ HandlerOf(t) /\ StageOf(t) /\ ClaimOf(t) /\ ContextOf(m) /\ ClaimOf(m)
        /\ StageOf(m)
    BY DEF Inv, RegistryInv, HeldBy, HandlerInv, StageInv, SourceInv
  <1>2. ss[m].mdsrc = m
    BY <1>1 DEF Entered, ClaimOf, StageOf
  <1>3. md[m].ctxSrc \in {None, m} /\ (md[m].ctxSrc = None => ss[m].onClose)
    BY <1>1, <1>2 DEF ContextOf
  <1>4. m # t
    BY <1>1, <1>2 DEF Holding, Entered, ClaimOf, HandlerOf, StageOf, ConstantsAssumption
  <1>5. QED
    BY <1>1, <1>3, <1>4

LEMMA RegistrySame ==
  ASSUME Types, Inv, \A m \in Sessions : Made(m) => Made(m)', UNCHANGED <<ss, th, streams>>,
         NoSourceBut
  PROVE  RegistryInv'
  <1>1. \A s \in Sessions : FieldsKept(s) /\ ThreadKept(s)
    BY OthersKept
  <1>2. \A m \in Sessions : /\ md'[m].closedAll = md[m].closedAll
                            /\ md'[m].replaced = md[m].replaced
    BY DEF NoSourceBut, Alike
  <1>3. QED
    BY <1>1, <1>2, RegistryKept

LEMMA RegistryInvStep == Types /\ Inv /\ [Next]_vars => RegistryInv'
  <1> SUFFICES ASSUME Types, Inv, [Next]_vars,
                      \A s \in Sessions : HandlerOf(s) /\ StageOf(s) /\ ClaimOf(s),
                      \A m \in Sessions : Made(m) => Made(m)'
               PROVE  RegistryInv'
    BY MadeStays DEF Inv, StageInv, HandlerInv, RegistryInv
  <1>1. ASSUME NEW s \in Sessions, NEW n \in Names \cup {None}, InvokePublish(s, n)
        PROVE  RegistryInv'
    <2>1. Post(s, "publish", n) /\ UNCHANGED <<ss, th, streams>>
      BY <1>1 DEF InvokePublish
    <2>2. QED
      BY <2>1, PostEffect, RegistrySame
  <1>2. ASSUME NEW s \in Sessions, NEW n \in Names \cup {None}, InvokePlay(s, n)
        PROVE  RegistryInv'
    <2>1. Post(s, "play", n) /\ UNCHANGED <<ss, th, streams>>
      BY <1>2 DEF InvokePlay
    <2>2. QED
      BY <2>1, PostEffect, RegistrySame
  <1>3. ASSUME NEW s \in Sessions, OnMedia(s) PROVE RegistryInv'
    BY <1>3, OnMediaEffect, RegistrySame
  <1>4. ASSUME NEW s \in Sessions, ReleaseStream(s) PROVE RegistryInv'
    BY <1>4, RegistrySame DEF ReleaseStream, NoSourceBut, Alike, Types
  <1>5. ASSUME NEW s \in Sessions, WriteCompleted(s) PROVE RegistryInv'
    BY <1>5, RegistrySame DEF WriteCompleted, NoSourceBut, Alike, Types
  <1>6. ASSUME NEW s \in Sessions, OnClose(s) PROVE RegistryInv'
    <2>1. Post(s, "close", None) /\ UNCHANGED <<ss, th, streams>>
      BY <1>6 DEF OnClose
    <2>2. QED
      BY <2>1, PostEffect, RegistrySame
  <1>7. ASSUME NEW s \in Sessions, Publish(s) PROVE RegistryInv'
    <2>1. ~ss[s].srcCtx /\ th[s].pc = "idle" /\ th[s].op = None
      <3>1. /\ Head(inbox[s]) = inbox[s][1] /\ inbox[s][1].kind = "publish"
            /\ 1 \in 1..Len(inbox[s]) /\ th[s].pc = "idle"
        BY <1>7, PublishEffect, TakenEffect DEF Types, NetOK
      <3>2. QED
        BY <3>1, HandlerOf(s) DEF Inv, LifeInv, LifeOf, HandlerOf
    <2>2. ~ss[s].attached
      BY <2>1, ClaimOf(s) DEF ClaimOf
    <2>3. FieldsKept(s)
      <3>1. /\ ss'[s].attached = ss[s].attached /\ (ss[s].valid => ss'[s].valid)
            /\ ss'[s].closing = ss[s].closing /\ ss'[s].onClose = ss[s].onClose
        BY <1>7, PublishEffect DEF SessionBut
      <3>2. QED
        BY <2>1, <2>2, <3>1 DEF FieldsKept, Entered
    <2>4. ThreadKept(s)
      <3>1. th'[s].pc \in {"idle", "kick", "exist"} /\ th'[s].op = None
        BY <1>7, <2>1, PublishEffect DEF ThreadAt
      <3>2. QED
        BY <2>1, <2>2, <3>1 DEF ThreadKept, ConstantsAssumption
    <2>5. ASSUME NEW t \in Sessions \ {s}
          PROVE  FieldsKept(t) /\ ThreadKept(t) /\ th'[t] = th[t]
      BY <1>7, PublishEffect, OthersKept DEF SessionBut, ThreadAt
    <2>6. \A m \in Sessions : /\ md'[m].closedAll = md[m].closedAll
                              /\ md'[m].replaced = md[m].replaced
      BY <1>7, PublishEffect DEF NoSourceBut, Alike
    <2>7. streams' = streams
      BY <1>7, PublishEffect
    <2>8. ASSUME NEW t \in Sessions, NEW m, Holding(t, m)
          PROVE  th'[t] = th[t]
      BY <2>1, <2>5, <2>8 DEF Holding, ConstantsAssumption
    <2>9. QED
      BY <2>3, <2>4, <2>5, <2>6, <2>7, <2>8, RegistryKept
  <1>8. ASSUME NEW s \in Sessions, IsExist(s) PROVE RegistryInv'
    <2>1. ss[s].stream # None
      BY <1>8, StreamKnown DEF IsExist
    <2>2. FieldsKept(s)
      BY <1>8, <2>1, IsExistEffect, HandlerOf(s), StageOf(s), ClaimOf(s)
         DEF FieldsKept, ThreadKept, Entered, Made, HandlerOf, StageOf, ClaimOf, SessionBut,
             ThreadTo, ThreadDone, ThreadAt
    <2>3. ThreadKept(s)
      BY <1>8, <2>1, IsExistEffect, HandlerOf(s), StageOf(s), ClaimOf(s)
         DEF FieldsKept, ThreadKept, Entered, Made, HandlerOf, StageOf, ClaimOf, SessionBut,
             ThreadTo, ThreadDone, ThreadAt
    <2>4. ASSUME NEW t \in Sessions \ {s}
          PROVE  FieldsKept(t) /\ ThreadKept(t)
      BY <1>8, <2>1, IsExistEffect, OthersKept
         DEF SessionBut, ThreadTo, ThreadDone, ThreadAt
    <2>5. \A m \in Sessions : /\ md'[m].closedAll = md[m].closedAll
                              /\ md'[m].replaced = md[m].replaced
      BY <1>8, <2>1, IsExistEffect DEF NoSourceBut, SourceBut, Alike
    <2>6. ASSUME NEW t \in Sessions, th[t].op \in {"kick", "replace"},
                 th'[t].pc \in {"closeAll", "drain", "closed"}
          PROVE  th[t].pc \in {"closeAll", "drain", "closed"}
      BY <1>8, <2>1, <2>6, IsExistEffect, HandlerOf(s)
         DEF HandlerOf, ThreadTo, ThreadDone, ThreadAt
    <2>7. streams' = streams
      BY <1>8, <2>1, IsExistEffect
    <2>8. QED
      BY <2>2, <2>3, <2>4, <2>5, <2>6, <2>7, RegistryKept DEF Holding
  <1>9. ASSUME NEW s \in Sessions, Kick(s) PROVE RegistryInv'
    <2>1. ss[s].stream # None /\ ss[s].stream \in Keys
      BY <1>9, StreamKnown DEF Kick, Types, SessionFields
    <2>2. /\ th[s].pc = "kick" /\ th[s].op = None /\ lock = None /\ ss' = ss /\ md' = md
          /\ ~ss[s].attached
      BY <1>9, <2>1, KickEffect, HandlerOf(s), StageOf(s), ClaimOf(s)
         DEF HandlerOf, StageOf, ClaimOf, ConstantsAssumption
    <2>3. \A t \in Sessions : th[t].op \notin {"kick", "replace"} /\ \A m : ~Holding(t, m)
      BY <2>2, NoHolders
    <2>4. \A t \in Sessions : FieldsKept(t)
      BY <2>2 DEF FieldsKept
    <2>5. \A t \in Sessions \ {s} : th'[t] = th[t] /\ ThreadKept(t)
      BY <1>9, <2>1, <2>2, KickEffect, OthersKept DEF ThreadTo, ThreadAt
    <2>6. CASE streams[ss[s].stream] = None
      <3>1. ThreadTo(s, "create") /\ streams' = streams
        BY <1>9, <2>1, <2>6, KickEffect
      <3>2. ThreadKept(s)
        BY <2>2, <3>1 DEF ThreadKept, ThreadTo, ThreadAt
      <3>3. QED
        BY <2>2, <2>3, <2>4, <2>5, <3>1, <3>2, RegistryKept
    <2>7. CASE streams[ss[s].stream] # None
      <3>1. PICK x \in Sessions : x = streams[ss[s].stream]
        BY <2>1, <2>7 DEF Types, RegistryOK
      <3>2. /\ ThreadAt(s, "kickTest", "kick", th[s].src, x)
            /\ \A n \in Keys : streams'[n] = IF n = ss[s].stream THEN None ELSE streams[n]
        BY <1>9, <2>1, <2>7, <3>1, KickEffect DEF Types, RegistryOK
      <3>3. Entered(x) /\ ss[x].stream = ss[s].stream
        BY <2>1, <2>7, <3>1 DEF Inv, RegistryInv, NameOf
      <3>4. \A t \in Sessions : Entered(t)' <=> Entered(t)
        BY <2>2, <2>5, <3>2 DEF Entered, ThreadAt
      <3>5. \A t, m \in Sessions : Holding(t, m)' <=> t = s /\ m = x
        BY <2>3, <2>5, <3>2 DEF Holding, ThreadAt
      <3>6. ASSUME NEW t \in Sessions PROVE ClaimOf(t)'
        <4>1. CASE t = s
          BY <2>2, <2>4, <3>2, <4>1, ClaimKept DEF ThreadAt
        <4>2. CASE t # s
          BY <2>2, <2>4, <2>5, <4>2, ClaimKept, ClaimOf(t) DEF ThreadKept, ClaimOf
        <4>3. QED
          BY <4>1, <4>2
      <3>7. ASSUME NEW t \in Sessions PROVE EntryOf(t)'
        <4>1. th'[t].op # "replace"
          BY <2>3, <2>5, <3>2 DEF ThreadAt
        <4>2. ASSUME Entered(t), streams'[ss[t].stream] # t, t # x
              PROVE  ss[t].closing \/ ss[t].onClose
          <5>1. ss[t].stream \in Keys
            BY <4>2 DEF Types, SessionFields, Inv, StageInv, StageOf, RegistryInv, ClaimOf,
                        Entered
          <5>2. streams[ss[t].stream] # t
            BY <3>1, <3>2, <4>2, <5>1
          <5>3. EntryOf(t)
            BY DEF Inv, RegistryInv
          <5>4. QED
            BY <2>3, <4>2, <5>2, <5>3 DEF EntryOf
        <4>3. t = x => Holding(s, t)'
          BY <3>5
        <4>4. QED
          BY <2>2, <3>4, <4>1, <4>2, <4>3 DEF EntryOf
      <3>8. ASSUME NEW m \in Sessions PROVE ReplacedOf(m)'
        <4>1. ReplacedOf(m)
          BY DEF Inv, RegistryInv
        <4>2. th'[m].op # "replace" /\ (th'[m].pc = "add" => th[m].pc = "add")
          BY <2>3, <2>5, <3>2 DEF ThreadAt
        <4>3. \A n \in Keys : streams[n] # m => streams'[n] # m
          BY <3>2 DEF ConstantsAssumption
        <4>4. QED
          BY <2>2, <4>1, <4>2, <4>3 DEF ReplacedOf
      <3>9. ASSUME NEW t \in Sessions, NEW m \in Sessions PROVE HeldBy(t, m)'
        BY <3>2, <3>3, <3>4, <3>5 DEF HeldBy, ThreadAt
      <3>10. ASSUME NEW n \in Keys, streams'[n] # None PROVE NameOf(n)'
        <4>1. streams'[n] = streams[n] /\ streams[n] \in Sessions /\ NameOf(n)
          BY <3>2, <3>10 DEF Types, RegistryOK, Inv, RegistryInv
        <4>2. PICK y \in Sessions : y = streams[n] /\ Entered(y) /\ ss[y].stream = n
          BY <3>10, <4>1 DEF NameOf
        <4>3. Entered(y)'
          BY <3>4, <4>2
        <4>4. QED
          BY <2>2, <4>1, <4>2, <4>3 DEF NameOf, Entered
      <3>11. QED
        BY <3>6, <3>7, <3>8, <3>9, <3>10 DEF RegistryInv, NameOf
    <2>8. QED
      BY <2>6, <2>7
  <1>10. ASSUME NEW s \in Sessions, KickTest(s) PROVE RegistryInv'
    <2>1. FieldsKept(s)
      BY <1>10, KickTestEffect, HandlerOf(s), StageOf(s), ClaimOf(s)
         DEF FieldsKept, ThreadKept, Entered, Made, HandlerOf, StageOf, ClaimOf, SessionBut,
             ThreadTo, ThreadDone, ThreadAt
    <2>2. ThreadKept(s)
      BY <1>10, KickTestEffect, HandlerOf(s), StageOf(s), ClaimOf(s)
         DEF FieldsKept, ThreadKept, Entered, Made, HandlerOf, StageOf, ClaimOf, SessionBut,
             ThreadTo, ThreadDone, ThreadAt
    <2>3. ASSUME NEW t \in Sessions \ {s}
          PROVE  FieldsKept(t) /\ ThreadKept(t)
      BY <1>10, KickTestEffect, OthersKept
         DEF SessionBut, ThreadTo, ThreadDone, ThreadAt
    <2>4. \A m \in Sessions : /\ md'[m].closedAll = md[m].closedAll
                              /\ md'[m].replaced = md[m].replaced
      BY <1>10, KickTestEffect DEF NoSourceBut, SourceBut, Alike
    <2>5. ASSUME NEW t \in Sessions, NEW m \in Sessions, Holding(t, m),
                 th'[t].pc \in {"closeAll", "drain", "closed"},
                 th[t].pc \notin {"closeAll", "drain", "closed"}
          PROVE  ss'[m].onClose
      <3>1. t = s /\ th[s].target = m /\ md[m].ctxSrc = None /\ ss' = ss
        BY <1>10, <2>5, KickTestEffect DEF Holding, ThreadTo, ThreadAt
      <3>2. QED
        BY <2>5, <3>1, HeldContext
    <2>6. streams' = streams
      BY <1>10, KickTestEffect
    <2>7. QED
      BY <2>1, <2>2, <2>3, <2>4, <2>5, <2>6, RegistryKept DEF Holding
  <1>11. ASSUME NEW s \in Sessions, KickForce(s) PROVE RegistryInv'
    <2>1. FieldsKept(s)
      BY <1>11, KickForceEffect, HandlerOf(s), StageOf(s), ClaimOf(s)
         DEF FieldsKept, ThreadKept, Entered, Made, HandlerOf, StageOf, ClaimOf, SessionBut,
             ThreadTo, ThreadDone, ThreadAt
    <2>2. ThreadKept(s)
      BY <1>11, KickForceEffect, HandlerOf(s), StageOf(s), ClaimOf(s)
         DEF FieldsKept, ThreadKept, Entered, Made, HandlerOf, StageOf, ClaimOf, SessionBut,
             ThreadTo, ThreadDone, ThreadAt
    <2>3. ASSUME NEW t \in Sessions \ {s}
          PROVE  FieldsKept(t) /\ ThreadKept(t)
      BY <1>11, KickForceEffect, OthersKept
         DEF SessionBut, ThreadTo, ThreadDone, ThreadAt
    <2>4. \A m \in Sessions : /\ md'[m].closedAll = md[m].closedAll
                              /\ md'[m].replaced = md[m].replaced
      BY <1>11, KickForceEffect DEF NoSourceBut, SourceBut, Alike
    <2>5. ASSUME NEW t \in Sessions, th[t].op \in {"kick", "replace"},
                 th'[t].pc \in {"closeAll", "drain", "closed"}
          PROVE  th[t].pc \in {"closeAll", "drain", "closed"}
      BY <1>11, <2>5, KickForceEffect, HandlerOf(s)
         DEF HandlerOf, ThreadTo, ThreadDone, ThreadAt
    <2>6. streams' = streams
      BY <1>11, KickForceEffect
    <2>7. QED
      BY <2>1, <2>2, <2>3, <2>4, <2>5, <2>6, RegistryKept DEF Holding
  <1>12. ASSUME NEW s \in Sessions, Create(s) PROVE RegistryInv'
    <2>1. FieldsKept(s)
      BY <1>12, CreateEffect, HandlerOf(s), StageOf(s), ClaimOf(s)
         DEF FieldsKept, ThreadKept, Entered, Made, HandlerOf, StageOf, ClaimOf, SessionBut,
             ThreadTo, ThreadDone, ThreadAt
    <2>2. ThreadKept(s)
      BY <1>12, CreateEffect, HandlerOf(s), StageOf(s), ClaimOf(s)
         DEF FieldsKept, ThreadKept, Entered, Made, HandlerOf, StageOf, ClaimOf, SessionBut,
             ThreadTo, ThreadDone, ThreadAt
    <2>3. ASSUME NEW t \in Sessions \ {s}
          PROVE  FieldsKept(t) /\ ThreadKept(t)
      BY <1>12, CreateEffect, OthersKept
         DEF SessionBut, ThreadTo, ThreadDone, ThreadAt
    <2>4. \A m \in Sessions : /\ md'[m].closedAll = md[m].closedAll
                              /\ md'[m].replaced = md[m].replaced
      BY <1>12, CreateEffect DEF NoSourceBut, SourceBut, Alike
    <2>5. ASSUME NEW t \in Sessions, th[t].op \in {"kick", "replace"},
                 th'[t].pc \in {"closeAll", "drain", "closed"}
          PROVE  th[t].pc \in {"closeAll", "drain", "closed"}
      BY <1>12, <2>5, CreateEffect, HandlerOf(s)
         DEF HandlerOf, ThreadTo, ThreadDone, ThreadAt
    <2>6. streams' = streams
      BY <1>12, CreateEffect
    <2>7. QED
      BY <2>1, <2>2, <2>3, <2>4, <2>5, <2>6, RegistryKept DEF Holding
  <1>13. ASSUME NEW s \in Sessions, Add(s) PROVE RegistryInv'
    <2>1. ss[s].stream # None /\ ss[s].stream \in Keys
      BY <1>13, StreamKnown DEF Add, Types, SessionFields
    <2>2. /\ th[s].pc = "add" /\ th[s].op = None /\ lock = None /\ ss' = ss
          /\ ~ss[s].attached /\ ~md[s].closedAll /\ ~Entered(s)
      BY <1>13, <2>1, AddEffect, HandlerOf(s), ClaimOf(s) DEF HandlerOf, ClaimOf, Entered
    <2>3. \A t \in Sessions : th[t].op \notin {"kick", "replace"} /\ \A m : ~Holding(t, m)
      BY <2>2, NoHolders
    <2>4. \A t \in Sessions : FieldsKept(t)
      BY <2>2 DEF FieldsKept
    <2>5. \A t \in Sessions \ {s} : th'[t] = th[t] /\ ThreadKept(t)
      BY <1>13, <2>1, <2>2, AddEffect, OthersKept DEF ThreadTo, ThreadAt
    <2>6. /\ \A m \in Sessions : /\ md'[m].closedAll = md[m].closedAll
                                 /\ md'[m].replaced = md[m].replaced
          /\ ~md[s].replaced
      <3>1. NoSourceBut /\ ReplacedOf(s)
        BY <1>13, <2>1, AddEffect DEF Inv, RegistryInv
      <3>2. QED
        BY <2>2, <3>1 DEF NoSourceBut, Alike, ReplacedOf
    <2>7. ASSUME NEW t \in Sessions PROVE ClaimOf(t)'
      <3>1. CASE t = s
        <4>1. th'[s].pc \in {"attach", "closeSrc"}
          BY <1>13, <2>1, AddEffect DEF ThreadTo, ThreadAt
        <4>2. QED
          BY <2>2, <2>4, <2>6, <3>1, <4>1, ClaimKept
      <3>2. CASE t # s
        BY <2>2, <2>4, <2>5, <2>6, <3>2, ClaimKept, ClaimOf(t) DEF ThreadKept, ClaimOf
      <3>3. QED
        BY <3>1, <3>2
    <2>8. ASSUME NEW t \in Sessions, Entered(t), streams[ss[t].stream] # t
          PROVE  ss[t].closing \/ ss[t].onClose
      BY <2>3, <2>8 DEF Inv, RegistryInv, EntryOf
    <2>9. CASE streams[ss[s].stream] = None
      <3>1. /\ ThreadTo(s, "attach")
            /\ \A n \in Keys : streams'[n] = IF n = ss[s].stream THEN s ELSE streams[n]
        BY <1>13, <2>1, <2>2, <2>9, AddEffect DEF Types, RegistryOK
      <3>2. \A t \in Sessions : Entered(t)' <=> Entered(t) \/ t = s
        BY <2>2, <2>5, <3>1 DEF Entered, ThreadTo, ThreadAt
      <3>3. \A t \in Sessions : th'[t].op \notin {"kick", "replace"} /\ \A m : ~Holding(t, m)'
        BY <2>3, <2>5, <3>1 DEF Holding, ThreadTo, ThreadAt
      <3>4. ASSUME NEW t \in Sessions PROVE EntryOf(t)'
        <4>1. CASE t = s
          BY <2>1, <2>2, <3>1, <3>3, <4>1 DEF EntryOf
        <4>2. CASE t # s
          <5>1. ASSUME Entered(t), streams'[ss[t].stream] # t PROVE streams[ss[t].stream] # t
            <6>1. ss[t].stream \in Keys
              BY <5>1 DEF Types, SessionFields, Inv, StageInv, StageOf, RegistryInv, ClaimOf,
                          Entered
            <6>2. QED
              BY <2>9, <3>1, <5>1, <6>1 DEF ConstantsAssumption
          <5>2. QED
            BY <2>2, <2>8, <3>2, <3>3, <4>2, <5>1 DEF EntryOf
        <4>3. QED
          BY <4>1, <4>2
      <3>5. ASSUME NEW m \in Sessions PROVE ReplacedOf(m)'
        <4>1. ReplacedOf(m)
          BY DEF Inv, RegistryInv
        <4>2. CASE m = s
          BY <2>6, <4>2 DEF ReplacedOf
        <4>3. CASE m # s
          BY <2>5, <2>6, <3>1, <4>1, <4>3 DEF ReplacedOf
        <4>4. QED
          BY <4>2, <4>3
      <3>6. ASSUME NEW t \in Sessions, NEW m \in Sessions PROVE HeldBy(t, m)'
        BY <3>3 DEF HeldBy
      <3>7. ASSUME NEW n \in Keys, streams'[n] # None PROVE NameOf(n)'
        <4>1. CASE n = ss[s].stream
          BY <2>2, <3>1, <3>2, <4>1 DEF NameOf, Entered
        <4>2. CASE n # ss[s].stream
          <5>1. streams'[n] = streams[n] /\ streams[n] \in Sessions /\ NameOf(n)
            BY <3>1, <3>7, <4>2 DEF Types, RegistryOK, Inv, RegistryInv
          <5>2. PICK y \in Sessions : y = streams[n] /\ Entered(y) /\ ss[y].stream = n
            BY <3>7, <5>1 DEF NameOf
          <5>3. Entered(y)'
            BY <3>2, <5>2
          <5>4. QED
            BY <2>2, <5>1, <5>2, <5>3 DEF NameOf, Entered
        <4>3. QED
          BY <4>1, <4>2
      <3>8. QED
        BY <2>7, <3>4, <3>5, <3>6, <3>7 DEF RegistryInv, NameOf
    <2>10. CASE streams[ss[s].stream] # None
      <3>1. PICK x \in Sessions : x = streams[ss[s].stream]
        BY <2>1, <2>10 DEF Types, RegistryOK
      <3>2. ThreadAt(s, "closeSrc", "replace", th[s].src, x) /\ streams' = streams
        BY <1>13, <2>1, <2>2, <2>10, <3>1, AddEffect
      <3>3. Entered(x)
        BY <2>1, <2>10, <3>1 DEF Inv, RegistryInv, NameOf
      <3>4. \A t \in Sessions : Entered(t)' <=> Entered(t)
        BY <2>2, <2>5, <3>2 DEF Entered, ThreadAt
      <3>5. \A t, m \in Sessions : Holding(t, m)' <=> t = s /\ m = x
        BY <2>3, <2>5, <3>2 DEF Holding, ThreadAt
      <3>6. ASSUME NEW t \in Sessions PROVE EntryOf(t)'
        <4>1. th'[t].op = "replace" => t = s
          BY <2>3, <2>5
        <4>2. th'[t].op = "replace" => streams'[ss'[t].stream] = th'[t].target
          BY <2>2, <3>1, <3>2, <4>1 DEF ThreadAt
        <4>3. QED
          BY <2>2, <2>8, <3>2, <3>4, <4>2 DEF EntryOf
      <3>7. ASSUME NEW m \in Sessions PROVE ReplacedOf(m)'
        <4>1. ReplacedOf(m)
          BY DEF Inv, RegistryInv
        <4>2. CASE m = s
          BY <2>6, <4>2 DEF ReplacedOf
        <4>3. CASE m # s
          BY <2>5, <2>6, <3>2, <4>1, <4>3 DEF ReplacedOf
        <4>4. QED
          BY <4>2, <4>3
      <3>8. ASSUME NEW t \in Sessions, NEW m \in Sessions PROVE HeldBy(t, m)'
        BY <3>2, <3>3, <3>4, <3>5 DEF HeldBy, ThreadAt
      <3>9. ASSUME NEW n \in Keys, streams'[n] # None PROVE NameOf(n)'
        <4>1. PICK y \in Sessions : y = streams[n] /\ Entered(y) /\ ss[y].stream = n
          BY <3>2, <3>9 DEF Types, RegistryOK, Inv, RegistryInv, NameOf
        <4>2. Entered(y)'
          BY <3>4, <4>1
        <4>3. QED
          BY <2>2, <3>2, <4>1, <4>2 DEF NameOf, Entered
      <3>10. QED
        BY <2>7, <3>6, <3>7, <3>8, <3>9 DEF RegistryInv, NameOf
    <2>11. QED
      BY <2>9, <2>10
  <1>14. ASSUME NEW s \in Sessions, Attach(s) PROVE RegistryInv'
    <2>1. FieldsKept(s)
      BY <1>14, AttachEffect, HandlerOf(s), StageOf(s), ClaimOf(s)
         DEF FieldsKept, ThreadKept, Entered, Made, HandlerOf, StageOf, ClaimOf, SessionBut,
             ThreadTo, ThreadDone, ThreadAt
    <2>2. ThreadKept(s)
      BY <1>14, AttachEffect, HandlerOf(s), StageOf(s), ClaimOf(s)
         DEF FieldsKept, ThreadKept, Entered, Made, HandlerOf, StageOf, ClaimOf, SessionBut,
             ThreadTo, ThreadDone, ThreadAt
    <2>3. ASSUME NEW t \in Sessions \ {s}
          PROVE  FieldsKept(t) /\ ThreadKept(t)
      BY <1>14, AttachEffect, OthersKept
         DEF SessionBut, ThreadTo, ThreadDone, ThreadAt
    <2>4. \A m \in Sessions : /\ md'[m].closedAll = md[m].closedAll
                              /\ md'[m].replaced = md[m].replaced
      BY <1>14, AttachEffect DEF NoSourceBut, SourceBut, Alike
    <2>5. ASSUME NEW t \in Sessions, th[t].op \in {"kick", "replace"},
                 th'[t].pc \in {"closeAll", "drain", "closed"}
          PROVE  th[t].pc \in {"closeAll", "drain", "closed"}
      BY <1>14, <2>5, AttachEffect, HandlerOf(s)
         DEF HandlerOf, ThreadTo, ThreadDone, ThreadAt
    <2>6. streams' = streams
      BY <1>14, AttachEffect
    <2>7. QED
      BY <2>1, <2>2, <2>3, <2>4, <2>5, <2>6, RegistryKept DEF Holding
  <1>15. ASSUME NEW s \in Sessions, CloseSrcCtx(s) PROVE RegistryInv'
    <2>1. th[s].target # None
      BY <1>15, TargetKnown DEF CloseSrcCtx
    <2>2. FieldsKept(s)
      BY <1>15, <2>1, CloseSrcCtxThread, CloseSrcCtxFields, HandlerOf(s), StageOf(s), ClaimOf(s)
         DEF FieldsKept, ThreadKept, Entered, Made, HandlerOf, StageOf, ClaimOf, SessionBut,
             ThreadTo, ThreadDone, ThreadAt
    <2>3. ThreadKept(s)
      BY <1>15, <2>1, CloseSrcCtxThread, CloseSrcCtxFields, HandlerOf(s), StageOf(s), ClaimOf(s)
         DEF FieldsKept, ThreadKept, Entered, Made, HandlerOf, StageOf, ClaimOf, SessionBut,
             ThreadTo, ThreadDone, ThreadAt
    <2>4. ASSUME NEW t \in Sessions \ {s}
          PROVE  FieldsKept(t) /\ ThreadKept(t)
      BY <1>15, <2>1, CloseSrcCtxThread, CloseSrcCtxFields, ClaimOf(t)
         DEF FieldsKept, ThreadKept, ClaimOf, ThreadTo, ThreadAt
    <2>5. \A m \in Sessions : /\ md'[m].closedAll = md[m].closedAll
                              /\ md'[m].replaced = md[m].replaced
      BY <1>15, <2>1, CloseSrcCtxThread, CloseSrcCtxFields DEF NoSourceBut, SourceBut, Alike
    <2>6. ASSUME NEW t \in Sessions, NEW m \in Sessions, Holding(t, m),
                 th'[t].pc \in {"closeAll", "drain", "closed"},
                 th[t].pc \notin {"closeAll", "drain", "closed"}
          PROVE  ss'[m].closing \/ ss'[m].onClose
      <3>1. t = s /\ th[s].target = m
        BY <1>15, <2>1, <2>6, CloseSrcCtxEffect DEF Holding, ThreadTo, ThreadAt
      <3>2. md[m].ctxSrc \in {None, m} /\ (md[m].ctxSrc = None => ss[m].onClose)
        BY <2>6, HeldContext
      <3>3. CASE md[m].ctxSrc = None
        BY <1>15, <2>1, <3>2, <3>3, CloseSrcCtxFields
      <3>4. CASE md[m].ctxSrc = m
        BY <1>15, <2>1, <3>1, <3>4, CloseSrcCtxFields DEF ConstantsAssumption
      <3>5. QED
        BY <3>2, <3>3, <3>4
    <2>7. streams' = streams
      BY <1>15, <2>1, CloseSrcCtxEffect
    <2>8. QED
      BY <2>2, <2>3, <2>4, <2>5, <2>6, <2>7, RegistryKept DEF Holding
  <1>16. ASSUME NEW s \in Sessions, CloseAllClients(s) PROVE RegistryInv'
    <2>1. th[s].target # None
      BY <1>16, TargetKnown DEF CloseAllClients
    <2>2. th[s].target \in Sessions
      BY <2>1 DEF Types, HandlersOK, Handling
    <2>3. FieldsKept(s)
      BY <1>16, <2>1, <2>2, CloseAllClientsEffect, HandlerOf(s), StageOf(s), ClaimOf(s)
         DEF FieldsKept, ThreadKept, Entered, Made, HandlerOf, StageOf, ClaimOf, SessionBut,
             ThreadTo, ThreadDone, ThreadAt
    <2>4. ThreadKept(s)
      BY <1>16, <2>1, <2>2, CloseAllClientsEffect, HandlerOf(s), StageOf(s), ClaimOf(s)
         DEF FieldsKept, ThreadKept, Entered, Made, HandlerOf, StageOf, ClaimOf, SessionBut,
             ThreadTo, ThreadDone, ThreadAt
    <2>5. ASSUME NEW t \in Sessions \ {s}
          PROVE  FieldsKept(t) /\ ThreadKept(t)
      BY <1>16, <2>1, <2>2, CloseAllClientsEffect, OthersKept
         DEF SessionBut, ThreadTo, ThreadDone, ThreadAt
    <2>6. ASSUME NEW m \in Sessions
          PROVE  /\ th'[m].pc = "add" \/ th'[m].op = "replace" =>
                      md'[m].closedAll = md[m].closedAll
                 /\ md'[m].replaced = md[m].replaced
      <3>1. md'[m].replaced = md[m].replaced
        BY <1>16, <2>1, <2>2, CloseAllClientsEffect DEF SourceBut, Alike
      <3>2. CASE m # th[s].target
        BY <1>16, <2>1, <2>2, <3>1, <3>2, CloseAllClientsEffect DEF SourceBut, Alike
      <3>3. CASE m = th[s].target
        <4>1. th'[m].op # "replace" /\ th'[m].pc # "add"
          <5>1. th[s].op \in {"kick", "replace", "end"} /\ th[s].pc = "closeAll"
            BY <1>16, <2>1, <2>2, CloseAllClientsEffect, HandlerOf(s)
               DEF HandlerOf, Types, HandlersOK, Handling
          <5>2. CASE th[s].op = "end"
            <6>1. ss[s].srcCtx /\ m = ss[s].mdsrc
              BY <3>3, <5>1, <5>2, HandlerOf(s), StageOf(s) DEF HandlerOf, StageOf
            <6>2. m = s
              BY <6>1, ConstantsAssumption DEF Inv, PlayerInv, PlayerOf
            <6>3. QED
              BY <1>16, <2>1, <5>2, <6>2, CloseAllClientsEffect DEF ThreadTo, ThreadAt
          <5>3. CASE th[s].op # "end"
            <6>1. Entered(m) /\ m # s
              BY <3>3, <5>1, <5>3, HeldContext DEF Holding
            <6>2. th[m].op # "replace" /\ th[m].pc # "add"
              BY <6>1, ClaimOf(m), HandlerOf(m) DEF Entered, ClaimOf, HandlerOf
            <6>3. th'[m] = th[m]
              BY <1>16, <2>1, <6>1, CloseAllClientsEffect DEF ThreadTo, ThreadAt
            <6>4. QED
              BY <6>2, <6>3
          <5>4. QED
            BY <5>2, <5>3
        <4>2. QED
          BY <3>1, <4>1
      <3>4. QED
        BY <3>2, <3>3
    <2>7. ASSUME NEW t \in Sessions, th[t].op \in {"kick", "replace"},
                 th'[t].pc \in {"closeAll", "drain", "closed"}
          PROVE  th[t].pc \in {"closeAll", "drain", "closed"}
      BY <1>16, <2>1, <2>2, <2>7, CloseAllClientsEffect, HandlerOf(s)
         DEF HandlerOf, ThreadTo, ThreadDone, ThreadAt
    <2>8. streams' = streams
      BY <1>16, <2>1, <2>2, CloseAllClientsEffect
    <2>9. QED
      BY <2>3, <2>4, <2>5, <2>6, <2>7, <2>8, RegistryKept DEF Holding
  <1>17. ASSUME NEW s \in Sessions, Drain(s) PROVE RegistryInv'
    <2>1. th[s].target # None
      BY <1>17, TargetKnown DEF Drain
    <2>2. th[s].target \in Sessions
      BY <2>1 DEF Types, HandlersOK, Handling
    <2>3. FieldsKept(s)
      BY <1>17, <2>1, <2>2, DrainEffect, HandlerOf(s), StageOf(s), ClaimOf(s)
         DEF FieldsKept, ThreadKept, Entered, Made, HandlerOf, StageOf, ClaimOf, SessionBut,
             ThreadTo, ThreadDone, ThreadAt
    <2>4. ThreadKept(s)
      BY <1>17, <2>1, <2>2, DrainEffect, HandlerOf(s), StageOf(s), ClaimOf(s)
         DEF FieldsKept, ThreadKept, Entered, Made, HandlerOf, StageOf, ClaimOf, SessionBut,
             ThreadTo, ThreadDone, ThreadAt
    <2>5. ASSUME NEW t \in Sessions \ {s}
          PROVE  FieldsKept(t) /\ ThreadKept(t)
      BY <1>17, <2>1, <2>2, DrainEffect, ClaimOf(t)
         DEF FieldsKept, ThreadKept, ClaimOf, ThreadTo, ThreadAt
    <2>6. \A m \in Sessions : /\ md'[m].closedAll = md[m].closedAll
                              /\ md'[m].replaced = md[m].replaced
      BY <1>17, <2>1, <2>2, DrainEffect DEF NoSourceBut, SourceBut, Alike
    <2>7. ASSUME NEW t \in Sessions, th[t].op \in {"kick", "replace"},
                 th'[t].pc \in {"closeAll", "drain", "closed"}
          PROVE  th[t].pc \in {"closeAll", "drain", "closed"}
      BY <1>17, <2>1, <2>2, <2>7, DrainEffect, HandlerOf(s)
         DEF HandlerOf, ThreadTo, ThreadDone, ThreadAt
    <2>8. streams' = streams
      BY <1>17, <2>1, <2>2, DrainEffect
    <2>9. QED
      BY <2>3, <2>4, <2>5, <2>6, <2>7, <2>8, RegistryKept DEF Holding
  <1>18. ASSUME NEW s \in Sessions, Closed(s) PROVE RegistryInv'
    <2>1. th[s].target # None
      BY <1>18, TargetKnown DEF Closed
    <2>2. th[s].pc = "closed" /\ ss' = ss
      BY <1>18, <2>1, ClosedEffect
    <2>3. PICK x \in Sessions : x = th[s].target
      BY <2>1 DEF Types, HandlersOK, Handling
    <2>4. \A t \in Sessions : FieldsKept(t)
      BY <2>2 DEF FieldsKept
    <2>5. \A t \in Sessions \ {s} : th'[t] = th[t] /\ ThreadKept(t)
      BY <1>18, <2>1, <2>2, ClosedEffect, OthersKept DEF ThreadDone, ThreadAt
    <2>6. CASE th[s].op = "end"
      <3>1. ThreadDone(s) /\ NoSourceBut /\ streams' = streams
        BY <1>18, <2>1, <2>6, ClosedEffect
      <3>2. ThreadKept(s)
        BY <2>2, <2>6, <3>1, ClaimOf(s)
           DEF ThreadKept, ThreadDone, ThreadAt, ClaimOf, ConstantsAssumption
      <3>3. \A m \in Sessions : /\ md'[m].closedAll = md[m].closedAll
                                /\ md'[m].replaced = md[m].replaced
        BY <3>1 DEF NoSourceBut, Alike
      <3>4. QED
        BY <2>4, <2>5, <2>6, <3>1, <3>2, <3>3, RegistryKept DEF ThreadDone, ThreadAt
    <2>7. CASE th[s].op # "end"
      <3>1. th[s].op \in {"kick", "replace"} /\ lock = s
        BY <1>18, <2>1, <2>7, ClosedEffect, HandlerOf(s) DEF HandlerOf
      <3>2. Entered(x) /\ x # s /\ (ss[x].closing \/ ss[x].onClose)
        BY <2>2, <2>3, <3>1, HeldContext DEF Holding, Inv, RegistryInv, HeldBy
      <3>3. \A t \in Sessions \ {s} : th[t].op \notin {"kick", "replace"}
        BY <3>1, HandlerOf(s) DEF Inv, HandlerInv, HandlerOf
      <3>4. \A t \in Sessions : th'[t].op \notin {"kick", "replace"} /\ \A m : ~Holding(t, m)'
        BY <1>18, <2>1, <2>5, <2>7, <3>3, ClosedEffect DEF Holding, ThreadAt, ConstantsAssumption
      <3>5. ASSUME NEW t \in Sessions, Entered(t), streams[ss[t].stream] # t
            PROVE  ss[t].closing \/ ss[t].onClose
        <4>1. \A u \in Sessions : Holding(u, t) => t = x
          BY <2>3, <3>1, <3>3 DEF Holding
        <4>2. QED
          BY <3>2, <3>5, <4>1 DEF Inv, RegistryInv, EntryOf
      <3>6. \A m \in Sessions : md'[m].closedAll = md[m].closedAll
        BY <1>18, <2>1, <2>3, ClosedEffect DEF NoSourceBut, SourceBut, Alike
      <3>7. th'[s].pc \in {"create", "attach"} /\ (th[s].op = "kick" => th'[s].pc = "create")
        BY <1>18, <2>1, <2>7, ClosedEffect DEF ThreadAt
      <3>8. ASSUME NEW t \in Sessions PROVE ClaimOf(t)'
        <4>1. CASE t = s
          <5>1. th'[s].pc = "attach" => ~ss[s].attached
            BY <3>1, <3>7, ClaimOf(s) DEF ClaimOf
          <5>2. ss[s].attached /\ ss'[s].onClose => FALSE
            BY <2>2, ClaimOf(s) DEF ClaimOf
          <5>3. QED
            BY <2>4, <3>4, <3>6, <3>7, <4>1, <5>1, <5>2, ClaimKept
        <4>2. CASE t # s
          BY <2>2, <2>4, <2>5, <3>6, <4>2, ClaimKept, ClaimOf(t) DEF ThreadKept, ClaimOf
        <4>3. QED
          BY <4>1, <4>2
      <3>9. ASSUME NEW t \in Sessions, NEW m \in Sessions PROVE HeldBy(t, m)'
        BY <3>4 DEF HeldBy
      <3>10. CASE th[s].op = "kick"
        <4>1. NoSourceBut /\ streams' = streams
          BY <1>18, <2>1, <3>10, ClosedEffect
        <4>2. \A t \in Sessions : Entered(t)' <=> Entered(t)
          BY <2>2, <2>5, <3>7, <3>10 DEF Entered
        <4>3. ASSUME NEW t \in Sessions PROVE EntryOf(t)'
          BY <2>2, <3>4, <3>5, <4>1, <4>2 DEF EntryOf
        <4>4. ASSUME NEW m \in Sessions PROVE ReplacedOf(m)'
          <5>1. ReplacedOf(m)
            BY DEF Inv, RegistryInv
          <5>2. th'[m].pc # "add" \/ th[m].pc = "add"
            BY <2>5, <3>7
          <5>3. QED
            BY <3>4, <4>1, <5>1, <5>2 DEF ReplacedOf, NoSourceBut, Alike
        <4>5. ASSUME NEW n \in Keys, streams'[n] # None PROVE NameOf(n)'
          <5>1. PICK y \in Sessions : y = streams[n] /\ Entered(y) /\ ss[y].stream = n
            BY <4>1, <4>5 DEF Types, RegistryOK, Inv, RegistryInv, NameOf
          <5>2. Entered(y)'
            BY <4>2, <5>1
          <5>3. QED
            BY <2>2, <4>1, <5>1, <5>2 DEF NameOf, Entered
        <4>6. QED
          BY <3>8, <3>9, <4>3, <4>4, <4>5 DEF RegistryInv, NameOf
      <3>11. CASE th[s].op = "replace"
        <4>1. ss[s].stream \in Keys /\ streams[ss[s].stream] = x
          <5>1. ss[s].stream # None
            BY <3>11, StageOf(s) DEF StageOf
          <5>2. QED
            BY <2>3, <3>11, <5>1 DEF Types, SessionFields, Inv, RegistryInv, EntryOf
        <4>2. /\ th'[s].pc = "attach" /\ SourceBut(x, {"replaced"})
              /\ \A n \in Keys : streams'[n] = IF n = ss[s].stream THEN s ELSE streams[n]
          BY <1>18, <2>1, <2>3, <3>11, <4>1, ClosedEffect DEF Types, RegistryOK, ThreadAt
        <4>3. \A t \in Sessions : Entered(t)' <=> Entered(t) \/ t = s
          BY <2>2, <2>5, <4>2 DEF Entered
        <4>4. ASSUME NEW t \in Sessions PROVE EntryOf(t)'
          <5>1. CASE t = s
            BY <2>2, <3>4, <4>1, <4>2, <5>1 DEF EntryOf
          <5>2. CASE t # s
            <6>1. ASSUME Entered(t), streams'[ss[t].stream] # t
                  PROVE  ss[t].closing \/ ss[t].onClose
              <7>1. ss[t].stream \in Keys
                BY <6>1 DEF Types, SessionFields, Inv, StageInv, StageOf, RegistryInv, ClaimOf,
                            Entered
              <7>2. CASE ss[t].stream = ss[s].stream
                BY <3>2, <3>5, <4>1, <6>1, <7>2
              <7>3. CASE ss[t].stream # ss[s].stream
                BY <3>5, <4>2, <6>1, <7>1, <7>3
              <7>4. QED
                BY <7>2, <7>3
            <6>2. QED
              BY <2>2, <3>4, <4>3, <5>2, <6>1 DEF EntryOf
          <5>3. QED
            BY <5>1, <5>2
        <4>5. ASSUME NEW m \in Sessions, md'[m].replaced
              PROVE  Made(m)' /\ th'[m].pc # "add" /\ \A n \in Keys : streams'[n] # m
          <5>1. CASE m = x
            <6>1. Made(m)' /\ ss[x].stream = ss[s].stream
              BY <2>1, <2>3, <4>1, <5>1, TargetMade
                 DEF Inv, RegistryInv, NameOf, ConstantsAssumption
            <6>2. th'[m].pc # "add"
              BY <2>5, <3>2, <5>1, ClaimOf(x) DEF Entered, ClaimOf
            <6>3. ASSUME NEW n \in Keys PROVE streams'[n] # m
              <7>1. CASE n = ss[s].stream
                BY <3>2, <4>2, <5>1, <7>1
              <7>2. CASE n # ss[s].stream
                BY <4>2, <5>1, <6>1, <7>2 DEF Inv, RegistryInv, NameOf, ConstantsAssumption
              <7>3. QED
                BY <7>1, <7>2
            <6>4. QED
              BY <6>1, <6>2, <6>3
          <5>2. CASE m # x
            <6>1. md[m].replaced /\ ReplacedOf(m)
              BY <4>2, <4>5, <5>2 DEF SourceBut, Alike, Inv, RegistryInv
            <6>2. m # s
              BY <3>11, <6>1 DEF ReplacedOf
            <6>3. QED
              BY <2>5, <4>2, <6>1, <6>2 DEF ReplacedOf
          <5>3. QED
            BY <5>1, <5>2
        <4>6. ASSUME NEW n \in Keys, streams'[n] # None PROVE NameOf(n)'
          <5>1. CASE n = ss[s].stream
            BY <2>2, <4>2, <4>3, <5>1 DEF NameOf, Entered
          <5>2. CASE n # ss[s].stream
            <6>1. streams'[n] = streams[n] /\ streams[n] \in Sessions /\ NameOf(n)
              BY <4>2, <4>6, <5>2 DEF Types, RegistryOK, Inv, RegistryInv
            <6>2. PICK y \in Sessions : y = streams[n] /\ Entered(y) /\ ss[y].stream = n
              BY <4>6, <6>1 DEF NameOf
            <6>3. Entered(y)'
              BY <4>3, <6>2
            <6>4. QED
              BY <2>2, <6>1, <6>2, <6>3 DEF NameOf, Entered
          <5>3. QED
            BY <5>1, <5>2
        <4>7. \A m \in Sessions : ReplacedOf(m)'
          BY <3>4, <4>5 DEF ReplacedOf
        <4>8. QED
          BY <3>8, <3>9, <4>4, <4>6, <4>7 DEF RegistryInv, NameOf
      <3>12. QED
        BY <3>1, <3>10, <3>11
    <2>8. QED
      BY <2>6, <2>7
  <1>19. ASSUME NEW s \in Sessions, Play(s) PROVE RegistryInv'
    <2>1. th[s].pc = "idle" /\ th[s].op = None
      BY <1>19, PlayEffect, TakenEffect, HandlerOf(s) DEF HandlerOf
    <2>2. CASE UNCHANGED <<ss, th>>
      BY <1>19, <2>2, PlayEffect, RegistrySame
    <2>3. CASE ~UNCHANGED <<ss, th>>
      <3>1. /\ ~ss[s].srcCtx /\ SessionBut(s, {"stream"})
            /\ ThreadAt(s, IF ss[s].mdsrc = None THEN "find" ELSE "opened",
                        th[s].op, Head(inbox[s]).src, th[s].target)
            /\ streams' = streams /\ NoSourceBut
        BY <1>19, <2>3, PlayEffect
      <3>2. ~ss[s].attached
        BY <3>1, ClaimOf(s) DEF ClaimOf
      <3>3. FieldsKept(s) /\ ThreadKept(s)
        BY <2>1, <3>1, <3>2
           DEF FieldsKept, ThreadKept, Entered, SessionBut, ThreadAt, ConstantsAssumption
      <3>4. ASSUME NEW t \in Sessions \ {s}
            PROVE  FieldsKept(t) /\ ThreadKept(t) /\ th'[t] = th[t]
        BY <3>1, OthersKept DEF SessionBut, ThreadAt
      <3>5. \A m \in Sessions : /\ md'[m].closedAll = md[m].closedAll
                                /\ md'[m].replaced = md[m].replaced
        BY <3>1 DEF NoSourceBut, Alike
      <3>6. ASSUME NEW t \in Sessions, NEW m, Holding(t, m)
            PROVE  th'[t] = th[t]
        BY <2>1, <3>4, <3>6 DEF Holding, ConstantsAssumption
      <3>7. QED
        BY <3>1, <3>3, <3>4, <3>5, <3>6, RegistryKept
    <2>4. QED
      BY <2>2, <2>3
  <1>20. ASSUME NEW s \in Sessions, GetMdSource(s) PROVE RegistryInv'
    <2>1. ss[s].stream # None
      BY <1>20, StreamKnown DEF GetMdSource
    <2>2. FieldsKept(s)
      BY <1>20, <2>1, GetMdSourceEffect, HandlerOf(s), StageOf(s), ClaimOf(s)
         DEF FieldsKept, ThreadKept, Entered, Made, HandlerOf, StageOf, ClaimOf, SessionBut,
             ThreadTo, ThreadDone, ThreadAt
    <2>3. ThreadKept(s)
      BY <1>20, <2>1, GetMdSourceEffect, HandlerOf(s), StageOf(s), ClaimOf(s)
         DEF FieldsKept, ThreadKept, Entered, Made, HandlerOf, StageOf, ClaimOf, SessionBut,
             ThreadTo, ThreadDone, ThreadAt
    <2>4. ASSUME NEW t \in Sessions \ {s}
          PROVE  FieldsKept(t) /\ ThreadKept(t)
      BY <1>20, <2>1, GetMdSourceEffect, OthersKept
         DEF SessionBut, ThreadTo, ThreadDone, ThreadAt
    <2>5. \A m \in Sessions : /\ md'[m].closedAll = md[m].closedAll
                              /\ md'[m].replaced = md[m].replaced
      BY <1>20, <2>1, GetMdSourceEffect DEF NoSourceBut, SourceBut, Alike
    <2>6. ASSUME NEW t \in Sessions, th[t].op \in {"kick", "replace"},
                 th'[t].pc \in {"closeAll", "drain", "closed"}
          PROVE  th[t].pc \in {"closeAll", "drain", "closed"}
      BY <1>20, <2>1, <2>6, GetMdSourceEffect, HandlerOf(s)
         DEF HandlerOf, ThreadTo, ThreadDone, ThreadAt
    <2>7. streams' = streams
      BY <1>20, <2>1, GetMdSourceEffect
    <2>8. QED
      BY <2>2, <2>3, <2>4, <2>5, <2>6, <2>7, RegistryKept DEF Holding
  <1>21. ASSUME NEW s \in Sessions, PlayOpened(s) PROVE RegistryInv'
    <2>1. FieldsKept(s)
      BY <1>21, PlayOpenedEffect, HandlerOf(s), StageOf(s), ClaimOf(s)
         DEF FieldsKept, ThreadKept, Entered, Made, HandlerOf, StageOf, ClaimOf, SessionBut,
             ThreadTo, ThreadDone, ThreadAt
    <2>2. ThreadKept(s)
      BY <1>21, PlayOpenedEffect, HandlerOf(s), StageOf(s), ClaimOf(s)
         DEF FieldsKept, ThreadKept, Entered, Made, HandlerOf, StageOf, ClaimOf, SessionBut,
             ThreadTo, ThreadDone, ThreadAt
    <2>3. ASSUME NEW t \in Sessions \ {s}
          PROVE  FieldsKept(t) /\ ThreadKept(t)
      BY <1>21, PlayOpenedEffect, OthersKept
         DEF SessionBut, ThreadTo, ThreadDone, ThreadAt
    <2>4. \A m \in Sessions : /\ md'[m].closedAll = md[m].closedAll
                              /\ md'[m].replaced = md[m].replaced
      BY <1>21, PlayOpenedEffect DEF NoSourceBut, SourceBut, Alike
    <2>5. ASSUME NEW t \in Sessions, th[t].op \in {"kick", "replace"},
                 th'[t].pc \in {"closeAll", "drain", "closed"}
          PROVE  th[t].pc \in {"closeAll", "drain", "closed"}
      BY <1>21, <2>5, PlayOpenedEffect, HandlerOf(s)
         DEF HandlerOf, ThreadTo, ThreadDone, ThreadAt
    <2>6. streams' = streams
      BY <1>21, PlayOpenedEffect
    <2>7. QED
      BY <2>1, <2>2, <2>3, <2>4, <2>5, <2>6, RegistryKept DEF Holding
  <1>22. ASSUME NEW s \in Sessions, Join(s) PROVE RegistryInv'
    <2>1. FieldsKept(s)
      BY <1>22, JoinEffect, HandlerOf(s), StageOf(s), ClaimOf(s)
         DEF FieldsKept, ThreadKept, Entered, Made, HandlerOf, StageOf, ClaimOf, SessionBut,
             ThreadTo, ThreadDone, ThreadAt
    <2>2. ThreadKept(s)
      BY <1>22, JoinEffect, HandlerOf(s), StageOf(s), ClaimOf(s)
         DEF FieldsKept, ThreadKept, Entered, Made, HandlerOf, StageOf, ClaimOf, SessionBut,
             ThreadTo, ThreadDone, ThreadAt
    <2>3. ASSUME NEW t \in Sessions \ {s}
          PROVE  FieldsKept(t) /\ ThreadKept(t)
      BY <1>22, JoinEffect, OthersKept
         DEF SessionBut, ThreadTo, ThreadDone, ThreadAt
    <2>4. \A m \in Sessions : /\ md'[m].closedAll = md[m].closedAll
                              /\ md'[m].replaced = md[m].replaced
      BY <1>22, JoinEffect DEF NoSourceBut, SourceBut, Alike
    <2>5. ASSUME NEW t \in Sessions, th[t].op \in {"kick", "replace"},
                 th'[t].pc \in {"closeAll", "drain", "closed"}
          PROVE  th[t].pc \in {"closeAll", "drain", "closed"}
      BY <1>22, <2>5, JoinEffect, HandlerOf(s)
         DEF HandlerOf, ThreadTo, ThreadDone, ThreadAt
    <2>6. streams' = streams
      BY <1>22, JoinEffect
    <2>7. QED
      BY <2>1, <2>2, <2>3, <2>4, <2>5, <2>6, RegistryKept DEF Holding
  <1>23. ASSUME NEW s \in Sessions, JoinAdd(s) PROVE RegistryInv'
    <2>1. th[s].src # None
      BY <1>23, SourceKnown DEF JoinAdd
    <2>2. th[s].src \in Sessions
      BY <2>1 DEF Types, HandlersOK, Handling
    <2>3. FieldsKept(s)
      BY <1>23, <2>1, <2>2, JoinAddEffect, HandlerOf(s), StageOf(s), ClaimOf(s)
         DEF FieldsKept, ThreadKept, Entered, Made, HandlerOf, StageOf, ClaimOf, SessionBut,
             ThreadTo, ThreadDone, ThreadAt
    <2>4. ThreadKept(s)
      BY <1>23, <2>1, <2>2, JoinAddEffect, HandlerOf(s), StageOf(s), ClaimOf(s)
         DEF FieldsKept, ThreadKept, Entered, Made, HandlerOf, StageOf, ClaimOf, SessionBut,
             ThreadTo, ThreadDone, ThreadAt
    <2>5. ASSUME NEW t \in Sessions \ {s}
          PROVE  FieldsKept(t) /\ ThreadKept(t)
      BY <1>23, <2>1, <2>2, JoinAddEffect, OthersKept
         DEF SessionBut, ThreadTo, ThreadDone, ThreadAt
    <2>6. \A m \in Sessions : /\ md'[m].closedAll = md[m].closedAll
                              /\ md'[m].replaced = md[m].replaced
      BY <1>23, <2>1, <2>2, JoinAddEffect DEF NoSourceBut, SourceBut, Alike
    <2>7. ASSUME NEW t \in Sessions, th[t].op \in {"kick", "replace"},
                 th'[t].pc \in {"closeAll", "drain", "closed"}
          PROVE  th[t].pc \in {"closeAll", "drain", "closed"}
      BY <1>23, <2>1, <2>2, <2>7, JoinAddEffect, HandlerOf(s)
         DEF HandlerOf, ThreadTo, ThreadDone, ThreadAt
    <2>8. streams' = streams
      BY <1>23, <2>1, <2>2, JoinAddEffect
    <2>9. QED
      BY <2>3, <2>4, <2>5, <2>6, <2>7, <2>8, RegistryKept DEF Holding
  <1>24. ASSUME NEW s \in Sessions, ReallyClose(s) PROVE RegistryInv'
    <2>1. th[s].pc = "idle"
      BY <1>24, ReallyCloseEffect DEF IsNext
    <2>2. FieldsKept(s)
      BY <1>24, <2>1, ReallyCloseEffect, HandlerOf(s), StageOf(s), ClaimOf(s)
         DEF FieldsKept, ThreadKept, Entered, Made, HandlerOf, StageOf, ClaimOf, SessionBut,
             ThreadTo, ThreadDone, ThreadAt
    <2>3. ThreadKept(s)
      BY <1>24, <2>1, ReallyCloseEffect, HandlerOf(s), StageOf(s), ClaimOf(s)
         DEF FieldsKept, ThreadKept, Entered, Made, HandlerOf, StageOf, ClaimOf, SessionBut,
             ThreadTo, ThreadDone, ThreadAt
    <2>4. ASSUME NEW t \in Sessions \ {s}
          PROVE  FieldsKept(t) /\ ThreadKept(t)
      BY <1>24, <2>1, ReallyCloseEffect, OthersKept
         DEF SessionBut, ThreadTo, ThreadDone, ThreadAt
    <2>5. \A m \in Sessions : /\ md'[m].closedAll = md[m].closedAll
                              /\ md'[m].replaced = md[m].replaced
      BY <1>24, <2>1, ReallyCloseEffect DEF NoSourceBut, SourceBut, Alike
    <2>6. ASSUME NEW t \in Sessions, th[t].op \in {"kick", "replace"},
                 th'[t].pc \in {"closeAll", "drain", "closed"}
          PROVE  th[t].pc \in {"closeAll", "drain", "closed"}
      BY <1>24, <2>1, <2>6, ReallyCloseEffect, HandlerOf(s)
         DEF HandlerOf, ThreadTo, ThreadDone, ThreadAt
    <2>7. streams' = streams
      BY <1>24, <2>1, ReallyCloseEffect
    <2>8. QED
      BY <2>2, <2>3, <2>4, <2>5, <2>6, <2>7, RegistryKept DEF Holding
  <1>25. ASSUME NEW s \in Sessions, ClearSrcCtx(s) PROVE RegistryInv'
    <2>1. th[s].target # None
      BY <1>25, TargetKnown DEF ClearSrcCtx
    <2>2. FieldsKept(s)
      BY <1>25, <2>1, ClearSrcCtxEffect, HandlerOf(s), StageOf(s), ClaimOf(s)
         DEF FieldsKept, ThreadKept, Entered, Made, HandlerOf, StageOf, ClaimOf, SessionBut,
             ThreadTo, ThreadDone, ThreadAt
    <2>3. ThreadKept(s)
      BY <1>25, <2>1, ClearSrcCtxEffect, HandlerOf(s), StageOf(s), ClaimOf(s)
         DEF FieldsKept, ThreadKept, Entered, Made, HandlerOf, StageOf, ClaimOf, SessionBut,
             ThreadTo, ThreadDone, ThreadAt
    <2>4. ASSUME NEW t \in Sessions \ {s}
          PROVE  FieldsKept(t) /\ ThreadKept(t)
      BY <1>25, <2>1, ClearSrcCtxEffect, OthersKept
         DEF SessionBut, ThreadTo, ThreadDone, ThreadAt
    <2>5. \A m \in Sessions : /\ md'[m].closedAll = md[m].closedAll
                              /\ md'[m].replaced = md[m].replaced
      BY <1>25, <2>1, ClearSrcCtxEffect DEF NoSourceBut, SourceBut, Alike
    <2>6. ASSUME NEW t \in Sessions, th[t].op \in {"kick", "replace"},
                 th'[t].pc \in {"closeAll", "drain", "closed"}
          PROVE  th[t].pc \in {"closeAll", "drain", "closed"}
      BY <1>25, <2>1, <2>6, ClearSrcCtxEffect, HandlerOf(s)
         DEF HandlerOf, ThreadTo, ThreadDone, ThreadAt
    <2>7. streams' = streams
      BY <1>25, <2>1, ClearSrcCtxEffect
    <2>8. QED
      BY <2>2, <2>3, <2>4, <2>5, <2>6, <2>7, RegistryKept DEF Holding
  <1>26. ASSUME NEW s \in Sessions, RemoveMdSource(s) PROVE RegistryInv'
    <2>1. /\ th[s].pc = "unregister" /\ lock = None /\ ThreadTo(s, "closeAll") /\ NoSourceBut
          /\ SessionBut(s, {"attached"}) /\ ~ss'[s].attached
          /\ streams' = IF streams[ss[s].stream] = th[s].target
                        THEN [streams EXCEPT ![ss[s].stream] = None] ELSE streams
      BY <1>26, RemoveMdSourceEffect
    <2>2. th[s].op = "end" /\ th[s].target = s
      <3>1. th[s].op = "end" /\ th[s].target = ss[s].mdsrc /\ th[s].target # None
        BY <2>1, HandlerOf(s) DEF HandlerOf, ConstantsAssumption
      <3>2. ss[s].srcCtx
        BY <2>1, <3>1, StageOf(s) DEF StageOf
      <3>3. QED
        BY <3>1, <3>2 DEF Inv, PlayerInv, PlayerOf
    <2>3. \A n \in Keys : streams[n] = s => n = ss[s].stream
      BY DEF Inv, RegistryInv, NameOf, ConstantsAssumption
    <2>4. \A n \in Keys : streams'[n] # s /\ (streams[n] # s => streams'[n] = streams[n])
      <3>1. CASE streams[ss[s].stream] = s
        BY <2>1, <2>2, <2>3, <3>1 DEF Types, RegistryOK, ConstantsAssumption
      <3>2. CASE streams[ss[s].stream] # s
        BY <2>1, <2>2, <2>3, <3>2
      <3>3. QED
        BY <3>1, <3>2
    <2>5. \A t \in Sessions : th[t].op \notin {"kick", "replace"} /\ \A m : ~Holding(t, m)
      BY <2>1, NoHolders
    <2>6. \A t \in Sessions \ {s} : ss'[t] = ss[t] /\ th'[t] = th[t]
      BY <2>1 DEF SessionBut, ThreadTo, ThreadAt
    <2>7. th'[s].pc = "closeAll" /\ th'[s].op = "end"
      BY <2>1, <2>2 DEF ThreadTo, ThreadAt
    <2>8. \A t \in Sessions : th'[t].op \notin {"kick", "replace"} /\ \A m : ~Holding(t, m)'
      BY <2>5, <2>6, <2>7 DEF Holding
    <2>9. \A t \in Sessions : Entered(t)' <=> Entered(t) /\ t # s
      BY <2>1, <2>6, <2>7 DEF Entered
    <2>10. \A m \in Sessions : /\ md'[m].closedAll = md[m].closedAll
                               /\ md'[m].replaced = md[m].replaced
      BY <2>1 DEF NoSourceBut, Alike
    <2>11. ASSUME NEW t \in Sessions PROVE ClaimOf(t)'
      <3>1. CASE t = s
        BY <2>1, <2>7, <3>1 DEF ClaimOf
      <3>2. CASE t # s
        BY <2>6, <2>10, <3>2, ClaimOf(t) DEF ClaimOf
      <3>3. QED
        BY <3>1, <3>2
    <2>12. ASSUME NEW t \in Sessions PROVE EntryOf(t)'
      <3>1. ASSUME Entered(t), t # s, streams'[ss[t].stream] # t
            PROVE  ss[t].closing \/ ss[t].onClose
        <4>1. ss[t].stream \in Keys
          BY <3>1 DEF Types, SessionFields, Inv, StageInv, StageOf, RegistryInv, ClaimOf, Entered
        <4>2. streams[ss[t].stream] # t
          BY <2>4, <3>1, <4>1
        <4>3. QED
          BY <2>5, <3>1, <4>2 DEF Inv, RegistryInv, EntryOf
      <3>2. QED
        BY <2>6, <2>8, <2>9, <3>1 DEF EntryOf
    <2>13. ASSUME NEW m \in Sessions PROVE ReplacedOf(m)'
      <3>1. ReplacedOf(m)
        BY DEF Inv, RegistryInv
      <3>2. th'[m].pc = "add" => th[m].pc = "add"
        BY <2>6, <2>7
      <3>3. ASSUME NEW n \in Keys, streams[n] # m PROVE streams'[n] # m
        BY <2>3, <2>1, <2>2, <2>4, <3>3 DEF Types, RegistryOK, ConstantsAssumption
      <3>4. QED
        BY <2>8, <2>10, <3>1, <3>2, <3>3 DEF ReplacedOf
    <2>14. ASSUME NEW t \in Sessions, NEW m \in Sessions PROVE HeldBy(t, m)'
      BY <2>8 DEF HeldBy
    <2>15. ASSUME NEW n \in Keys, streams'[n] # None PROVE NameOf(n)'
      <3>1. streams[n] # s
        BY <2>1, <2>2, <2>3, <2>15 DEF Types, RegistryOK
      <3>2. PICK y \in Sessions : y = streams[n] /\ Entered(y) /\ ss[y].stream = n
        BY <2>4, <2>15, <3>1 DEF Types, RegistryOK, Inv, RegistryInv, NameOf
      <3>3. Entered(y)' /\ ss'[y].stream = n /\ streams'[n] = y
        BY <2>4, <2>6, <2>9, <3>1, <3>2
      <3>4. QED
        BY <3>3 DEF NameOf, Entered
    <2>16. QED
      BY <2>11, <2>12, <2>13, <2>14, <2>15 DEF RegistryInv, NameOf
  <1>27. ASSUME NEW s \in Sessions, RemoveClientSession(s) PROVE RegistryInv'
    <2>1. th[s].target # None
      BY <1>27, TargetKnown DEF RemoveClientSession
    <2>2. th[s].target \in Sessions
      BY <2>1 DEF Types, HandlersOK, Handling
    <2>3. FieldsKept(s)
      BY <1>27, <2>1, <2>2, RemoveClientSessionEffect, HandlerOf(s), StageOf(s), ClaimOf(s)
         DEF FieldsKept, ThreadKept, Entered, Made, HandlerOf, StageOf, ClaimOf, SessionBut,
             ThreadTo, ThreadDone, ThreadAt
    <2>4. ThreadKept(s)
      BY <1>27, <2>1, <2>2, RemoveClientSessionEffect, HandlerOf(s), StageOf(s), ClaimOf(s)
         DEF FieldsKept, ThreadKept, Entered, Made, HandlerOf, StageOf, ClaimOf, SessionBut,
             ThreadTo, ThreadDone, ThreadAt
    <2>5. ASSUME NEW t \in Sessions \ {s}
          PROVE  FieldsKept(t) /\ ThreadKept(t)
      BY <1>27, <2>1, <2>2, RemoveClientSessionEffect, OthersKept
         DEF SessionBut, ThreadTo, ThreadDone, ThreadAt
    <2>6. \A m \in Sessions : /\ md'[m].closedAll = md[m].closedAll
                              /\ md'[m].replaced = md[m].replaced
      BY <1>27, <2>1, <2>2, RemoveClientSessionEffect DEF NoSourceBut, SourceBut, Alike
    <2>7. ASSUME NEW t \in Sessions, th[t].op \in {"kick", "replace"},
                 th'[t].pc \in {"closeAll", "drain", "closed"}
          PROVE  th[t].pc \in {"closeAll", "drain", "closed"}
      BY <1>27, <2>1, <2>2, <2>7, RemoveClientSessionEffect, HandlerOf(s)
         DEF HandlerOf, ThreadTo, ThreadDone, ThreadAt
    <2>8. streams' = streams
      BY <1>27, <2>1, <2>2, RemoveClientSessionEffect
    <2>9. QED
      BY <2>3, <2>4, <2>5, <2>6, <2>7, <2>8, RegistryKept DEF Holding
  <1>28. ASSUME NEW s \in Sessions, Destroy(s) PROVE RegistryInv'
    <2>1. ~ss[s].inMd
      BY <1>28, NotListed DEF Destroy
    <2>2. FieldsKept(s)
      BY <1>28, <2>1, DestroyEffect, HandlerOf(s), StageOf(s), ClaimOf(s)
         DEF FieldsKept, ThreadKept, Entered, Made, HandlerOf, StageOf, ClaimOf, SessionBut,
             ThreadTo, ThreadDone, ThreadAt
    <2>3. ThreadKept(s)
      BY <1>28, <2>1, DestroyEffect, HandlerOf(s), StageOf(s), ClaimOf(s)
         DEF FieldsKept, ThreadKept, Entered, Made, HandlerOf, StageOf, ClaimOf, SessionBut,
             ThreadTo, ThreadDone, ThreadAt
    <2>4. ASSUME NEW t \in Sessions \ {s}
          PROVE  FieldsKept(t) /\ ThreadKept(t)
      BY <1>28, <2>1, DestroyEffect, OthersKept
         DEF SessionBut, ThreadTo, ThreadDone, ThreadAt
    <2>5. \A m \in Sessions : /\ md'[m].closedAll = md[m].closedAll
                              /\ md'[m].replaced = md[m].replaced
      BY <1>28, <2>1, DestroyEffect DEF NoSourceBut, SourceBut, Alike
    <2>6. ASSUME NEW t \in Sessions, th[t].op \in {"kick", "replace"},
                 th'[t].pc \in {"closeAll", "drain", "closed"}
          PROVE  th[t].pc \in {"closeAll", "drain", "closed"}
      BY <1>28, <2>1, <2>6, DestroyEffect, HandlerOf(s)
         DEF HandlerOf, ThreadTo, ThreadDone, ThreadAt
    <2>7. streams' = streams
      BY <1>28, <2>1, DestroyEffect
    <2>8. QED
      BY <2>2, <2>3, <2>4, <2>5, <2>6, <2>7, RegistryKept DEF Holding
  <1>29. ASSUME NEW s \in Sessions, Forward(s) PROVE RegistryInv'
    BY <1>29, ForwardEffect, RegistrySame
  <1>30. ASSUME NEW s \in Sessions, Deliver(s) PROVE RegistryInv'
    BY <1>30, DeliverEffect, RegistrySame
  <1>31. CASE UNCHANGED vars
    BY <1>31, RegistrySame DEF vars, NoSourceBut, Alike, Types
  <1>32. QED
    BY <1>1, <1>2, <1>3, <1>4, <1>5, <1>6, <1>7, <1>8, <1>9, <1>10, <1>11,
       <1>12, <1>13, <1>14, <1>15, <1>16, <1>17, <1>18, <1>19, <1>20, <1>21,
       <1>22, <1>23, <1>24, <1>25, <1>26, <1>27, <1>28, <1>29, <1>30, <1>31
       DEF Next, Handlers

-----------------------------------------------------------------------------
(* Hearing.                                                                  *)

\* The name of a source that was created does not change.
LEMMA StreamStays ==
  ASSUME Types, Inv, [Next]_vars
  PROVE  \A m \in Sessions : Made(m) => ss'[m].stream = ss[m].stream
  <1> SUFFICES ASSUME \A s \in Sessions : StageOf(s)
               PROVE  \A m \in Sessions : Made(m) => ss'[m].stream = ss[m].stream
    BY DEF Inv, StageInv
  <1>1. ASSUME NEW s \in Sessions, NEW n \in Names \cup {None}, InvokePublish(s, n)
        PROVE  \A m \in Sessions : Made(m) => ss'[m].stream = ss[m].stream
    BY <1>1 DEF InvokePublish
  <1>2. ASSUME NEW s \in Sessions, NEW n \in Names \cup {None}, InvokePlay(s, n)
        PROVE  \A m \in Sessions : Made(m) => ss'[m].stream = ss[m].stream
    BY <1>2 DEF InvokePlay
  <1>3. ASSUME NEW s \in Sessions, OnMedia(s)
        PROVE  \A m \in Sessions : Made(m) => ss'[m].stream = ss[m].stream
    BY <1>3, OnMediaEffect
  <1>4. ASSUME NEW s \in Sessions, ReleaseStream(s)
        PROVE  \A m \in Sessions : Made(m) => ss'[m].stream = ss[m].stream
    BY <1>4 DEF ReleaseStream
  <1>5. ASSUME NEW s \in Sessions, WriteCompleted(s)
        PROVE  \A m \in Sessions : Made(m) => ss'[m].stream = ss[m].stream
    BY <1>5 DEF WriteCompleted
  <1>6. ASSUME NEW s \in Sessions, OnClose(s)
        PROVE  \A m \in Sessions : Made(m) => ss'[m].stream = ss[m].stream
    BY <1>6 DEF OnClose
  <1>7. ASSUME NEW s \in Sessions, Publish(s)
        PROVE  \A m \in Sessions : Made(m) => ss'[m].stream = ss[m].stream
    <2>1. /\ Head(inbox[s]) = inbox[s][1] /\ inbox[s][1].kind = "publish"
          /\ 1 \in 1..Len(inbox[s])
      BY <1>7, PublishEffect, TakenEffect DEF Types, NetOK
    <2>2. ~ss[s].srcCtx
      BY <2>1 DEF Inv, LifeInv, LifeOf
    <2>3. QED
      BY <1>7, <2>2, PublishEffect DEF Made, SessionBut
  <1>8. ASSUME NEW s \in Sessions, IsExist(s)
        PROVE  \A m \in Sessions : Made(m) => ss'[m].stream = ss[m].stream
    <2>1. ss[s].stream # None
      BY <1>8, StreamKnown DEF IsExist
    <2>2. QED
      BY <1>8, <2>1, IsExistEffect, StageOf(s)
         DEF Made, StageOf, SessionBut
  <1>9. ASSUME NEW s \in Sessions, Kick(s)
        PROVE  \A m \in Sessions : Made(m) => ss'[m].stream = ss[m].stream
    <2>1. ss[s].stream # None
      BY <1>9, StreamKnown DEF Kick
    <2>2. QED
      BY <1>9, <2>1, KickEffect, StageOf(s)
         DEF Made, StageOf, SessionBut
  <1>10. ASSUME NEW s \in Sessions, KickTest(s)
         PROVE  \A m \in Sessions : Made(m) => ss'[m].stream = ss[m].stream
    <2>1. QED
      BY <1>10, KickTestEffect, StageOf(s)
         DEF Made, StageOf, SessionBut
  <1>11. ASSUME NEW s \in Sessions, KickForce(s)
         PROVE  \A m \in Sessions : Made(m) => ss'[m].stream = ss[m].stream
    <2>1. QED
      BY <1>11, KickForceEffect, StageOf(s)
         DEF Made, StageOf, SessionBut
  <1>12. ASSUME NEW s \in Sessions, Create(s)
         PROVE  \A m \in Sessions : Made(m) => ss'[m].stream = ss[m].stream
    <2>1. QED
      BY <1>12, CreateEffect, StageOf(s)
         DEF Made, StageOf, SessionBut
  <1>13. ASSUME NEW s \in Sessions, Add(s)
         PROVE  \A m \in Sessions : Made(m) => ss'[m].stream = ss[m].stream
    <2>1. ss[s].stream # None
      BY <1>13, StreamKnown DEF Add
    <2>2. QED
      BY <1>13, <2>1, AddEffect, StageOf(s)
         DEF Made, StageOf, SessionBut
  <1>14. ASSUME NEW s \in Sessions, Attach(s)
         PROVE  \A m \in Sessions : Made(m) => ss'[m].stream = ss[m].stream
    <2>1. QED
      BY <1>14, AttachEffect, StageOf(s)
         DEF Made, StageOf, SessionBut
  <1>15. ASSUME NEW s \in Sessions, CloseSrcCtx(s)
         PROVE  \A m \in Sessions : Made(m) => ss'[m].stream = ss[m].stream
    <2>1. th[s].target # None
      BY <1>15, TargetKnown DEF CloseSrcCtx
    <2>2. QED
      BY <1>15, <2>1, CloseSrcCtxThread, CloseSrcCtxFields, StageOf(s)
         DEF Made, StageOf, SessionBut
  <1>16. ASSUME NEW s \in Sessions, CloseAllClients(s)
         PROVE  \A m \in Sessions : Made(m) => ss'[m].stream = ss[m].stream
    <2>1. th[s].target # None
      BY <1>16, TargetKnown DEF CloseAllClients
    <2>2. QED
      BY <1>16, <2>1, CloseAllClientsEffect, StageOf(s)
         DEF Made, StageOf, SessionBut
  <1>17. ASSUME NEW s \in Sessions, Drain(s)
         PROVE  \A m \in Sessions : Made(m) => ss'[m].stream = ss[m].stream
    <2>1. th[s].target # None
      BY <1>17, TargetKnown DEF Drain
    <2>2. QED
      BY <1>17, <2>1, DrainEffect, StageOf(s)
         DEF Made, StageOf, SessionBut
  <1>18. ASSUME NEW s \in Sessions, Closed(s)
         PROVE  \A m \in Sessions : Made(m) => ss'[m].stream = ss[m].stream
    <2>1. th[s].target # None
      BY <1>18, TargetKnown DEF Closed
    <2>2. QED
      BY <1>18, <2>1, ClosedEffect, StageOf(s)
         DEF Made, StageOf, SessionBut
  <1>19. ASSUME NEW s \in Sessions, Play(s)
         PROVE  \A m \in Sessions : Made(m) => ss'[m].stream = ss[m].stream
    <2>1. QED
      BY <1>19, PlayEffect, StageOf(s)
         DEF Made, StageOf, SessionBut
  <1>20. ASSUME NEW s \in Sessions, GetMdSource(s)
         PROVE  \A m \in Sessions : Made(m) => ss'[m].stream = ss[m].stream
    <2>1. ss[s].stream # None
      BY <1>20, StreamKnown DEF GetMdSource
    <2>2. QED
      BY <1>20, <2>1, GetMdSourceEffect, StageOf(s)
         DEF Made, StageOf, SessionBut
  <1>21. ASSUME NEW s \in Sessions, PlayOpened(s)
         PROVE  \A m \in Sessions : Made(m) => ss'[m].stream = ss[m].stream
    <2>1. QED
      BY <1>21, PlayOpenedEffect, StageOf(s)
         DEF Made, StageOf, SessionBut
  <1>22. ASSUME NEW s \in Sessions, Join(s)
         PROVE  \A m \in Sessions : Made(m) => ss'[m].stream = ss[m].stream
    <2>1. QED
      BY <1>22, JoinEffect, StageOf(s)
         DEF Made, StageOf, SessionBut
  <1>23. ASSUME NEW s \in Sessions, JoinAdd(s)
         PROVE  \A m \in Sessions : Made(m) => ss'[m].stream = ss[m].stream
    <2>1. th[s].src # None
      BY <1>23, SourceKnown DEF JoinAdd
    <2>2. QED
      BY <1>23, <2>1, JoinAddEffect, StageOf(s)
         DEF Made, StageOf, SessionBut
  <1>24. ASSUME NEW s \in Sessions, ReallyClose(s)
         PROVE  \A m \in Sessions : Made(m) => ss'[m].stream = ss[m].stream
    <2>1. QED
      BY <1>24, ReallyCloseEffect, StageOf(s)
         DEF Made, StageOf, SessionBut
  <1>25. ASSUME NEW s \in Sessions, ClearSrcCtx(s)
         PROVE  \A m \in Sessions : Made(m) => ss'[m].stream = ss[m].stream
    <2>1. th[s].target # None
      BY <1>25, TargetKnown DEF ClearSrcCtx
    <2>2. QED
      BY <1>25, <2>1, ClearSrcCtxEffect, StageOf(s)
         DEF Made, StageOf, SessionBut
  <1>26. ASSUME NEW s \in Sessions, RemoveMdSource(s)
         PROVE  \A m \in Sessions : Made(m) => ss'[m].stream = ss[m].stream
    <2>1. QED
      BY <1>26, RemoveMdSourceEffect, StageOf(s)
         DEF Made, StageOf, SessionBut
  <1>27. ASSUME NEW s \in Sessions, RemoveClientSession(s)
         PROVE  \A m \in Sessions : Made(m) => ss'[m].stream = ss[m].stream
    <2>1. th[s].target # None
      BY <1>27, TargetKnown DEF RemoveClientSession
    <2>2. QED
      BY <1>27, <2>1, RemoveClientSessionEffect, StageOf(s)
         DEF Made, StageOf, SessionBut
  <1>28. ASSUME NEW s \in Sessions, Destroy(s)
         PROVE  \A m \in Sessions : Made(m) => ss'[m].stream = ss[m].stream
    <2>1. ~ss[s].inMd
      BY <1>28, NotListed DEF Destroy
    <2>2. QED
      BY <1>28, <2>1, DestroyEffect, StageOf(s)
         DEF Made, StageOf, SessionBut
  <1>29. ASSUME NEW s \in Sessions, Forward(s)
         PROVE  \A m \in Sessions : Made(m) => ss'[m].stream = ss[m].stream
    BY <1>29, ForwardEffect
  <1>30. ASSUME NEW s \in Sessions, Deliver(s)
         PROVE  \A m \in Sessions : Made(m) => ss'[m].stream = ss[m].stream
    BY <1>30, DeliverEffect
  <1>31. CASE UNCHANGED vars
    BY <1>31 DEF vars
  <1>32. QED
    BY <1>1, <1>2, <1>3, <1>4, <1>5, <1>6, <1>7, <1>8, <1>9, <1>10, <1>11,
       <1>12, <1>13, <1>14, <1>15, <1>16, <1>17, <1>18, <1>19, <1>20, <1>21,
       <1>22, <1>23, <1>24, <1>25, <1>26, <1>27, <1>28, <1>29, <1>30, <1>31
       DEF Next, Handlers

\* What a client has asked to play stays in its list.
AskedKept(p) ==
    \A i \in 1..Len(asked[p]) : i \in 1..Len(asked'[p]) /\ asked'[p][i] = asked[p][i]

LEMMA AskedStays ==
  ASSUME Types, [Next]_vars
  PROVE  \A p \in Sessions : AskedKept(p)
  <1>1. ASSUME NEW s \in Sessions, NEW n \in Names \cup {None}, InvokePublish(s, n)
        PROVE  \A p \in Sessions : AskedKept(p)
    BY <1>1 DEF InvokePublish, AskedKept, net
  <1>2. ASSUME NEW s \in Sessions, NEW n \in Names \cup {None}, InvokePlay(s, n)
        PROVE  \A p \in Sessions : AskedKept(p)
    <2>1. asked' = [asked EXCEPT ![s] = Append(@, n)] /\ asked[s] \in Seq(Names \cup {None})
      BY <1>2 DEF InvokePlay, Types, NetOK
    <2>2. /\ \A t \in Sessions \ {s} : asked'[t] = asked[t]
          /\ asked'[s] = Append(asked[s], n)
      BY <2>1 DEF Types, NetOK
    <2>3. /\ Len(asked'[s]) = Len(asked[s]) + 1
          /\ \A i \in 1..Len(asked[s]) : i \in 1..Len(asked'[s]) /\ asked'[s][i] = asked[s][i]
      BY <2>1, <2>2
    <2>4. QED
      BY <2>2, <2>3 DEF AskedKept
  <1>3. ASSUME NEW s \in Sessions, OnMedia(s) PROVE \A p \in Sessions : AskedKept(p)
    BY <1>3 DEF OnMedia, AskedKept, net
  <1>4. ASSUME NEW s \in Sessions, ReleaseStream(s) PROVE \A p \in Sessions : AskedKept(p)
    BY <1>4 DEF ReleaseStream, AskedKept, net
  <1>5. ASSUME NEW s \in Sessions, WriteCompleted(s) PROVE \A p \in Sessions : AskedKept(p)
    BY <1>5 DEF WriteCompleted, AskedKept, net
  <1>6. ASSUME NEW s \in Sessions, OnClose(s) PROVE \A p \in Sessions : AskedKept(p)
    BY <1>6 DEF OnClose, AskedKept, net
  <1>7. ASSUME NEW s \in Sessions, Publish(s) PROVE \A p \in Sessions : AskedKept(p)
    BY <1>7 DEF Publish, AskedKept, net
  <1>8. ASSUME NEW s \in Sessions, IsExist(s) PROVE \A p \in Sessions : AskedKept(p)
    BY <1>8 DEF IsExist, AskedKept, net
  <1>9. ASSUME NEW s \in Sessions, Kick(s) PROVE \A p \in Sessions : AskedKept(p)
    BY <1>9 DEF Kick, AskedKept, net
  <1>10. ASSUME NEW s \in Sessions, KickTest(s) PROVE \A p \in Sessions : AskedKept(p)
    BY <1>10 DEF KickTest, AskedKept, net
  <1>11. ASSUME NEW s \in Sessions, KickForce(s) PROVE \A p \in Sessions : AskedKept(p)
    BY <1>11 DEF KickForce, AskedKept, net
  <1>12. ASSUME NEW s \in Sessions, Create(s) PROVE \A p \in Sessions : AskedKept(p)
    BY <1>12 DEF Create, AskedKept, net
  <1>13. ASSUME NEW s \in Sessions, Add(s) PROVE \A p \in Sessions : AskedKept(p)
    BY <1>13 DEF Add, AskedKept, net
  <1>14. ASSUME NEW s \in Sessions, Attach(s) PROVE \A p \in Sessions : AskedKept(p)
    BY <1>14 DEF Attach, AskedKept, net
  <1>15. ASSUME NEW s \in Sessions, CloseSrcCtx(s) PROVE \A p \in Sessions : AskedKept(p)
    BY <1>15 DEF CloseSrcCtx, AskedKept, net
  <1>16. ASSUME NEW s \in Sessions, CloseAllClients(s) PROVE \A p \in Sessions : AskedKept(p)
    BY <1>16 DEF CloseAllClients, AskedKept, net
  <1>17. ASSUME NEW s \in Sessions, Drain(s) PROVE \A p \in Sessions : AskedKept(p)
    BY <1>17 DEF Drain, AskedKept, net
  <1>18. ASSUME NEW s \in Sessions, Closed(s) PROVE \A p \in Sessions : AskedKept(p)
    BY <1>18 DEF Closed, AskedKept, net
  <1>19. ASSUME NEW s \in Sessions, Play(s) PROVE \A p \in Sessions : AskedKept(p)
    BY <1>19 DEF Play, AskedKept, net
  <1>20. ASSUME NEW s \in Sessions, GetMdSource(s) PROVE \A p \in Sessions : AskedKept(p)
    BY <1>20 DEF GetMdSource, AskedKept, net
  <1>21. ASSUME NEW s \in Sessions, PlayOpened(s) PROVE \A p \in Sessions : AskedKept(p)
    BY <1>21 DEF PlayOpened, AskedKept, net
  <1>22. ASSUME NEW s \in Sessions, Join(s) PROVE \A p \in Sessions : AskedKept(p)
    BY <1>22 DEF Join, AskedKept, net
  <1>23. ASSUME NEW s \in Sessions, JoinAdd(s) PROVE \A p \in Sessions : AskedKept(p)
    BY <1>23 DEF JoinAdd, AskedKept, net
  <1>24. ASSUME NEW s \in Sessions, ReallyClose(s) PROVE \A p \in Sessions : AskedKept(p)
    BY <1>24 DEF ReallyClose, AskedKept, net
  <1>25. ASSUME NEW s \in Sessions, ClearSrcCtx(s) PROVE \A p \in Sessions : AskedKept(p)
    BY <1>25 DEF ClearSrcCtx, AskedKept, net
  <1>26. ASSUME NEW s \in Sessions, RemoveMdSource(s) PROVE \A p \in Sessions : AskedKept(p)
    BY <1>26 DEF RemoveMdSource, AskedKept, net
  <1>27. ASSUME NEW s \in Sessions, RemoveClientSession(s)
         PROVE  \A p \in Sessions : AskedKept(p)
    BY <1>27 DEF RemoveClientSession, AskedKept, net
  <1>28. ASSUME NEW s \in Sessions, Destroy(s) PROVE \A p \in Sessions : AskedKept(p)
    BY <1>28 DEF Destroy, AskedKept, net
  <1>29. ASSUME NEW s \in Sessions, Forward(s) PROVE \A p \in Sessions : AskedKept(p)
    BY <1>29 DEF Forward, AskedKept, net
  <1>30. ASSUME NEW s \in Sessions, Deliver(s) PROVE \A p \in Sessions : AskedKept(p)
    BY <1>30 DEF Deliver, AskedKept, net
  <1>31. CASE UNCHANGED vars
    BY <1>31 DEF vars, net, AskedKept
  <1>32. QED
    BY <1>1, <1>2, <1>3, <1>4, <1>5, <1>6, <1>7, <1>8, <1>9, <1>10, <1>11,
       <1>12, <1>13, <1>14, <1>15, <1>16, <1>17, <1>18, <1>19, <1>20, <1>21,
       <1>22, <1>23, <1>24, <1>25, <1>26, <1>27, <1>28, <1>29, <1>30, <1>31
       DEF Next, Handlers

LEMMA PlayKept ==
  ASSUME Types, Inv, NEW p \in Sessions, AskedKept(p),
         \A m \in Sessions : Made(m) => ss'[m].stream = ss[m].stream,
         ss'[p].mdsrc \in {ss[p].mdsrc, None}, ss[p].srcCtx => ss'[p].srcCtx,
         th'[p].pc = "find" => th[p].pc = "find" /\ ss'[p].stream = ss[p].stream,
         \A i \in 1..Len(inbox'[p]) : \E j \in 1..Len(inbox[p]) : inbox'[p][i] = inbox[p][j],
         ss'[p].mdsrc = ss[p].mdsrc \/ ss'[p].srcCtx \/ inbox[p] = <<>>
  PROVE  PlayOf(p)'
  <1>1. PlayOf(p) /\ SourceOf(p) /\ ss[p].mdsrc \in Sessions \cup {None}
    BY DEF Inv, HearingInv, SourceInv, Types, SessionFields
  <1>2. ASSUME ss'[p].mdsrc # None, ~ss'[p].srcCtx
        PROVE  Asked(p, ss[ss[p].mdsrc].stream)'
    <2>1. PICK m \in Sessions : m = ss[p].mdsrc
      BY <1>1, <1>2
    <2>2. ss'[p].mdsrc = m /\ ss'[m].stream = ss[m].stream /\ Asked(p, ss[m].stream)
      BY <1>1, <1>2, <2>1 DEF SourceOf, PlayOf
    <2>3. Asked(p, ss[m].stream)'
      BY <2>2 DEF AskedKept, Asked
    <2>4. QED
      BY <2>2, <2>3
  <1>3. th'[p].pc = "find" => Asked(p, ss[p].stream)'
    BY <1>1 DEF PlayOf, AskedKept, Asked
  <1>4. ASSUME NEW i \in 1..Len(inbox'[p]), inbox'[p][i].kind = "play"
        PROVE  /\ Asked(p, inbox[p][i].name)'
               /\ inbox'[p][i].src # None => ss'[p].srcCtx \/ ss'[p].mdsrc = inbox'[p][i].src
    <2>1. PICK j \in 1..Len(inbox[p]) : inbox'[p][i] = inbox[p][j]
      BY <1>4
    <2>2. /\ Asked(p, inbox[p][j].name)
          /\ inbox[p][j].src # None => ss[p].srcCtx \/ ss[p].mdsrc = inbox[p][j].src
      BY <1>1, <1>4, <2>1 DEF PlayOf
    <2>3. inbox[p] # <<>>
      BY <2>1
    <2>4. Asked(p, inbox[p][i].name)'
      BY <2>1, <2>2 DEF AskedKept, Asked
    <2>5. QED
      BY <2>1, <2>2, <2>3, <2>4
  <1>5. QED
    BY <1>2, <1>3, <1>4 DEF PlayOf

LEMMA PlaysStep ==
  ASSUME Types, Inv, [Next]_vars
  PROVE  \A p \in Sessions : PlayOf(p)'
  <1> SUFFICES ASSUME \A s \in Sessions : PlayOf(s) /\ StageOf(s) /\ AskedKept(s),
                      \A m \in Sessions : Made(m) => ss'[m].stream = ss[m].stream
               PROVE  \A p \in Sessions : PlayOf(p)'
    BY AskedStays, StreamStays DEF Inv, HearingInv, StageInv
  <1>1. ASSUME NEW s \in Sessions, NEW n \in Names \cup {None}, InvokePublish(s, n)
        PROVE  \A p \in Sessions : PlayOf(p)'
    <2>1. Post(s, "publish", n) /\ UNCHANGED <<ss, th>>
      BY <1>1 DEF InvokePublish
    <2>2. PlayOf(s)'
      <3>1. /\ inbox[s] \in Seq(Events) /\ Len(inbox'[s]) = Len(inbox[s]) + 1
            /\ \A i \in 1..Len(inbox[s]) : inbox'[s][i] = inbox[s][i]
            /\ inbox'[s][Len(inbox'[s])] = Event("publish", n, ss[s].mdsrc)
        BY <2>1, PostEffect DEF Types, NetOK
      <3>2. /\ ss'[s].mdsrc # None /\ ~ss'[s].srcCtx => Asked(s, ss[ss[s].mdsrc].stream)'
            /\ th'[s].pc = "find" => Asked(s, ss[s].stream)'
        BY <2>1, PlayOf(s), AskedKept(s) DEF PlayOf, AskedKept, Asked
      <3>3. ASSUME NEW i \in 1..Len(inbox'[s]), inbox'[s][i].kind = "play"
            PROVE  /\ Asked(s, inbox[s][i].name)'
                   /\ inbox'[s][i].src # None =>
                        ss'[s].srcCtx \/ ss'[s].mdsrc = inbox'[s][i].src
        <4>1. CASE i # Len(inbox'[s])
          <5>1. i \in 1..Len(inbox[s]) /\ inbox'[s][i] = inbox[s][i]
            BY <3>1, <4>1
          <5>2. /\ Asked(s, inbox[s][i].name)
                /\ inbox[s][i].src # None => ss[s].srcCtx \/ ss[s].mdsrc = inbox[s][i].src
            BY <3>3, <5>1, PlayOf(s) DEF PlayOf
          <5>3. QED
            BY <2>1, <5>1, <5>2, AskedKept(s) DEF AskedKept, Asked
        <4>2. CASE i = Len(inbox'[s])
          BY <3>1, <3>3, <4>2 DEF Event
        <4>3. QED
          BY <4>1, <4>2
      <3>4. QED
        BY <3>2, <3>3 DEF PlayOf
    <2>3. ASSUME NEW t \in Sessions \ {s}
          PROVE  PlayOf(t)'
      BY <2>1, PostEffect, PlayKept
    <2>4. QED
      BY <2>2, <2>3
  <1>2. ASSUME NEW s \in Sessions, NEW n \in Names \cup {None}, InvokePlay(s, n)
        PROVE  \A p \in Sessions : PlayOf(p)'
    <2>1. Post(s, "play", n) /\ UNCHANGED <<ss, th>>
      BY <1>2 DEF InvokePlay
    <2>2. PlayOf(s)'
      <3>1. /\ inbox[s] \in Seq(Events) /\ Len(inbox'[s]) = Len(inbox[s]) + 1
            /\ \A i \in 1..Len(inbox[s]) : inbox'[s][i] = inbox[s][i]
            /\ inbox'[s][Len(inbox'[s])] = Event("play", n, ss[s].mdsrc)
        BY <2>1, PostEffect DEF Types, NetOK
      <3>2. /\ ss'[s].mdsrc # None /\ ~ss'[s].srcCtx => Asked(s, ss[ss[s].mdsrc].stream)'
            /\ th'[s].pc = "find" => Asked(s, ss[s].stream)'
        BY <2>1, PlayOf(s), AskedKept(s) DEF PlayOf, AskedKept, Asked
      <3>3. ASSUME NEW i \in 1..Len(inbox'[s]), inbox'[s][i].kind = "play"
            PROVE  /\ Asked(s, inbox[s][i].name)'
                   /\ inbox'[s][i].src # None =>
                        ss'[s].srcCtx \/ ss'[s].mdsrc = inbox'[s][i].src
        <4>1. CASE i # Len(inbox'[s])
          <5>1. i \in 1..Len(inbox[s]) /\ inbox'[s][i] = inbox[s][i]
            BY <3>1, <4>1
          <5>2. /\ Asked(s, inbox[s][i].name)
                /\ inbox[s][i].src # None => ss[s].srcCtx \/ ss[s].mdsrc = inbox[s][i].src
            BY <3>3, <5>1, PlayOf(s) DEF PlayOf
          <5>3. QED
            BY <2>1, <5>1, <5>2, AskedKept(s) DEF AskedKept, Asked
        <4>2. CASE i = Len(inbox'[s])
          <5>1. inbox'[s][i].name = n /\ inbox'[s][i].src = ss[s].mdsrc
            BY <3>1, <4>2 DEF Event
          <5>2. asked[s] \in Seq(Names \cup {None}) /\ asked'[s] = Append(asked[s], n)
            BY <1>2 DEF InvokePlay, Types, NetOK
          <5>3. Len(asked'[s]) \in 1..Len(asked'[s]) /\ asked'[s][Len(asked'[s])] = n
            BY <5>2
          <5>4. QED
            BY <2>1, <5>1, <5>3 DEF Asked
        <4>3. QED
          BY <4>1, <4>2
      <3>4. QED
        BY <3>2, <3>3 DEF PlayOf
    <2>3. ASSUME NEW t \in Sessions \ {s}
          PROVE  PlayOf(t)'
      BY <2>1, PostEffect, PlayKept
    <2>4. QED
      BY <2>2, <2>3
  <1>3. ASSUME NEW s \in Sessions, OnMedia(s) PROVE \A p \in Sessions : PlayOf(p)'
    BY <1>3, OnMediaEffect, PlayKept
  <1>4. ASSUME NEW s \in Sessions, ReleaseStream(s) PROVE \A p \in Sessions : PlayOf(p)'
    BY <1>4, PlayKept DEF ReleaseStream
  <1>5. ASSUME NEW s \in Sessions, WriteCompleted(s) PROVE \A p \in Sessions : PlayOf(p)'
    BY <1>5, PlayKept DEF WriteCompleted
  <1>6. ASSUME NEW s \in Sessions, OnClose(s) PROVE \A p \in Sessions : PlayOf(p)'
    <2>1. Post(s, "close", None) /\ UNCHANGED <<ss, th>>
      BY <1>6 DEF OnClose
    <2>2. PlayOf(s)'
      <3>1. /\ inbox[s] \in Seq(Events) /\ Len(inbox'[s]) = Len(inbox[s]) + 1
            /\ \A i \in 1..Len(inbox[s]) : inbox'[s][i] = inbox[s][i]
            /\ inbox'[s][Len(inbox'[s])] = Event("close", None, ss[s].mdsrc)
        BY <2>1, PostEffect DEF Types, NetOK
      <3>2. /\ ss'[s].mdsrc # None /\ ~ss'[s].srcCtx => Asked(s, ss[ss[s].mdsrc].stream)'
            /\ th'[s].pc = "find" => Asked(s, ss[s].stream)'
        BY <2>1, PlayOf(s), AskedKept(s) DEF PlayOf, AskedKept, Asked
      <3>3. ASSUME NEW i \in 1..Len(inbox'[s]), inbox'[s][i].kind = "play"
            PROVE  /\ Asked(s, inbox[s][i].name)'
                   /\ inbox'[s][i].src # None =>
                        ss'[s].srcCtx \/ ss'[s].mdsrc = inbox'[s][i].src
        <4>1. CASE i # Len(inbox'[s])
          <5>1. i \in 1..Len(inbox[s]) /\ inbox'[s][i] = inbox[s][i]
            BY <3>1, <4>1
          <5>2. /\ Asked(s, inbox[s][i].name)
                /\ inbox[s][i].src # None => ss[s].srcCtx \/ ss[s].mdsrc = inbox[s][i].src
            BY <3>3, <5>1, PlayOf(s) DEF PlayOf
          <5>3. QED
            BY <2>1, <5>1, <5>2, AskedKept(s) DEF AskedKept, Asked
        <4>2. CASE i = Len(inbox'[s])
          BY <3>1, <3>3, <4>2 DEF Event
        <4>3. QED
          BY <4>1, <4>2
      <3>4. QED
        BY <3>2, <3>3 DEF PlayOf
    <2>3. ASSUME NEW t \in Sessions \ {s}
          PROVE  PlayOf(t)'
      BY <2>1, PostEffect, PlayKept
    <2>4. QED
      BY <2>2, <2>3
  <1>7. ASSUME NEW s \in Sessions, Publish(s) PROVE \A p \in Sessions : PlayOf(p)'
    <2>1. /\ \A i \in 1..Len(inbox'[s]) :
               \E j \in 1..Len(inbox[s]) : inbox'[s][i] = inbox[s][j]
          /\ \A t \in Sessions \ {s} : inbox'[t] = inbox[t]
      BY <1>7, PublishEffect, TakenEffect, TakenSource DEF Inv, SourceInv
    <2>2. th[s].pc = "idle"
      BY <1>7, PublishEffect DEF IsNext
    <2>3. PlayOf(s)'
      <3>1. /\ ss'[s].mdsrc \in {ss[s].mdsrc, None} /\ (ss[s].srcCtx => ss'[s].srcCtx)
            /\ th'[s].pc # "find" /\ (ss'[s].mdsrc = ss[s].mdsrc \/ ss'[s].srcCtx)
        BY <1>7, <2>2, PublishEffect DEF SessionBut, ThreadAt
      <3>2. QED
        BY <2>1, <3>1, PlayKept
    <2>4. ASSUME NEW t \in Sessions \ {s}
          PROVE  PlayOf(t)'
      BY <1>7, <2>1, PublishEffect, PlayKept DEF SessionBut, ThreadAt
    <2>5. QED
      BY <2>3, <2>4
  <1>8. ASSUME NEW s \in Sessions, IsExist(s) PROVE \A p \in Sessions : PlayOf(p)'
    <2>1. ss[s].stream # None
      BY <1>8, StreamKnown DEF IsExist
    <2>2. ASSUME NEW p \in Sessions
          PROVE  PlayOf(p)'
      BY SMTT(60), <1>8, <2>1, IsExistEffect, PlayKept, StageOf(s)
         DEF SessionBut, ThreadTo, ThreadDone, ThreadAt, StageOf
    <2>3. QED
      BY <2>2
  <1>9. ASSUME NEW s \in Sessions, Kick(s) PROVE \A p \in Sessions : PlayOf(p)'
    <2>1. ss[s].stream # None
      BY <1>9, StreamKnown DEF Kick
    <2>2. ASSUME NEW p \in Sessions
          PROVE  PlayOf(p)'
      BY <1>9, <2>1, KickEffect, PlayKept, StageOf(s)
         DEF SessionBut, ThreadTo, ThreadDone, ThreadAt, StageOf
    <2>3. QED
      BY <2>2
  <1>10. ASSUME NEW s \in Sessions, KickTest(s) PROVE \A p \in Sessions : PlayOf(p)'
    <2>1. ASSUME NEW p \in Sessions
          PROVE  PlayOf(p)'
      BY <1>10, KickTestEffect, PlayKept, StageOf(s)
         DEF SessionBut, ThreadTo, ThreadDone, ThreadAt, StageOf
    <2>2. QED
      BY <2>1
  <1>11. ASSUME NEW s \in Sessions, KickForce(s) PROVE \A p \in Sessions : PlayOf(p)'
    <2>1. ASSUME NEW p \in Sessions
          PROVE  PlayOf(p)'
      BY <1>11, KickForceEffect, PlayKept, StageOf(s)
         DEF SessionBut, ThreadTo, ThreadDone, ThreadAt, StageOf
    <2>2. QED
      BY <2>1
  <1>12. ASSUME NEW s \in Sessions, Create(s) PROVE \A p \in Sessions : PlayOf(p)'
    <2>1. /\ SessionBut(s, {"mdsrc"}) /\ th'[s].pc = "add" /\ inbox' = inbox
          /\ \A t \in Sessions \ {s} : th'[t] = th[t]
      BY <1>12, CreateEffect DEF ThreadAt
    <2>2. ss[s].srcCtx
      BY <1>12, CreateEffect, StageOf(s) DEF StageOf
    <2>3. PlayOf(s)'
      <3>1. ss'[s].srcCtx
        BY <2>1, <2>2 DEF SessionBut
      <3>2. ASSUME NEW i \in 1..Len(inbox[s]), inbox[s][i].kind = "play"
            PROVE  Asked(s, inbox[s][i].name)'
        BY <2>1, <3>2, PlayOf(s), AskedKept(s) DEF PlayOf, AskedKept, Asked
      <3>3. QED
        BY <2>1, <3>1, <3>2 DEF PlayOf
    <2>4. ASSUME NEW t \in Sessions \ {s}
          PROVE  PlayOf(t)'
      BY <2>1, PlayKept DEF SessionBut
    <2>5. QED
      BY <2>3, <2>4
  <1>13. ASSUME NEW s \in Sessions, Add(s) PROVE \A p \in Sessions : PlayOf(p)'
    <2>1. ss[s].stream # None
      BY <1>13, StreamKnown DEF Add
    <2>2. ASSUME NEW p \in Sessions
          PROVE  PlayOf(p)'
      BY <1>13, <2>1, AddEffect, PlayKept, StageOf(s)
         DEF SessionBut, ThreadTo, ThreadDone, ThreadAt, StageOf
    <2>3. QED
      BY <2>2
  <1>14. ASSUME NEW s \in Sessions, Attach(s) PROVE \A p \in Sessions : PlayOf(p)'
    <2>1. ASSUME NEW p \in Sessions
          PROVE  PlayOf(p)'
      BY <1>14, AttachEffect, PlayKept, StageOf(s)
         DEF SessionBut, ThreadTo, ThreadDone, ThreadAt, StageOf
    <2>2. QED
      BY <2>1
  <1>15. ASSUME NEW s \in Sessions, CloseSrcCtx(s) PROVE \A p \in Sessions : PlayOf(p)'
    <2>1. th[s].target # None
      BY <1>15, TargetKnown DEF CloseSrcCtx
    <2>2. ASSUME NEW p \in Sessions
          PROVE  PlayOf(p)'
      <3>1. /\ ss'[p].stream = ss[p].stream /\ ss'[p].mdsrc = ss[p].mdsrc
            /\ ss'[p].srcCtx = ss[p].srcCtx
        BY <1>15, <2>1, CloseSrcCtxFields
      <3>2. inbox' = inbox /\ (th'[p].pc = "find" => th[p].pc = "find")
        BY <1>15, <2>1, CloseSrcCtxEffect DEF ThreadTo, ThreadAt
      <3>3. QED
        BY <3>1, <3>2, PlayKept
    <2>3. QED
      BY <2>2
  <1>16. ASSUME NEW s \in Sessions, CloseAllClients(s) PROVE \A p \in Sessions : PlayOf(p)'
    <2>1. th[s].target # None
      BY <1>16, TargetKnown DEF CloseAllClients
    <2>2. ASSUME NEW p \in Sessions
          PROVE  PlayOf(p)'
      BY <1>16, <2>1, CloseAllClientsEffect, PlayKept, StageOf(s)
         DEF SessionBut, ThreadTo, ThreadDone, ThreadAt, StageOf
    <2>3. QED
      BY <2>2
  <1>17. ASSUME NEW s \in Sessions, Drain(s) PROVE \A p \in Sessions : PlayOf(p)'
    <2>1. th[s].target # None
      BY <1>17, TargetKnown DEF Drain
    <2>2. ASSUME NEW p \in Sessions
          PROVE  PlayOf(p)'
      <3>1. /\ ss'[p].stream = ss[p].stream /\ ss'[p].mdsrc = ss[p].mdsrc
            /\ ss'[p].srcCtx = ss[p].srcCtx
        BY <1>17, <2>1, DrainEffect
      <3>2. inbox' = inbox /\ (th'[p].pc = "find" => th[p].pc = "find")
        BY <1>17, <2>1, DrainEffect DEF ThreadTo, ThreadAt
      <3>3. QED
        BY <3>1, <3>2, PlayKept
    <2>3. QED
      BY <2>2
  <1>18. ASSUME NEW s \in Sessions, Closed(s) PROVE \A p \in Sessions : PlayOf(p)'
    <2>1. th[s].target # None
      BY <1>18, TargetKnown DEF Closed
    <2>2. ASSUME NEW p \in Sessions
          PROVE  PlayOf(p)'
      BY <1>18, <2>1, ClosedEffect, PlayKept, StageOf(s)
         DEF SessionBut, ThreadTo, ThreadDone, ThreadAt, StageOf
    <2>3. QED
      BY <2>2
  <1>19. ASSUME NEW s \in Sessions, Play(s) PROVE \A p \in Sessions : PlayOf(p)'
    <2>1. /\ \A i \in 1..Len(inbox'[s]) :
               \E j \in 1..Len(inbox[s]) : inbox'[s][i] = inbox[s][j]
          /\ \A t \in Sessions \ {s} : inbox'[t] = inbox[t]
      BY <1>19, PlayEffect, TakenEffect, TakenSource DEF Inv, SourceInv
    <2>2. /\ th[s].pc = "idle" /\ 1 \in 1..Len(inbox[s]) /\ inbox[s][1].kind = "play"
          /\ Head(inbox[s]) = inbox[s][1]
      BY <1>19, PlayEffect, TakenEffect DEF Types, NetOK
    <2>3. PlayOf(s)'
      <3>1. CASE UNCHANGED <<ss, th>>
        BY <2>1, <3>1, PlayKept
      <3>2. CASE ~UNCHANGED <<ss, th>>
        <4>1. /\ SessionBut(s, {"stream"}) /\ ss'[s].stream = Head(inbox[s]).name
          BY <1>19, <3>2, PlayEffect
        <4>2. Asked(s, ss[s].stream)'
          <5>1. Asked(s, inbox[s][1].name)
            BY <2>2, PlayOf(s) DEF PlayOf
          <5>2. QED
            BY <2>2, <4>1, <5>1, AskedKept(s) DEF AskedKept, Asked
        <4>3. ss'[s].mdsrc # None /\ ~ss'[s].srcCtx => Asked(s, ss[ss[s].mdsrc].stream)'
          <5>1. ASSUME ss'[s].mdsrc # None, ~ss'[s].srcCtx
                PROVE  Asked(s, ss[ss[s].mdsrc].stream)'
            <6>1. PICK m \in Sessions : m = ss[s].mdsrc /\ Made(m)
              BY <4>1, <5>1 DEF SessionBut, Types, SessionFields, Inv, SourceInv, SourceOf
            <6>2. Asked(s, ss[m].stream) /\ ss'[s].mdsrc = m /\ ss'[m].stream = ss[m].stream
              BY <4>1, <5>1, <6>1, PlayOf(s) DEF SessionBut, PlayOf, ConstantsAssumption
            <6>3. QED
              BY <6>2, AskedKept(s) DEF AskedKept, Asked
          <5>2. QED
            BY <5>1
        <4>4. ASSUME NEW i \in 1..Len(inbox'[s]), inbox'[s][i].kind = "play"
              PROVE  /\ Asked(s, inbox[s][i].name)'
                     /\ inbox'[s][i].src # None =>
                          ss'[s].srcCtx \/ ss'[s].mdsrc = inbox'[s][i].src
          <5>1. PICK j \in 1..Len(inbox[s]) : inbox'[s][i] = inbox[s][j]
            BY <2>1
          <5>2. /\ Asked(s, inbox[s][j].name)
                /\ inbox[s][j].src # None => ss[s].srcCtx \/ ss[s].mdsrc = inbox[s][j].src
            BY <4>4, <5>1, PlayOf(s) DEF PlayOf
          <5>3. QED
            BY <4>1, <5>1, <5>2, AskedKept(s) DEF AskedKept, Asked, SessionBut
        <4>5. QED
          BY <4>2, <4>3, <4>4 DEF PlayOf
      <3>3. QED
        BY <3>1, <3>2
    <2>4. ASSUME NEW t \in Sessions \ {s}
          PROVE  PlayOf(t)'
      <3>1. ss'[t] = ss[t] /\ th'[t] = th[t]
        BY <1>19, PlayEffect DEF SessionBut, ThreadAt
      <3>2. QED
        BY <2>1, <3>1, PlayKept
    <2>5. QED
      BY <2>3, <2>4
  <1>20. ASSUME NEW s \in Sessions, GetMdSource(s) PROVE \A p \in Sessions : PlayOf(p)'
    <2>1. ss[s].stream # None /\ ss[s].stream \in Keys
      BY <1>20, StreamKnown DEF GetMdSource, Types, SessionFields
    <2>2. /\ th[s].pc = "find" /\ SessionBut(s, {"mdsrc"}) /\ inbox' = inbox
          /\ ss'[s].mdsrc = streams[ss[s].stream] /\ th'[s].pc = "opened"
          /\ \A t \in Sessions \ {s} : th'[t] = th[t]
      BY <1>20, <2>1, GetMdSourceEffect DEF ThreadAt
    <2>3. PlayOf(s)'
      <3>1. Asked(s, ss[s].stream) /\ ss[s].mdsrc = None /\ ~ss[s].srcCtx
        BY <2>2, PlayOf(s), StageOf(s) DEF PlayOf, StageOf
      <3>2. ASSUME ss'[s].mdsrc # None
            PROVE  Asked(s, ss[ss[s].mdsrc].stream)'
        <4>1. PICK m \in Sessions : /\ m = streams[ss[s].stream] /\ Entered(m)
                                    /\ ss[m].stream = ss[s].stream
          BY <2>1, <2>2, <3>2 DEF Types, RegistryOK, Inv, RegistryInv, NameOf
        <4>2. ss'[m].stream = ss[s].stream /\ ss'[s].mdsrc = m
          BY <2>2, <4>1, EnteredMade
        <4>3. QED
          BY <3>1, <4>2, AskedKept(s) DEF AskedKept, Asked
      <3>3. ASSUME NEW i \in 1..Len(inbox[s]), inbox[s][i].kind = "play"
            PROVE  /\ Asked(s, inbox[s][i].name)'
                   /\ inbox[s][i].src = None
        <4>1. Asked(s, inbox[s][i].name) /\ inbox[s][i].src = None
          BY <3>1, <3>3, PlayOf(s) DEF PlayOf
        <4>2. QED
          BY <2>2, <4>1, AskedKept(s) DEF AskedKept, Asked
      <3>4. QED
        BY <2>2, <3>2, <3>3 DEF PlayOf
    <2>4. ASSUME NEW t \in Sessions \ {s}
          PROVE  PlayOf(t)'
      BY <2>2, PlayKept DEF SessionBut
    <2>5. QED
      BY <2>3, <2>4
  <1>21. ASSUME NEW s \in Sessions, PlayOpened(s) PROVE \A p \in Sessions : PlayOf(p)'
    <2>1. ASSUME NEW p \in Sessions
          PROVE  PlayOf(p)'
      BY <1>21, PlayOpenedEffect, PlayKept, StageOf(s)
         DEF SessionBut, ThreadTo, ThreadDone, ThreadAt, StageOf
    <2>2. QED
      BY <2>1
  <1>22. ASSUME NEW s \in Sessions, Join(s) PROVE \A p \in Sessions : PlayOf(p)'
    <2>1. ASSUME NEW p \in Sessions
          PROVE  PlayOf(p)'
      BY <1>22, JoinEffect, PlayKept, StageOf(s)
         DEF SessionBut, ThreadTo, ThreadDone, ThreadAt, StageOf
    <2>2. QED
      BY <2>1
  <1>23. ASSUME NEW s \in Sessions, JoinAdd(s) PROVE \A p \in Sessions : PlayOf(p)'
    <2>1. th[s].src # None
      BY <1>23, SourceKnown DEF JoinAdd
    <2>2. ASSUME NEW p \in Sessions
          PROVE  PlayOf(p)'
      BY SMTT(60), <1>23, <2>1, JoinAddEffect, PlayKept, StageOf(s)
         DEF SessionBut, ThreadTo, ThreadDone, ThreadAt, StageOf
    <2>3. QED
      BY <2>2
  <1>24. ASSUME NEW s \in Sessions, ReallyClose(s) PROVE \A p \in Sessions : PlayOf(p)'
    <2>1. /\ \A i \in 1..Len(inbox'[s]) :
               \E j \in 1..Len(inbox[s]) : inbox'[s][i] = inbox[s][j]
          /\ \A t \in Sessions \ {s} : inbox'[t] = inbox[t]
      BY <1>24, ReallyCloseEffect, TakenEffect, TakenSource DEF Inv, SourceInv
    <2>2. th[s].pc = "idle"
      BY <1>24, ReallyCloseEffect DEF IsNext
    <2>3. PlayOf(s)'
      <3>1. /\ ss'[s].mdsrc \in {ss[s].mdsrc, None} /\ (ss[s].srcCtx => ss'[s].srcCtx)
            /\ th'[s].pc # "find" /\ (ss'[s].mdsrc = ss[s].mdsrc \/ ss'[s].srcCtx)
        BY <1>24, <2>2, ReallyCloseEffect DEF SessionBut, ThreadAt
      <3>2. QED
        BY <2>1, <3>1, PlayKept
    <2>4. ASSUME NEW t \in Sessions \ {s}
          PROVE  PlayOf(t)'
      BY <1>24, <2>1, ReallyCloseEffect, PlayKept DEF SessionBut, ThreadAt
    <2>5. QED
      BY <2>3, <2>4
  <1>25. ASSUME NEW s \in Sessions, ClearSrcCtx(s) PROVE \A p \in Sessions : PlayOf(p)'
    <2>1. th[s].target # None
      BY <1>25, TargetKnown DEF ClearSrcCtx
    <2>2. ASSUME NEW p \in Sessions
          PROVE  PlayOf(p)'
      BY <1>25, <2>1, ClearSrcCtxEffect, PlayKept, StageOf(s)
         DEF SessionBut, ThreadTo, ThreadDone, ThreadAt, StageOf
    <2>3. QED
      BY <2>2
  <1>26. ASSUME NEW s \in Sessions, RemoveMdSource(s) PROVE \A p \in Sessions : PlayOf(p)'
    <2>1. ASSUME NEW p \in Sessions
          PROVE  PlayOf(p)'
      BY <1>26, RemoveMdSourceEffect, PlayKept, StageOf(s)
         DEF SessionBut, ThreadTo, ThreadDone, ThreadAt, StageOf
    <2>2. QED
      BY <2>1
  <1>27. ASSUME NEW s \in Sessions, RemoveClientSession(s) PROVE \A p \in Sessions : PlayOf(p)'
    <2>1. th[s].target # None
      BY <1>27, TargetKnown DEF RemoveClientSession
    <2>2. ASSUME NEW p \in Sessions
          PROVE  PlayOf(p)'
      BY SMTT(60), <1>27, <2>1, RemoveClientSessionEffect, PlayKept, StageOf(s)
         DEF SessionBut, ThreadTo, ThreadDone, ThreadAt, StageOf
    <2>3. QED
      BY <2>2
  <1>28. ASSUME NEW s \in Sessions, Destroy(s) PROVE \A p \in Sessions : PlayOf(p)'
    <2>1. ~ss[s].inMd
      BY <1>28, NotListed DEF Destroy
    <2>2. ASSUME NEW p \in Sessions
          PROVE  PlayOf(p)'
      BY <1>28, <2>1, DestroyEffect, PlayKept, StageOf(s)
         DEF SessionBut, ThreadTo, ThreadDone, ThreadAt, StageOf
    <2>3. QED
      BY <2>2
  <1>29. ASSUME NEW s \in Sessions, Forward(s) PROVE \A p \in Sessions : PlayOf(p)'
    BY <1>29, ForwardEffect, PlayKept
  <1>30. ASSUME NEW s \in Sessions, Deliver(s) PROVE \A p \in Sessions : PlayOf(p)'
    BY <1>30, DeliverEffect, PlayKept
  <1>31. CASE UNCHANGED vars
    BY <1>31, PlayKept DEF vars
  <1>32. QED
    BY <1>1, <1>2, <1>3, <1>4, <1>5, <1>6, <1>7, <1>8, <1>9, <1>10, <1>11,
       <1>12, <1>13, <1>14, <1>15, <1>16, <1>17, <1>18, <1>19, <1>20, <1>21,
       <1>22, <1>23, <1>24, <1>25, <1>26, <1>27, <1>28, <1>29, <1>30, <1>31
       DEF Next, Handlers

LEMMA PassedStep ==
  ASSUME Types, Inv, [Next]_vars
  PROVE  \A m \in Sessions : PassedOf(m)'
  <1> SUFFICES ASSUME \A m \in Sessions : PassedOf(m) /\ ContextOf(m)
               PROVE  \A m \in Sessions : PassedOf(m)'
    BY DEF Inv, HearingInv, SourceInv
  <1>1. ASSUME NEW s \in Sessions, NEW n \in Names \cup {None}, InvokePublish(s, n)
        PROVE  \A m \in Sessions : PassedOf(m)'
    BY <1>1 DEF InvokePublish, PassedOf, media
  <1>2. ASSUME NEW s \in Sessions, NEW n \in Names \cup {None}, InvokePlay(s, n)
        PROVE  \A m \in Sessions : PassedOf(m)'
    BY <1>2 DEF InvokePlay, PassedOf, media
  <1>3. ASSUME NEW s \in Sessions, OnMedia(s) PROVE \A m \in Sessions : PassedOf(m)'
    <2>1. PICK x \in Sessions : frames' = [frames EXCEPT ![x] = Append(@, s)]
      BY <1>3, OnMediaEffect
    <2>2. \A m \in Sessions : frames[m] # <<>> =>
            frames'[m] # <<>> /\ Head(frames'[m]) = Head(frames[m])
      <3>1. ASSUME NEW m \in Sessions, frames[m] # <<>>
            PROVE  frames'[m] # <<>> /\ Head(frames'[m]) = Head(frames[m])
        <4>1. frames[m] \in Seq(Sessions) /\ frames'[m] \in {frames[m], Append(frames[m], s)}
          BY <2>1 DEF Types, MediaOK
        <4>2. QED
          BY <3>1, <4>1
      <3>2. QED
        BY <3>1
    <2>3. passed' = passed
      BY <1>3, OnMediaEffect
    <2>4. QED
      BY <2>2, <2>3 DEF PassedOf
  <1>4. ASSUME NEW s \in Sessions, ReleaseStream(s) PROVE \A m \in Sessions : PassedOf(m)'
    BY <1>4 DEF ReleaseStream, PassedOf, media
  <1>5. ASSUME NEW s \in Sessions, WriteCompleted(s) PROVE \A m \in Sessions : PassedOf(m)'
    BY <1>5 DEF WriteCompleted, PassedOf, media
  <1>6. ASSUME NEW s \in Sessions, OnClose(s) PROVE \A m \in Sessions : PassedOf(m)'
    BY <1>6 DEF OnClose, PassedOf, media
  <1>7. ASSUME NEW s \in Sessions, Publish(s) PROVE \A m \in Sessions : PassedOf(m)'
    BY <1>7 DEF Publish, PassedOf, media
  <1>8. ASSUME NEW s \in Sessions, IsExist(s) PROVE \A m \in Sessions : PassedOf(m)'
    BY <1>8 DEF IsExist, PassedOf, media
  <1>9. ASSUME NEW s \in Sessions, Kick(s) PROVE \A m \in Sessions : PassedOf(m)'
    BY <1>9 DEF Kick, PassedOf, media
  <1>10. ASSUME NEW s \in Sessions, KickTest(s) PROVE \A m \in Sessions : PassedOf(m)'
    BY <1>10 DEF KickTest, PassedOf, media
  <1>11. ASSUME NEW s \in Sessions, KickForce(s) PROVE \A m \in Sessions : PassedOf(m)'
    BY <1>11 DEF KickForce, PassedOf, media
  <1>12. ASSUME NEW s \in Sessions, Create(s) PROVE \A m \in Sessions : PassedOf(m)'
    BY <1>12 DEF Create, PassedOf, media
  <1>13. ASSUME NEW s \in Sessions, Add(s) PROVE \A m \in Sessions : PassedOf(m)'
    BY <1>13 DEF Add, PassedOf, media
  <1>14. ASSUME NEW s \in Sessions, Attach(s) PROVE \A m \in Sessions : PassedOf(m)'
    BY <1>14 DEF Attach, PassedOf, media
  <1>15. ASSUME NEW s \in Sessions, CloseSrcCtx(s) PROVE \A m \in Sessions : PassedOf(m)'
    BY <1>15 DEF CloseSrcCtx, PassedOf, media
  <1>16. ASSUME NEW s \in Sessions, CloseAllClients(s) PROVE \A m \in Sessions : PassedOf(m)'
    BY <1>16 DEF CloseAllClients, PassedOf, media
  <1>17. ASSUME NEW s \in Sessions, Drain(s) PROVE \A m \in Sessions : PassedOf(m)'
    BY <1>17 DEF Drain, PassedOf, media
  <1>18. ASSUME NEW s \in Sessions, Closed(s) PROVE \A m \in Sessions : PassedOf(m)'
    BY <1>18 DEF Closed, PassedOf, media
  <1>19. ASSUME NEW s \in Sessions, Play(s) PROVE \A m \in Sessions : PassedOf(m)'
    BY <1>19 DEF Play, PassedOf, media
  <1>20. ASSUME NEW s \in Sessions, GetMdSource(s) PROVE \A m \in Sessions : PassedOf(m)'
    BY <1>20 DEF GetMdSource, PassedOf, media
  <1>21. ASSUME NEW s \in Sessions, PlayOpened(s) PROVE \A m \in Sessions : PassedOf(m)'
    BY <1>21 DEF PlayOpened, PassedOf, media
  <1>22. ASSUME NEW s \in Sessions, Join(s) PROVE \A m \in Sessions : PassedOf(m)'
    BY <1>22 DEF Join, PassedOf, media
  <1>23. ASSUME NEW s \in Sessions, JoinAdd(s) PROVE \A m \in Sessions : PassedOf(m)'
    BY <1>23 DEF JoinAdd, PassedOf, media
  <1>24. ASSUME NEW s \in Sessions, ReallyClose(s) PROVE \A m \in Sessions : PassedOf(m)'
    BY <1>24 DEF ReallyClose, PassedOf, media
  <1>25. ASSUME NEW s \in Sessions, ClearSrcCtx(s) PROVE \A m \in Sessions : PassedOf(m)'
    BY <1>25 DEF ClearSrcCtx, PassedOf, media
  <1>26. ASSUME NEW s \in Sessions, RemoveMdSource(s) PROVE \A m \in Sessions : PassedOf(m)'
    BY <1>26 DEF RemoveMdSource, PassedOf, media
  <1>27. ASSUME NEW s \in Sessions, RemoveClientSession(s)
         PROVE  \A m \in Sessions : PassedOf(m)'
    BY <1>27 DEF RemoveClientSession, PassedOf, media
  <1>28. ASSUME NEW s \in Sessions, Destroy(s) PROVE \A m \in Sessions : PassedOf(m)'
    BY <1>28 DEF Destroy, PassedOf, media
  <1>29. ASSUME NEW s \in Sessions, Forward(s) PROVE \A m \in Sessions : PassedOf(m)'
    <2>1. CASE passed' = passed \cup {s} /\ UNCHANGED frames /\ md[s].ctxSrc = Head(frames[s])
      <3>1. frames[s] # <<>> /\ Head(frames[s]) = s
        <4>1. frames[s] # <<>> /\ frames[s] \in Seq(Sessions)
          BY <1>29, ForwardEffect DEF Types, MediaOK
        <4>2. Head(frames[s]) \in Sessions
          BY <4>1
        <4>3. QED
          BY <2>1, <4>1, <4>2 DEF ContextOf, ConstantsAssumption
      <3>2. QED
        BY <2>1, <3>1 DEF PassedOf
    <2>2. CASE frames' = [frames EXCEPT ![s] = Tail(@)] /\ UNCHANGED passed
      <3>1. s \notin passed /\ \A m \in Sessions \ {s} : frames'[m] = frames[m]
        BY <1>29, <2>2, ForwardEffect DEF Types, MediaOK
      <3>2. QED
        BY <2>2, <3>1 DEF PassedOf
    <2>3. QED
      BY <1>29, <2>1, <2>2, ForwardEffect
  <1>30. ASSUME NEW s \in Sessions, Deliver(s) PROVE \A m \in Sessions : PassedOf(m)'
    <2>1. passed' = passed \ {s} /\ \A m \in Sessions \ {s} : frames'[m] = frames[m]
      BY <1>30, DeliverEffect DEF Types, MediaOK
    <2>2. QED
      BY <2>1 DEF PassedOf
  <1>31. CASE UNCHANGED vars
    BY <1>31 DEF vars, media, PassedOf
  <1>32. QED
    BY <1>1, <1>2, <1>3, <1>4, <1>5, <1>6, <1>7, <1>8, <1>9, <1>10, <1>11,
       <1>12, <1>13, <1>14, <1>15, <1>16, <1>17, <1>18, <1>19, <1>20, <1>21,
       <1>22, <1>23, <1>24, <1>25, <1>26, <1>27, <1>28, <1>29, <1>30, <1>31
       DEF Next, Handlers

LEMMA HeardMoves ==
  ASSUME [Next]_vars
  PROVE  heard' = heard \/ \E s \in Sessions : Deliver(s)
  <1>1. ASSUME NEW s \in Sessions, NEW n \in Names \cup {None}, InvokePublish(s, n)
        PROVE  heard' = heard \/ \E t \in Sessions : Deliver(t)
    BY <1>1 DEF InvokePublish, media
  <1>2. ASSUME NEW s \in Sessions, NEW n \in Names \cup {None}, InvokePlay(s, n)
        PROVE  heard' = heard \/ \E t \in Sessions : Deliver(t)
    BY <1>2 DEF InvokePlay, media
  <1>3. ASSUME NEW s \in Sessions, OnMedia(s)
        PROVE  heard' = heard \/ \E t \in Sessions : Deliver(t)
    BY <1>3 DEF OnMedia, media
  <1>4. ASSUME NEW s \in Sessions, ReleaseStream(s)
        PROVE  heard' = heard \/ \E t \in Sessions : Deliver(t)
    BY <1>4 DEF ReleaseStream, media
  <1>5. ASSUME NEW s \in Sessions, WriteCompleted(s)
        PROVE  heard' = heard \/ \E t \in Sessions : Deliver(t)
    BY <1>5 DEF WriteCompleted, media
  <1>6. ASSUME NEW s \in Sessions, OnClose(s)
        PROVE  heard' = heard \/ \E t \in Sessions : Deliver(t)
    BY <1>6 DEF OnClose, media
  <1>7. ASSUME NEW s \in Sessions, Publish(s)
        PROVE  heard' = heard \/ \E t \in Sessions : Deliver(t)
    BY <1>7 DEF Publish, media
  <1>8. ASSUME NEW s \in Sessions, IsExist(s)
        PROVE  heard' = heard \/ \E t \in Sessions : Deliver(t)
    BY <1>8 DEF IsExist, media
  <1>9. ASSUME NEW s \in Sessions, Kick(s)
        PROVE  heard' = heard \/ \E t \in Sessions : Deliver(t)
    BY <1>9 DEF Kick, media
  <1>10. ASSUME NEW s \in Sessions, KickTest(s)
         PROVE  heard' = heard \/ \E t \in Sessions : Deliver(t)
    BY <1>10 DEF KickTest, media
  <1>11. ASSUME NEW s \in Sessions, KickForce(s)
         PROVE  heard' = heard \/ \E t \in Sessions : Deliver(t)
    BY <1>11 DEF KickForce, media
  <1>12. ASSUME NEW s \in Sessions, Create(s)
         PROVE  heard' = heard \/ \E t \in Sessions : Deliver(t)
    BY <1>12 DEF Create, media
  <1>13. ASSUME NEW s \in Sessions, Add(s)
         PROVE  heard' = heard \/ \E t \in Sessions : Deliver(t)
    BY <1>13 DEF Add, media
  <1>14. ASSUME NEW s \in Sessions, Attach(s)
         PROVE  heard' = heard \/ \E t \in Sessions : Deliver(t)
    BY <1>14 DEF Attach, media
  <1>15. ASSUME NEW s \in Sessions, CloseSrcCtx(s)
         PROVE  heard' = heard \/ \E t \in Sessions : Deliver(t)
    BY <1>15 DEF CloseSrcCtx, media
  <1>16. ASSUME NEW s \in Sessions, CloseAllClients(s)
         PROVE  heard' = heard \/ \E t \in Sessions : Deliver(t)
    BY <1>16 DEF CloseAllClients, media
  <1>17. ASSUME NEW s \in Sessions, Drain(s)
         PROVE  heard' = heard \/ \E t \in Sessions : Deliver(t)
    BY <1>17 DEF Drain, media
  <1>18. ASSUME NEW s \in Sessions, Closed(s)
         PROVE  heard' = heard \/ \E t \in Sessions : Deliver(t)
    BY <1>18 DEF Closed, media
  <1>19. ASSUME NEW s \in Sessions, Play(s)
         PROVE  heard' = heard \/ \E t \in Sessions : Deliver(t)
    BY <1>19 DEF Play, media
  <1>20. ASSUME NEW s \in Sessions, GetMdSource(s)
         PROVE  heard' = heard \/ \E t \in Sessions : Deliver(t)
    BY <1>20 DEF GetMdSource, media
  <1>21. ASSUME NEW s \in Sessions, PlayOpened(s)
         PROVE  heard' = heard \/ \E t \in Sessions : Deliver(t)
    BY <1>21 DEF PlayOpened, media
  <1>22. ASSUME NEW s \in Sessions, Join(s)
         PROVE  heard' = heard \/ \E t \in Sessions : Deliver(t)
    BY <1>22 DEF Join, media
  <1>23. ASSUME NEW s \in Sessions, JoinAdd(s)
         PROVE  heard' = heard \/ \E t \in Sessions : Deliver(t)
    BY <1>23 DEF JoinAdd, media
  <1>24. ASSUME NEW s \in Sessions, ReallyClose(s)
         PROVE  heard' = heard \/ \E t \in Sessions : Deliver(t)
    BY <1>24 DEF ReallyClose, media
  <1>25. ASSUME NEW s \in Sessions, ClearSrcCtx(s)
         PROVE  heard' = heard \/ \E t \in Sessions : Deliver(t)
    BY <1>25 DEF ClearSrcCtx, media
  <1>26. ASSUME NEW s \in Sessions, RemoveMdSource(s)
         PROVE  heard' = heard \/ \E t \in Sessions : Deliver(t)
    BY <1>26 DEF RemoveMdSource, media
  <1>27. ASSUME NEW s \in Sessions, RemoveClientSession(s)
         PROVE  heard' = heard \/ \E t \in Sessions : Deliver(t)
    BY <1>27 DEF RemoveClientSession, media
  <1>28. ASSUME NEW s \in Sessions, Destroy(s)
         PROVE  heard' = heard \/ \E t \in Sessions : Deliver(t)
    BY <1>28 DEF Destroy, media
  <1>29. ASSUME NEW s \in Sessions, Forward(s)
         PROVE  heard' = heard \/ \E t \in Sessions : Deliver(t)
    BY <1>29 DEF Forward, media
  <1>30. ASSUME NEW s \in Sessions, Deliver(s)
         PROVE  heard' = heard \/ \E t \in Sessions : Deliver(t)
    BY <1>30
  <1>31. CASE UNCHANGED vars
    BY <1>31 DEF vars, media
  <1>32. QED
    BY <1>1, <1>2, <1>3, <1>4, <1>5, <1>6, <1>7, <1>8, <1>9, <1>10, <1>11,
       <1>12, <1>13, <1>14, <1>15, <1>16, <1>17, <1>18, <1>19, <1>20, <1>21,
       <1>22, <1>23, <1>24, <1>25, <1>26, <1>27, <1>28, <1>29, <1>30, <1>31
       DEF Next, Handlers

LEMMA HeardStep ==
  ASSUME Types, Inv, [Next]_vars
  PROVE  \A ph \in heard' : HeardOf(ph)'
  <1> SUFFICES ASSUME \A s \in Sessions : AskedKept(s),
                      \A m \in Sessions : Made(m) => Made(m)',
                      \A m \in Sessions : Made(m) => ss'[m].stream = ss[m].stream
               PROVE  \A ph \in heard' : HeardOf(ph)'
    BY AskedStays, MadeStays, StreamStays
  <1>1. ASSUME NEW ph \in Sessions \X Sessions, HeardOf(ph)
        PROVE  HeardOf(ph)'
    <2>1. PICK p \in Sessions, m \in Sessions : ph = <<p, m>>
      BY <1>1
    <2>2. Made(m) /\ Asked(p, ss[m].stream)
      BY <1>1, <2>1 DEF HeardOf
    <2>3. Made(m)' /\ Asked(p, ss[m].stream)'
      BY <2>2 DEF AskedKept, Asked
    <2>4. QED
      BY <2>1, <2>3 DEF HeardOf
  <1>2. ASSUME heard' = heard
        PROVE  \A ph \in heard' : HeardOf(ph)'
    BY <1>1, <1>2 DEF Inv, HearingInv, Types, MediaOK
  <1>3. ASSUME NEW s \in Sessions, Deliver(s)
        PROVE  \A ph \in heard' : HeardOf(ph)'
    <2>1. /\ s \in passed
          /\ heard' = heard \cup {<<p, Head(frames[s])>> :
                                   p \in {q \in md[s].clients : ss[q].playing}}
      BY <1>3, DeliverEffect
    <2>2. Head(frames[s]) = s
      BY <2>1 DEF Inv, HearingInv, PassedOf
    <2>3. ASSUME NEW p \in md[s].clients, ss[p].playing
          PROVE  p \in Sessions /\ HeardOf(<<p, s>>)
      <3>1. p \in Sessions
        BY DEF Types, SourceFields
      <3>2. ss[p].mdsrc = s /\ ~ss[p].srcCtx
        BY <2>3, <3>1 DEF Inv, PlayerInv, PlayerOf
      <3>3. Made(s) /\ Asked(p, ss[s].stream)
        BY <3>1, <3>2
           DEF Inv, SourceInv, SourceOf, HearingInv, PlayOf, ConstantsAssumption
      <3>4. QED
        BY <3>1, <3>3 DEF HeardOf
    <2>4. ASSUME NEW ph \in heard'
          PROVE  ph \in Sessions \X Sessions /\ HeardOf(ph)
      <3>1. CASE ph \in heard
        BY <3>1 DEF Inv, HearingInv, Types, MediaOK
      <3>2. CASE ph \notin heard
        <4>1. PICK p \in {q \in md[s].clients : ss[q].playing} : ph = <<p, s>>
          BY <2>1, <2>2, <2>4, <3>2
        <4>2. QED
          BY <2>3, <4>1
      <3>3. QED
        BY <3>1, <3>2
    <2>5. QED
      BY <1>1, <2>4
  <1>4. QED
    BY <1>2, <1>3, HeardMoves

LEMMA HearingInvStep == Types /\ Inv /\ [Next]_vars => HearingInv'
  BY PlaysStep, PassedStep, HeardStep DEF HearingInv


-----------------------------------------------------------------------------
(* What follows from the invariant.                                          *)

LEMMA InitInv == Init => Inv
  <1> SUFFICES ASSUME Init PROVE Inv
    OBVIOUS
  <1>1. /\ ss = [s \in Sessions |-> NoSession] /\ th = [s \in Sessions |-> Idle]
        /\ md = [m \in Sessions |-> NoSource] /\ inbox = [s \in Sessions |-> <<>>]
        /\ streams = [n \in Keys |-> None] /\ lock = None
        /\ frames = [m \in Sessions |-> <<>>] /\ passed = {} /\ heard = {}
    BY DEF Init
  <1>2. HandlerInv
    BY <1>1 DEF HandlerInv, HandlerOf, Idle, NoSession, ConstantsAssumption
  <1>3. StageInv
    BY <1>1 DEF StageInv, StageOf, Idle, NoSession, ConstantsAssumption
  <1>4. LifeInv
    BY <1>1 DEF LifeInv, LifeOf, Idle, NoSession
  <1>5. PlayerInv
    BY <1>1 DEF PlayerInv, PlayerOf, NoSession, NoSource
  <1>6. SourceInv
    <2>1. \A s \in Sessions : SourceOf(s)
      BY <1>1 DEF SourceOf, Idle, NoSession
    <2>2. \A m \in Sessions : ContextOf(m)
      BY <1>1 DEF ContextOf, Alike, NoSource, NoSession, ConstantsAssumption
    <2>3. QED
      BY <2>1, <2>2 DEF SourceInv
  <1>7. RegistryInv
    <2>1. \A s \in Sessions : ClaimOf(s) /\ EntryOf(s) /\ ReplacedOf(s)
      BY <1>1 DEF ClaimOf, EntryOf, ReplacedOf, Entered, Idle, NoSession, NoSource,
                  ConstantsAssumption
    <2>2. \A t, m \in Sessions : HeldBy(t, m)
      BY <1>1 DEF HeldBy, Holding, Idle, ConstantsAssumption
    <2>3. \A n \in Keys : NameOf(n)
      BY <1>1 DEF NameOf
    <2>4. QED
      BY <2>1, <2>2, <2>3 DEF RegistryInv
  <1>8. HearingInv
    BY <1>1 DEF HearingInv, PlayOf, PassedOf, Idle, NoSession
  <1>9. QED
    BY <1>2, <1>3, <1>4, <1>5, <1>6, <1>7, <1>8 DEF Inv

\* What a step finds it leaves: the handlers, the players' lists, the sources,
\* the registry and what players hear belong together in every state.
THEOREM Invariant == Spec => [](Types /\ Inv)
  <1>1. Init => Types /\ Inv
    BY InitTypes, InitInv
  <1>2. Types /\ Inv /\ [Next]_vars => (Types /\ Inv)'
    BY TypesStep, HandlerInvStep, StageInvStep, LifeInvStep, PlayerInvStep, SourceInvStep,
       RegistryInvStep, HearingInvStep DEF Inv
  <1>3. QED
    BY <1>1, <1>2, PTL DEF Spec

\* Whatever CMdSourceApp has under a name was published under it by a session
\* that is still there and still has to take it out in RemoveMdSource; and a
\* publisher that has lost its name to another is being closed.
THEOREM Registered == Spec => []RegisteredIsServed
  <1>1. Types /\ Inv => RegisteredIsServed
    <2> SUFFICES ASSUME Types, Inv PROVE RegisteredIsServed
      OBVIOUS
    <2>1. ASSUME NEW n \in Keys, streams[n] # None
          PROVE  /\ ss[streams[n]].mdsrc = streams[n] /\ ss[streams[n]].stream = n
                 /\ ss[streams[n]].alive
                 /\ ss[streams[n]].attached \/ th[streams[n]].pc = "attach"
      <3>1. PICK s \in Sessions : s = streams[n] /\ Entered(s) /\ ss[s].stream = n
        BY <2>1 DEF Types, RegistryOK, Inv, RegistryInv, NameOf
      <3>2. ss[s].mdsrc = s
        BY <3>1 DEF Entered, Inv, RegistryInv, ClaimOf, StageInv, StageOf
      <3>3. ss[s].alive
        BY <3>2 DEF Inv, LifeInv, LifeOf, ConstantsAssumption
      <3>4. QED
        BY <3>1, <3>2, <3>3 DEF Entered
    <2>2. ASSUME NEW s \in Sessions, ss[s].attached, streams[ss[s].stream] # s
          PROVE  \/ ss[s].closing \/ ss[s].onClose
                 \/ \E t \in Sessions : lock = t /\ th[t].target = s
      <3>1. ss[s].closing \/ ss[s].onClose \/ \E t \in Sessions : Holding(t, s)
        BY <2>2 DEF Inv, RegistryInv, EntryOf, Entered
      <3>2. \A t \in Sessions : Holding(t, s) => lock = t /\ th[t].target = s
        BY DEF Holding, Inv, HandlerInv, HandlerOf
      <3>3. QED
        BY <3>1, <3>2
    <2>3. QED
      BY <2>1, <2>2 DEF RegisteredIsServed
  <1>2. QED
    BY <1>1, Invariant, PTL

\* m_ctxSrc, a plain pointer, never outlives its session, and the session that
\* RemoveMdSourceClose writes to without m_mtxSrcCtx is still there.
THEOREM ContextAlive == Spec => []SourceContextAlive
  <1>1. Types /\ Inv => SourceContextAlive
    <2> SUFFICES ASSUME Types, Inv PROVE SourceContextAlive
      OBVIOUS
    <2>1. \A s \in Sessions : ss[s].mdsrc # None => ss[s].alive
      BY DEF Inv, LifeInv, LifeOf
    <2>2. ASSUME NEW m \in Sessions, md[m].ctxSrc # None
          PROVE  ss[md[m].ctxSrc].alive
      <3>1. md[m].ctxSrc = m /\ ss[m].mdsrc = m
        BY <2>2 DEF Inv, SourceInv, ContextOf
      <3>2. QED
        BY <2>1, <3>1 DEF ConstantsAssumption
    <2>3. ASSUME NEW m \in Sessions, NEW s \in Sessions,
                 th[s].pc = "kickForce", th[s].target = m
          PROVE  ss[m].alive
      <3>1. Holding(s, m)
        BY <2>3 DEF Holding, Inv, HandlerInv, HandlerOf
      <3>2. Entered(m)
        BY <3>1, HeldContext
      <3>3. ss[m].mdsrc = m
        BY <3>2 DEF Entered, Inv, RegistryInv, ClaimOf, StageInv, StageOf
      <3>4. QED
        BY <2>1, <3>3 DEF ConstantsAssumption
    <2>4. QED
      BY <2>2, <2>3 DEF SourceContextAlive
  <1>2. QED
    BY <1>1, Invariant, PTL

\* A player hears only publishers of a name that its client has asked for, also
\* when others that have joined the same source send media of their own.
THEOREM Hearing == Spec => []HeardWasAsked
  <1>1. Types /\ Inv => HeardWasAsked
    BY DEF Inv, HearingInv, HeardOf, Asked, Made, HeardWasAsked
  <1>2. QED
    BY <1>1, Invariant, PTL

\* The first part of ReferencesMatch: a player is in the list of the source it
\* has and of no other, it is there, and holds one reference for that.
PlayersListed ==
    \A p \in Sessions :
        /\ ss[p].listRefs = (IF ss[p].inMd THEN 1 ELSE 0)
        /\ ss[p].inMd <=> \E m \in Sessions : p \in md[m].clients
        /\ \A m \in Sessions : p \in md[m].clients => m = ss[p].mdsrc /\ ss[p].alive
THEOREM Listed == Spec => []PlayersListed
  <1>1. Types /\ Inv => PlayersListed
    <2> SUFFICES ASSUME Types, Inv, NEW p \in Sessions
                 PROVE  /\ ss[p].listRefs = (IF ss[p].inMd THEN 1 ELSE 0)
                        /\ ss[p].inMd <=> \E m \in Sessions : p \in md[m].clients
                        /\ \A m \in Sessions : p \in md[m].clients =>
                             m = ss[p].mdsrc /\ ss[p].alive
      BY DEF PlayersListed
    <2>1. PlayerOf(p) /\ LifeOf(p) /\ ss[p].mdsrc \in Sessions \cup {None}
          /\ \A m \in Sessions : p \in md[m].clients <=> ss[p].inMd /\ ss[p].mdsrc = m
      BY DEF Inv, PlayerInv, LifeInv, Types, SessionFields
    <2>2. QED
      BY <2>1 DEF PlayerOf, LifeOf, ConstantsAssumption
  <1>2. QED
    BY <1>1, Invariant, PTL

-----------------------------------------------------------------------------
(* The counts of references.  The users of a source are counted set by set;  *)
(* a step changes each of these sets by one member at most.                  *)

Bit(b) == IF b THEN 1 ELSE 0

SessionsOf(m) == {s \in Sessions : ss[s].mdsrc = m}
HandlersOf(m) == {s \in Sessions : th[s].src = m}
KickersOf(m) == {s \in Sessions : th[s].op = "kick" /\ th[s].target = m}
PostedIn(box, m) == UNION {{s} \X {i \in DOMAIN box[s] : box[s][i].src = m} : s \in Sessions}
PostedTo(m) == PostedIn(inbox, m)
NamesOf(m) == {n \in Keys : streams[n] = m}

Finite(m) ==
    /\ IsFiniteSet(SessionsOf(m)) /\ IsFiniteSet(HandlersOf(m)) /\ IsFiniteSet(KickersOf(m))
    /\ IsFiniteSet(PostedTo(m)) /\ IsFiniteSet(NamesOf(m))

\* The second part of ReferencesMatch, of one source.
AccountOf(m) == md[m].refs = InUse(m) + Bit(md[m].replaced)
Accounts == \A m \in Sessions : Finite(m) /\ AccountOf(m)

\* What session s and its thread have of m, and what the queues have more of it.
HeldOf(s, m) ==
    Bit(ss[s].mdsrc = m) + Bit(th[s].src = m) + Bit(th[s].op = "kick" /\ th[s].target = m)
PostedBy(m, d) ==
    IsFiniteSet(PostedTo(m)') /\ Cardinality(PostedTo(m)') = Cardinality(PostedTo(m)) + d
\* No session but s, and no thread but that of s, changes what it has.
OnlyOf(s) ==
    \A t \in Sessions \ {s} : /\ ss'[t].mdsrc = ss[t].mdsrc /\ th'[t].src = th[t].src
                              /\ th'[t].op = th[t].op /\ th'[t].target = th[t].target

LEMMA InUseIs ==
  ASSUME NEW m
  PROVE  InUse(m) = Cardinality(SessionsOf(m)) + Cardinality(HandlersOf(m))
                      + Cardinality(KickersOf(m)) + Cardinality(PostedTo(m))
                      + Cardinality(NamesOf(m)) + Len(frames[m])
  BY DEF InUse, SessionsOf, HandlersOf, KickersOf, PostedTo, PostedIn, NamesOf

\* Two sets that differ in x at most.
LEMMA OneMoves ==
  ASSUME NEW A, NEW B, NEW x, IsFiniteSet(A), A \ {x} = B \ {x}
  PROVE  /\ IsFiniteSet(B) /\ Cardinality(A) \in Nat /\ Cardinality(B) \in Nat
         /\ Cardinality(B) = Cardinality(A) + Bit(x \in B) - Bit(x \in A)
  <1> DEFINE C == A \ {x}
  <1>1. /\ IsFiniteSet(C) /\ Cardinality(A) \in Nat /\ Cardinality(C) \in Nat
        /\ Cardinality(C) = IF x \in A THEN Cardinality(A) - 1 ELSE Cardinality(A)
    BY FS_RemoveElement, FS_CardinalityType
  <1>2. /\ IsFiniteSet(C \cup {x}) /\ Cardinality(C \cup {x}) = Cardinality(C) + 1
    BY <1>1, FS_AddElement
  <1>3. CASE x \in B
    <2>1. B = C \cup {x}
      BY <1>3
    <2>2. IsFiniteSet(B) /\ Cardinality(B) = Cardinality(C) + 1
      BY <1>2, <2>1
    <2> HIDE DEF C
    <2>3. QED
      BY <1>1, <1>3, <2>2 DEF Bit
  <1>4. CASE x \notin B
    <2>1. B = C
      BY <1>4
    <2>2. IsFiniteSet(B) /\ Cardinality(B) = Cardinality(C)
      BY <1>1, <2>1
    <2> HIDE DEF C
    <2>3. QED
      BY <1>1, <1>4, <2>2 DEF Bit
  <1>5. QED
    BY <1>3, <1>4

\* A step of s that may change what is registered under n: it changes the count of
\* m by a, what s and its thread have of m by e, the events with m by d, the names
\* of m by f, its frames by g, and by r what it keeps because it was replaced.
Balance(m, s, n, a, e, d, f, g, r) ==
    /\ OnlyOf(s) /\ \A j \in Keys \ {n} : streams'[j] = streams[j]
    /\ md'[m].refs = md[m].refs + a
    /\ HeldOf(s, m)' = HeldOf(s, m) + e
    /\ PostedBy(m, d)
    /\ Bit(streams'[n] = m) = Bit(streams[n] = m) + f
    /\ Len(frames'[m]) = Len(frames[m]) + g
    /\ Bit(md'[m].replaced) = Bit(md[m].replaced) + r
    /\ a = e + d + f + g + r

\* The sets of users grow and shrink with what s has.
LEMMA UsersMove ==
  ASSUME NEW m \in Sessions, Finite(m), NEW s \in Sessions, OnlyOf(s), NEW e \in Int,
         HeldOf(s, m)' = HeldOf(s, m) + e
  PROVE  /\ IsFiniteSet(SessionsOf(m)') /\ IsFiniteSet(HandlersOf(m)')
         /\ IsFiniteSet(KickersOf(m)')
         /\ Cardinality(SessionsOf(m)') + Cardinality(HandlersOf(m)')
              + Cardinality(KickersOf(m)')
            = Cardinality(SessionsOf(m)) + Cardinality(HandlersOf(m))
                + Cardinality(KickersOf(m)) + e
  <1>1. /\ SessionsOf(m) \ {s} = SessionsOf(m)' \ {s}
        /\ HandlersOf(m) \ {s} = HandlersOf(m)' \ {s}
        /\ KickersOf(m) \ {s} = KickersOf(m)' \ {s}
    BY DEF SessionsOf, HandlersOf, KickersOf, OnlyOf
  <1>2. /\ s \in SessionsOf(m) <=> ss[s].mdsrc = m
        /\ s \in HandlersOf(m) <=> th[s].src = m
        /\ s \in KickersOf(m) <=> (th[s].op = "kick" /\ th[s].target = m)
    BY DEF SessionsOf, HandlersOf, KickersOf
  <1>3. /\ s \in SessionsOf(m)' <=> ss'[s].mdsrc = m
        /\ s \in HandlersOf(m)' <=> th'[s].src = m
        /\ s \in KickersOf(m)' <=> (th'[s].op = "kick" /\ th'[s].target = m)
    BY DEF SessionsOf, HandlersOf, KickersOf
  <1>4. IsFiniteSet(SessionsOf(m)) /\ IsFiniteSet(HandlersOf(m)) /\ IsFiniteSet(KickersOf(m))
    BY DEF Finite
  <1>5. /\ IsFiniteSet(SessionsOf(m)') /\ Cardinality(SessionsOf(m)) \in Nat
        /\ Cardinality(SessionsOf(m)') \in Nat
        /\ Cardinality(SessionsOf(m)') = Cardinality(SessionsOf(m))
             + Bit(s \in SessionsOf(m)') - Bit(s \in SessionsOf(m))
    BY <1>1, <1>4, OneMoves
  <1>6. /\ IsFiniteSet(HandlersOf(m)') /\ Cardinality(HandlersOf(m)) \in Nat
        /\ Cardinality(HandlersOf(m)') \in Nat
        /\ Cardinality(HandlersOf(m)') = Cardinality(HandlersOf(m))
             + Bit(s \in HandlersOf(m)') - Bit(s \in HandlersOf(m))
    BY <1>1, <1>4, OneMoves
  <1>7. /\ IsFiniteSet(KickersOf(m)') /\ Cardinality(KickersOf(m)) \in Nat
        /\ Cardinality(KickersOf(m)') \in Nat
        /\ Cardinality(KickersOf(m)') = Cardinality(KickersOf(m))
             + Bit(s \in KickersOf(m)') - Bit(s \in KickersOf(m))
    BY <1>1, <1>4, OneMoves
  <1>8. PICK x \in Int, y \in Int, z \in Int :
          /\ x = Cardinality(SessionsOf(m)) /\ y = Cardinality(HandlersOf(m))
          /\ z = Cardinality(KickersOf(m))
    BY <1>5, <1>6, <1>7
  <1>9. PICK u \in Int, v \in Int, w \in Int :
          /\ u = Cardinality(SessionsOf(m)') /\ v = Cardinality(HandlersOf(m)')
          /\ w = Cardinality(KickersOf(m)')
    BY <1>5, <1>6, <1>7
  <1>10. PICK b1 \in Int, b2 \in Int, b3 \in Int :
           b1 = Bit(ss[s].mdsrc = m) /\ b2 = Bit(th[s].src = m)
             /\ b3 = Bit(th[s].op = "kick" /\ th[s].target = m)
    BY DEF Bit
  <1>11. PICK c1 \in Int, c2 \in Int, c3 \in Int :
           c1 = Bit(ss'[s].mdsrc = m) /\ c2 = Bit(th'[s].src = m)
             /\ c3 = Bit(th'[s].op = "kick" /\ th'[s].target = m)
    BY DEF Bit
  <1>12. u = x + c1 - b1
    BY <1>2, <1>3, <1>5, <1>8, <1>9, <1>10, <1>11 DEF Bit
  <1>13. v = y + c2 - b2
    BY <1>2, <1>3, <1>6, <1>8, <1>9, <1>10, <1>11 DEF Bit
  <1>14. w = z + c3 - b3
    BY <1>2, <1>3, <1>7, <1>8, <1>9, <1>10, <1>11 DEF Bit
  <1>15. HeldOf(s, m) = b1 + b2 + b3 /\ HeldOf(s, m)' = c1 + c2 + c3
    BY <1>10, <1>11 DEF HeldOf
  <1>16. c1 + c2 + c3 = b1 + b2 + b3 + e
    BY <1>15
  <1>17. u + v + w = x + y + z + e
    BY <1>12, <1>13, <1>14, <1>16
  <1>18. QED
    BY <1>5, <1>6, <1>7, <1>8, <1>9, <1>17

\* If the count changes by what the users change by, it goes on matching them.
LEMMA Balanced ==
  ASSUME Types, Types', Accounts, NEW m \in Sessions, NEW s \in Sessions, NEW n \in Keys,
         NEW a \in Int, NEW e \in Int, NEW d \in Int, NEW f \in Int, NEW g \in Int, NEW r \in Int,
         Balance(m, s, n, a, e, d, f, g, r)
  PROVE  (Finite(m) /\ AccountOf(m))'
  <1>1. /\ Finite(m) /\ md[m].refs = InUse(m) + Bit(md[m].replaced) /\ OnlyOf(s)
        /\ \A j \in Keys \ {n} : streams'[j] = streams[j]
        /\ PostedBy(m, d) /\ HeldOf(s, m)' = HeldOf(s, m) + e
    BY DEF Accounts, AccountOf, Balance
  <1>2. /\ IsFiniteSet(NamesOf(m)') /\ Cardinality(NamesOf(m)) \in Nat
        /\ Cardinality(NamesOf(m)') \in Nat
        /\ Cardinality(NamesOf(m)') = Cardinality(NamesOf(m))
             + Bit(n \in NamesOf(m)') - Bit(n \in NamesOf(m))
    <2>1. NamesOf(m) \ {n} = NamesOf(m)' \ {n} /\ IsFiniteSet(NamesOf(m))
      BY <1>1 DEF NamesOf, Finite
    <2>2. QED
      BY <2>1, OneMoves
  <1>3. Cardinality(NamesOf(m)') = Cardinality(NamesOf(m)) + f
    <2>1. (n \in NamesOf(m) <=> streams[n] = m) /\ (n \in NamesOf(m)' <=> streams'[n] = m)
      BY DEF NamesOf
    <2>2. PICK b \in Int, c \in Int : b = Bit(n \in NamesOf(m)) /\ c = Bit(n \in NamesOf(m)')
      BY DEF Bit
    <2>3. c = b + f
      BY <2>1, <2>2 DEF Balance, Bit
    <2>4. QED
      BY <1>2, <2>2, <2>3
  <1>4. /\ IsFiniteSet(SessionsOf(m)') /\ IsFiniteSet(HandlersOf(m)')
        /\ IsFiniteSet(KickersOf(m)')
        /\ Cardinality(SessionsOf(m)') + Cardinality(HandlersOf(m)')
              + Cardinality(KickersOf(m)')
            = Cardinality(SessionsOf(m)) + Cardinality(HandlersOf(m))
                + Cardinality(KickersOf(m)) + e
    BY <1>1, UsersMove
  <1>5. Finite(m)'
    BY <1>1, <1>2, <1>4 DEF Finite, PostedBy
  <1>6. PICK x \in Int, y \in Int :
          /\ x = Cardinality(SessionsOf(m)) + Cardinality(HandlersOf(m))
                   + Cardinality(KickersOf(m))
          /\ y = Cardinality(SessionsOf(m)') + Cardinality(HandlersOf(m)')
                   + Cardinality(KickersOf(m)')
    <2>1. /\ Cardinality(SessionsOf(m)) \in Int /\ Cardinality(HandlersOf(m)) \in Int
          /\ Cardinality(KickersOf(m)) \in Int
      BY <1>1, FS_CardinalityType DEF Finite
    <2>2. /\ Cardinality(SessionsOf(m)') \in Int /\ Cardinality(HandlersOf(m)') \in Int
          /\ Cardinality(KickersOf(m)') \in Int
      BY <1>4, FS_CardinalityType
    <2>3. QED
      BY <2>1, <2>2
  <1>7. PICK p \in Int, q \in Int :
          p = Cardinality(PostedTo(m)) /\ q = Cardinality(PostedTo(m)')
    BY <1>1, FS_CardinalityType DEF Finite, PostedBy
  <1>8. PICK i \in Int, j \in Int :
          i = Cardinality(NamesOf(m)) /\ j = Cardinality(NamesOf(m)')
    BY <1>2
  <1>9. PICK k \in Int, l \in Int : k = Len(frames[m]) /\ l = Len(frames'[m])
    BY DEF Types, MediaOK
  <1>10. PICK u \in Int, v \in Int : u = md[m].refs /\ v = md'[m].refs
    BY DEF Types, SourceFields
  <1>11. PICK b \in Int, c \in Int : b = Bit(md[m].replaced) /\ c = Bit(md'[m].replaced)
    BY DEF Bit
  <1>12. /\ v = u + a /\ q = p + d /\ l = k + g /\ c = b + r /\ a = e + d + f + g + r
    BY <1>7, <1>9, <1>10, <1>11 DEF Balance, PostedBy
  <1>13. y = x + e /\ j = i + f
    BY <1>3, <1>4, <1>6, <1>8
  <1>14. u = x + p + i + k + b
    BY <1>1, <1>6, <1>7, <1>8, <1>9, <1>10, <1>11, InUseIs
  <1>15. v = y + q + j + l + c
    BY <1>12, <1>13, <1>14
  <1>16. InUse(m)' = y + q + j + l
    <2>1. InUse(m)' = Cardinality(SessionsOf(m)') + Cardinality(HandlersOf(m)')
                      + Cardinality(KickersOf(m)') + Cardinality(PostedTo(m)')
                      + Cardinality(NamesOf(m)') + Len(frames'[m])
      BY DEF InUse, SessionsOf, HandlersOf, KickersOf, PostedTo, PostedIn, NamesOf
    <2>2. QED
      BY <1>6, <1>7, <1>8, <1>9, <2>1
  <1>17. AccountOf(m)'
    BY <1>10, <1>11, <1>15, <1>16 DEF AccountOf
  <1>18. QED
    BY <1>5, <1>17

LEMMA PostedIs ==
  ASSUME NEW box \in [Sessions -> Seq(Events)], NEW m
  PROVE  /\ \A t, i : <<t, i>> \in PostedIn(box, m) <=>
              t \in Sessions /\ i \in 1..Len(box[t]) /\ box[t][i].src = m
         /\ PostedIn(box, m) \subseteq Sessions \X Nat
  <1>1. \A t \in Sessions : DOMAIN box[t] = 1..Len(box[t]) /\ Len(box[t]) \in Nat
    OBVIOUS
  <1>2. \A q : q \in PostedIn(box, m) <=>
          \E t \in Sessions : q \in {t} \X {i \in DOMAIN box[t] : box[t][i].src = m}
    BY DEF PostedIn
  <1>3. \A t, i : <<t, i>> \in PostedIn(box, m) <=>
          t \in Sessions /\ i \in DOMAIN box[t] /\ box[t][i].src = m
    BY <1>2
  <1>4. PostedIn(box, m) \subseteq Sessions \X Nat
    <2> SUFFICES ASSUME NEW q \in PostedIn(box, m) PROVE q \in Sessions \X Nat
      OBVIOUS
    <2>1. PICK t \in Sessions : q \in {t} \X {i \in DOMAIN box[t] : box[t][i].src = m}
      BY <1>2
    <2>2. PICK i \in DOMAIN box[t] : q = <<t, i>>
      BY <2>1
    <2>3. QED
      BY <1>1, <2>2
  <1>5. QED
    BY <1>1, <1>3, <1>4

\* The queues are left alone, one more event is posted, the first is taken.
LEMMA PostedSame ==
  ASSUME NEW m, IsFiniteSet(PostedTo(m)), UNCHANGED inbox
  PROVE  PostedBy(m, 0)
  <1>1. PostedTo(m)' = PostedTo(m) /\ Cardinality(PostedTo(m)) \in Nat
    BY FS_CardinalityType DEF PostedTo, PostedIn
  <1>2. QED
    BY <1>1 DEF PostedBy

LEMMA PostedMore ==
  ASSUME Types, Types', NEW m \in Sessions, IsFiniteSet(PostedTo(m)), NEW s \in Sessions,
         NEW k \in {"publish", "play", "close"}, NEW n \in Names \cup {None}, Post(s, k, n)
  PROVE  PostedBy(m, Bit(ss[s].mdsrc = m))
  <1> DEFINE x == <<s, Len(inbox[s]) + 1>>
  <1>1. /\ inbox \in [Sessions -> Seq(Events)] /\ inbox' \in [Sessions -> Seq(Events)]
        /\ Len(inbox[s]) \in Nat /\ Len(inbox'[s]) = Len(inbox[s]) + 1
        /\ \A i \in 1..Len(inbox[s]) : inbox'[s][i] = inbox[s][i]
        /\ inbox'[s][Len(inbox[s]) + 1].src = ss[s].mdsrc
        /\ \A t \in Sessions \ {s} : inbox'[t] = inbox[t]
    <2>1. inbox \in [Sessions -> Seq(Events)] /\ inbox' \in [Sessions -> Seq(Events)]
      BY DEF Types, NetOK
    <2>2. /\ Len(inbox'[s]) = Len(inbox[s]) + 1
          /\ \A i \in 1..Len(inbox[s]) : inbox'[s][i] = inbox[s][i]
          /\ inbox'[s][Len(inbox'[s])] = Event(k, n, ss[s].mdsrc)
          /\ \A t \in Sessions \ {s} : inbox'[t] = inbox[t]
      BY PostEffect
    <2>3. Event(k, n, ss[s].mdsrc).src = ss[s].mdsrc
      BY DEF Event
    <2>4. QED
      BY <2>1, <2>2, <2>3
  <1>2. /\ \A t, i : <<t, i>> \in PostedTo(m) <=>
             t \in Sessions /\ i \in 1..Len(inbox[t]) /\ inbox[t][i].src = m
        /\ \A t, i : <<t, i>> \in PostedTo(m)' <=>
             t \in Sessions /\ i \in 1..Len(inbox'[t]) /\ inbox'[t][i].src = m
        /\ PostedTo(m) \subseteq Sessions \X Nat /\ PostedTo(m)' \subseteq Sessions \X Nat
    BY <1>1, PostedIs DEF PostedTo
  <1>3. PostedTo(m) \ {x} = PostedTo(m)' \ {x}
    <2>1. ASSUME NEW t \in Sessions, NEW i \in Nat, <<t, i>> # x
          PROVE  <<t, i>> \in PostedTo(m) <=> <<t, i>> \in PostedTo(m)'
      <3>1. CASE t # s
        <4>1. inbox'[t] = inbox[t]
          BY <1>1, <3>1
        <4>2. QED
          BY <1>2, <4>1
      <3>2. CASE t = s
        <4>1. i # Len(inbox[s]) + 1
          BY <2>1, <3>2
        <4>2. i \in 1..Len(inbox[s]) <=> i \in 1..Len(inbox'[s])
          BY <1>1, <4>1
        <4>3. i \in 1..Len(inbox[s]) => inbox'[s][i] = inbox[s][i]
          BY <1>1
        <4>4. <<s, i>> \in PostedTo(m) <=> i \in 1..Len(inbox[s]) /\ inbox[s][i].src = m
          BY <1>2
        <4>5. <<s, i>> \in PostedTo(m)' <=> i \in 1..Len(inbox'[s]) /\ inbox'[s][i].src = m
          BY <1>2
        <4>6. QED
          BY <3>2, <4>2, <4>3, <4>4, <4>5
      <3>3. QED
        BY <3>1, <3>2
    <2> HIDE DEF x
    <2>2. QED
      BY <1>2, <2>1
  <1>4. x \notin PostedTo(m) /\ (x \in PostedTo(m)' <=> ss[s].mdsrc = m)
    <2>1. Len(inbox[s]) + 1 \notin 1..Len(inbox[s]) /\ Len(inbox[s]) + 1 \in 1..Len(inbox'[s])
      BY <1>1
    <2>2. QED
      BY <1>1, <1>2, <2>1
  <1> HIDE DEF x
  <1>5. /\ IsFiniteSet(PostedTo(m)') /\ Cardinality(PostedTo(m)) \in Nat
        /\ Cardinality(PostedTo(m)') =
             Cardinality(PostedTo(m)) + Bit(x \in PostedTo(m)') - Bit(x \in PostedTo(m))
    BY <1>3, OneMoves
  <1>6. PICK b \in Int : b = Bit(ss[s].mdsrc = m)
    BY DEF Bit
  <1>7. Bit(x \in PostedTo(m)') = b /\ Bit(x \in PostedTo(m)) = 0
    BY <1>4, <1>6 DEF Bit
  <1>8. Cardinality(PostedTo(m)') = Cardinality(PostedTo(m)) + b
    BY <1>5, <1>7
  <1>9. QED
    BY <1>5, <1>6, <1>8 DEF PostedBy

LEMMA PostedLess ==
  ASSUME Types, Types', NEW m \in Sessions, IsFiniteSet(PostedTo(m)), NEW s \in Sessions,
         NEW k, IsNext(s, k), Taken(s)
  PROVE  PostedBy(m, -Bit(Head(inbox[s]).src = m))
  <1> DEFINE A == PostedTo(m) \ {<<s, 1>>}
  <1> DEFINE B == PostedTo(m)'
  <1>1. /\ inbox \in [Sessions -> Seq(Events)] /\ inbox' \in [Sessions -> Seq(Events)]
        /\ Len(inbox[s]) \in Nat /\ Len(inbox[s]) > 0 /\ Len(inbox'[s]) = Len(inbox[s]) - 1
        /\ Head(inbox[s]) = inbox[s][1]
        /\ \A i \in 1..Len(inbox'[s]) : inbox'[s][i] = inbox[s][i + 1]
        /\ \A t \in Sessions \ {s} : inbox'[t] = inbox[t]
    <2>1. inbox \in [Sessions -> Seq(Events)]
      BY DEF Types, NetOK
    <2>2. Len(inbox[s]) \in Nat
      BY <2>1
    <2>3. QED
      BY <2>1, <2>2, TakenEffect
  <1>2. /\ \A t, i : <<t, i>> \in PostedTo(m) <=>
             t \in Sessions /\ i \in 1..Len(inbox[t]) /\ inbox[t][i].src = m
        /\ \A t, i : <<t, i>> \in B <=>
             t \in Sessions /\ i \in 1..Len(inbox'[t]) /\ inbox'[t][i].src = m
        /\ PostedTo(m) \subseteq Sessions \X Nat /\ B \subseteq Sessions \X Nat
    BY <1>1, PostedIs DEF PostedTo
  <1>3. /\ \A i \in Nat : <<s, i>> \in B <=> i >= 1 /\ <<s, i + 1>> \in A
        /\ \A t \in Sessions \ {s} : \A i : <<t, i>> \in B <=> <<t, i>> \in A
        /\ <<s, 1>> \in PostedTo(m) <=> Head(inbox[s]).src = m
        /\ \A i \in Nat : <<s, i>> \in A => i >= 2
        /\ A \subseteq Sessions \X Nat
    <2>1. ASSUME NEW i \in Nat
          PROVE  /\ <<s, i>> \in B <=> i >= 1 /\ <<s, i + 1>> \in A
                 /\ <<s, i>> \in A => i >= 2
      <3>1. <<s, i + 1>> = <<s, 1>> <=> i = 0
        OBVIOUS
      <3>2. i \in 1..Len(inbox'[s]) <=> i >= 1 /\ i + 1 \in 1..Len(inbox[s])
        BY <1>1
      <3>3. <<s, i>> \in A => i # 1
        OBVIOUS
      <3>4. <<s, i>> \in A => i \in 1..Len(inbox[s])
        BY <1>2
      <3>5. <<s, i + 1>> \in A <=> i # 0 /\ <<s, i + 1>> \in PostedTo(m)
        BY <3>1
      <3>6. <<s, i>> \in B <=> i \in 1..Len(inbox'[s]) /\ inbox'[s][i].src = m
        BY <1>2
      <3>7. <<s, i + 1>> \in PostedTo(m) <=>
              i + 1 \in 1..Len(inbox[s]) /\ inbox[s][i + 1].src = m
        BY <1>2
      <3>8. QED
        BY <1>1, <3>2, <3>3, <3>4, <3>5, <3>6, <3>7
    <2>2. ASSUME NEW t \in Sessions \ {s}, NEW i
          PROVE  <<t, i>> \in B <=> <<t, i>> \in A
      <3>1. inbox'[t] = inbox[t]
        BY <1>1
      <3>2. <<t, i>> \in B <=> <<t, i>> \in PostedTo(m)
        BY <1>2, <3>1
      <3>3. <<t, i>> # <<s, 1>>
        OBVIOUS
      <3> HIDE DEF B
      <3>4. QED
        BY <3>2, <3>3
    <2>3. <<s, 1>> \in PostedTo(m) <=> Head(inbox[s]).src = m
      BY <1>1, <1>2
    <2>4. A \subseteq Sessions \X Nat
      BY <1>2
    <2>5. QED
      BY <2>1, <2>2, <2>3, <2>4
  <1>4. /\ IsFiniteSet(A) /\ Cardinality(PostedTo(m)) \in Nat /\ Cardinality(A) \in Nat
        /\ Cardinality(A) = IF <<s, 1>> \in PostedTo(m) THEN Cardinality(PostedTo(m)) - 1
                            ELSE Cardinality(PostedTo(m))
    BY FS_RemoveElement, FS_CardinalityType
  <1>5. B \subseteq Sessions \X Nat
    BY <1>2
  <1> HIDE DEF A, B
  <1>6. IsFiniteSet(B) /\ Cardinality(B) = Cardinality(A)
    <2> DEFINE g == [q \in A |-> IF q[1] = s THEN <<s, q[2] - 1>> ELSE q]
    <2>1. ASSUME NEW q \in A PROVE g[q] \in B
      <3>1. PICK t \in Sessions, i \in Nat : q = <<t, i>>
        BY <1>3, <2>1
      <3>2. CASE t = s
        <4>1. g[q] = <<s, i - 1>> /\ i >= 2
          BY <1>3, <2>1, <3>1, <3>2
        <4>2. i - 1 \in Nat /\ (i - 1) + 1 = i /\ i - 1 >= 1
          BY <4>1
        <4>3. <<s, (i - 1) + 1>> \in A
          BY <2>1, <3>1, <3>2, <4>2
        <4>4. QED
          BY <1>3, <4>1, <4>2, <4>3
      <3>3. CASE t # s
        <4>1. g[q] = q
          BY <3>1, <3>3
        <4>2. QED
          BY <1>3, <2>1, <3>1, <3>3, <4>1
      <3>4. QED
        BY <3>2, <3>3
    <2>2. ASSUME NEW p \in A, NEW q \in A, g[p] = g[q] PROVE p = q
      <3>1. PICK t \in Sessions, i \in Nat : p = <<t, i>>
        BY <1>3
      <3>2. PICK u \in Sessions, j \in Nat : q = <<u, j>>
        BY <1>3
      <3>3. g[p] = IF t = s THEN <<s, i - 1>> ELSE <<t, i>>
        BY <3>1
      <3>4. g[q] = IF u = s THEN <<s, j - 1>> ELSE <<u, j>>
        BY <3>2
      <3>5. QED
        BY <2>2, <3>1, <3>2, <3>3, <3>4
    <2>3. ASSUME NEW q \in B PROVE \E p \in A : g[p] = q
      <3>1. PICK t \in Sessions, i \in Nat : q = <<t, i>>
        BY <1>5, <2>3
      <3>2. CASE t = s
        <4>1. <<s, i + 1>> \in A
          BY <1>3, <2>3, <3>1, <3>2
        <4>2. g[<<s, i + 1>>] = <<s, (i + 1) - 1>> /\ (i + 1) - 1 = i
          BY <4>1
        <4>3. QED
          BY <3>1, <3>2, <4>1, <4>2
      <3>3. CASE t # s
        <4>1. q \in A
          BY <1>3, <2>3, <3>1, <3>3
        <4>2. g[q] = q
          BY <3>1, <3>3, <4>1
        <4>3. QED
          BY <4>1, <4>2
      <3>4. QED
        BY <3>2, <3>3
    <2>4. g \in [A -> B]
      BY <2>1
    <2> HIDE DEF g
    <2>5. g \in Bijection(A, B)
      BY <2>2, <2>3, <2>4 DEF Bijection, Injection, Surjection, IsInjective
    <2>6. ExistsBijection(A, B)
      BY <2>5 DEF ExistsBijection
    <2>7. QED
      BY <1>4, <2>6, FS_Bijection
  <1>7. PICK b \in Int : b = Bit(Head(inbox[s]).src = m)
    BY DEF Bit
  <1>8. Cardinality(B) = Cardinality(PostedTo(m)) + (-b)
    BY <1>3, <1>4, <1>6, <1>7 DEF Bit
  <1>9. IsFiniteSet(PostedTo(m)')
        /\ Cardinality(PostedTo(m)') = Cardinality(PostedTo(m)) + (-b)
    BY <1>6, <1>8 DEF B
  <1>10. QED
    BY <1>7, <1>9 DEF PostedBy

LEMMA CountedBy ==
  ASSUME NEW d \in [Sessions -> SourceFields(Int)], NEW x \in Sessions \cup {None},
         NEW m \in Sessions, NEW b \in Int, b = Bit(x = m)
  PROVE  /\ Counted(d, x, 1)[m].refs = d[m].refs + b
         /\ Counted(d, x, -1)[m].refs = d[m].refs + (-b)
         /\ Counted(d, x, 2)[m].refs = d[m].refs + (b + b)
  <1>1. \A y \in Sessions : d[y] \in SourceFields(Int) /\ d[y].refs \in Int
    BY DEF SourceFields
  <1>2. CASE x = None
    <2>1. \A k \in Int : Counted(d, x, k) = d
      BY <1>2 DEF Counted
    <2>2. b = 0
      BY <1>2 DEF Bit, ConstantsAssumption
    <2>3. QED
      BY <1>1, <2>1, <2>2
  <1>3. CASE x # None
    <2>1. \A k \in Int : Counted(d, x, k) = [d EXCEPT ![x] = [d[x] EXCEPT !.refs = @ + k]]
      BY <1>3 DEF Counted
    <2>2. \A k \in Int : [d[x] EXCEPT !.refs = @ + k].refs = d[x].refs + k
      BY <1>1, <1>3 DEF SourceFields
    <2>3. CASE x = m
      <3>1. \A k \in Int : Counted(d, x, k)[m].refs = d[m].refs + k
        BY <1>3, <2>1, <2>2, <2>3
      <3>2. b = 1
        BY <2>3 DEF Bit
      <3>3. QED
        BY <1>1, <3>1, <3>2
    <2>4. CASE x # m
      <3>1. \A k \in Int : Counted(d, x, k)[m] = d[m]
        BY <1>3, <2>1, <2>4
      <3>2. b = 0
        BY <2>4 DEF Bit
      <3>3. QED
        BY <1>1, <3>1, <3>2
    <2>5. QED
      BY <2>3, <2>4
  <1>4. QED
    BY <1>2, <1>3

\* The same for a step that leaves the registry and the frames alone.
LEMMA BalancedHere ==
  ASSUME Types, Types', Accounts, NEW m \in Sessions, NEW s \in Sessions,
         UNCHANGED <<streams, frames>>, OnlyOf(s), md'[m].replaced = md[m].replaced,
         NEW a \in Int, NEW e \in Int, NEW d \in Int,
         md'[m].refs = md[m].refs + a, HeldOf(s, m)' = HeldOf(s, m) + e, PostedBy(m, d),
         a = e + d
  PROVE  (Finite(m) /\ AccountOf(m))'
  <1>1. s \in Keys /\ Len(frames[m]) \in Nat
    BY DEF Keys, Types, MediaOK
  <1>2. PICK i \in Int : i = 0
    OBVIOUS
  <1>3. /\ \A j \in Keys \ {s} : streams'[j] = streams[j]
        /\ Bit(streams'[s] = m) = Bit(streams[s] = m) + i
        /\ Len(frames'[m]) = Len(frames[m]) + i
        /\ Bit(md'[m].replaced) = Bit(md[m].replaced) + i
    BY <1>1, <1>2 DEF Bit
  <1>4. a = e + d + i + i + i
    BY <1>2
  <1>5. Balance(m, s, s, a, e, d, i, i, i)
    BY <1>3, <1>4 DEF Balance
  <1>6. QED
    BY <1>1, <1>5, Balanced

\* A step that leaves the users of all sources as they are.
LEMMA StillAccount ==
  ASSUME Types, Types', Accounts, NEW m \in Sessions, NEW s \in Sessions, OnlyOf(s),
         ss'[s].mdsrc = ss[s].mdsrc, th'[s].src = th[s].src,
         (th'[s].op = "kick" /\ th'[s].target = m) <=> (th[s].op = "kick" /\ th[s].target = m),
         UNCHANGED <<inbox, streams, frames>>,
         md'[m].refs = md[m].refs, md'[m].replaced = md[m].replaced
  PROVE  (Finite(m) /\ AccountOf(m))'
  <1>1. HeldOf(s, m)' = HeldOf(s, m)
    BY DEF HeldOf, Bit
  <1>2. PostedBy(m, 0)
    BY PostedSame DEF Accounts, Finite
  <1>3. HeldOf(s, m) \in Int /\ md[m].refs \in Int
    BY DEF HeldOf, Bit, Types, SourceFields
  <1>4. HeldOf(s, m)' = HeldOf(s, m) + 0 /\ md'[m].refs = md[m].refs + 0
    BY <1>1, <1>3
  <1>5. 0 = 0 + 0
    OBVIOUS
  <1>6. QED
    BY <1>2, <1>4, <1>5, BalancedHere

\* An event is posted, and takes a reference.
LEMMA PostAccount ==
  ASSUME Types, Types', Accounts, NEW m \in Sessions, NEW s \in Sessions,
         NEW k \in {"publish", "play", "close"}, NEW n \in Names \cup {None},
         Post(s, k, n), UNCHANGED <<ss, th, streams, frames>>
  PROVE  (Finite(m) /\ AccountOf(m))'
  <1>1. PICK b \in Int : b = Bit(ss[s].mdsrc = m)
    BY DEF Bit
  <1>2. PostedBy(m, b)
    BY <1>1, PostedMore DEF Accounts, Finite
  <1>3. md'[m].refs = md[m].refs + b /\ md'[m].replaced = md[m].replaced
    <2>1. ss[s].mdsrc \in Sessions \cup {None} /\ md \in [Sessions -> SourceFields(Int)]
          /\ md' = Counted(md, ss[s].mdsrc, 1)
      BY DEF Types, SessionFields, Post
    <2>2. Alike(md'[m], md[m])
      BY PostEffect DEF NoSourceBut
    <2>3. QED
      BY <1>1, <2>1, <2>2, CountedBy DEF Alike
  <1>4. HeldOf(s, m)' = HeldOf(s, m) + 0 /\ OnlyOf(s)
    <2>1. HeldOf(s, m)' = HeldOf(s, m) /\ HeldOf(s, m) \in Int
      BY DEF HeldOf, Bit
    <2>2. QED
      BY <2>1 DEF OnlyOf
  <1>5. b = 0 + b
    OBVIOUS
  <1>6. QED
    BY <1>2, <1>3, <1>4, <1>5, BalancedHere

\* An event is done with and drops its reference.
LEMMA FinishAccount ==
  ASSUME Types, Types', Accounts, NEW m \in Sessions, NEW s \in Sessions,
         NEW d \in [Sessions -> SourceFields(Int)], Finish(s, d), th[s].op # "kick",
         d[m].refs = md[m].refs, d[m].replaced = md[m].replaced,
         \A t \in Sessions : ss'[t].mdsrc = ss[t].mdsrc,
         UNCHANGED <<inbox, streams, frames>>
  PROVE  (Finite(m) /\ AccountOf(m))'
  <1>1. PICK b \in Int : b = Bit(th[s].src = m)
    BY DEF Bit
  <1>2. /\ ThreadDone(s) /\ \A x \in Sessions : Alike(md'[x], d[x])
        /\ th[s].src \in Sessions \cup {None} /\ md' = Counted(d, th[s].src, -1)
    BY Finished DEF Types, HandlersOK, Handling, Finish
  <1>3. md'[m].refs = md[m].refs + (-b) /\ md'[m].replaced = md[m].replaced
    BY <1>1, <1>2, CountedBy DEF Alike
  <1>4. OnlyOf(s) /\ th'[s].src = None /\ th'[s].op = None
    BY <1>2 DEF OnlyOf, ThreadDone, ThreadAt
  <1>5. HeldOf(s, m)' = HeldOf(s, m) + (-b)
    <2>1. PICK a \in Int : a = Bit(ss[s].mdsrc = m)
      BY DEF Bit
    <2>2. /\ Bit(ss'[s].mdsrc = m) = a /\ Bit(th'[s].src = m) = 0
          /\ Bit(th[s].op = "kick" /\ th[s].target = m) = 0
          /\ Bit(th'[s].op = "kick" /\ th'[s].target = m) = 0
      BY <1>4, <2>1 DEF Bit, ConstantsAssumption
    <2>3. HeldOf(s, m) = a + b + 0 /\ HeldOf(s, m)' = a + 0 + 0
      BY <1>1, <2>1, <2>2 DEF HeldOf
    <2>4. QED
      BY <2>3
  <1>6. PostedBy(m, 0)
    BY PostedSame DEF Accounts, Finite
  <1>7. -b \in Int /\ -b = (-b) + 0
    OBVIOUS
  <1>8. QED
    BY <1>3, <1>4, <1>5, <1>6, <1>7, BalancedHere

\* An event is taken and done with at once; or the thread that takes it up has its
\* source from then on.
LEMMA TakenAccount ==
  ASSUME Types, Types', Accounts, NEW m \in Sessions, NEW s \in Sessions, NEW k,
         IsNext(s, k), Taken(s), UNCHANGED <<th, streams, frames>>,
         md' = Counted(md, Head(inbox[s]).src, -1),
         \A t \in Sessions : ss'[t].mdsrc = ss[t].mdsrc
  PROVE  (Finite(m) /\ AccountOf(m))'
  <1>1. PICK b \in Int : b = Bit(Head(inbox[s]).src = m)
    BY DEF Bit
  <1>2. Head(inbox[s]).src \in Sessions \cup {None}
    BY TakenEffect DEF Events
  <1>3. md'[m].refs = md[m].refs + (-b) /\ md'[m].replaced = md[m].replaced
    <2>1. md \in [Sessions -> SourceFields(Int)]
      BY DEF Types
    <2>2. Alike(md'[m], md[m])
      BY <1>2, <2>1, CountedKeeps
    <2>3. QED
      BY <1>1, <1>2, <2>1, <2>2, CountedBy DEF Alike
  <1>4. HeldOf(s, m)' = HeldOf(s, m) + 0 /\ OnlyOf(s)
    <2>1. HeldOf(s, m)' = HeldOf(s, m) /\ HeldOf(s, m) \in Int
      BY DEF HeldOf, Bit
    <2>2. OnlyOf(s)
      BY DEF OnlyOf
    <2>3. QED
      BY <2>1, <2>2
  <1>5. PostedBy(m, -b)
    BY <1>1, PostedLess DEF Accounts, Finite
  <1>6. -b \in Int /\ -b = 0 + (-b)
    OBVIOUS
  <1>7. QED
    BY <1>3, <1>4, <1>5, <1>6, BalancedHere

LEMMA TakenUpAccount ==
  ASSUME Types, Types', Inv, Accounts, NEW m \in Sessions, NEW s \in Sessions, NEW k,
         IsNext(s, k), Taken(s), UNCHANGED <<streams, frames, md>>,
         \A t \in Sessions : ss'[t].mdsrc = ss[t].mdsrc,
         \A t \in Sessions \ {s} : th'[t] = th[t],
         th'[s].src = Head(inbox[s]).src, th'[s].op # "kick"
  PROVE  (Finite(m) /\ AccountOf(m))'
  <1>1. PICK b \in Int : b = Bit(Head(inbox[s]).src = m)
    BY DEF Bit
  <1>2. th[s].src = None /\ th[s].op = None
    BY TakenEffect DEF Inv, HandlerInv, HandlerOf
  <1>3. OnlyOf(s)
    BY DEF OnlyOf
  <1>4. HeldOf(s, m)' = HeldOf(s, m) + b
    <2>1. PICK a \in Int : a = Bit(ss[s].mdsrc = m)
      BY DEF Bit
    <2>2. /\ Bit(ss'[s].mdsrc = m) = a /\ Bit(th[s].src = m) = 0 /\ Bit(th'[s].src = m) = b
          /\ Bit(th[s].op = "kick" /\ th[s].target = m) = 0
          /\ Bit(th'[s].op = "kick" /\ th'[s].target = m) = 0
      BY <1>1, <1>2, <2>1 DEF Bit, ConstantsAssumption
    <2>3. HeldOf(s, m) = a + 0 + 0 /\ HeldOf(s, m)' = a + b + 0
      BY <2>1, <2>2 DEF HeldOf
    <2>4. QED
      BY <2>3
  <1>5. PostedBy(m, -b)
    BY <1>1, PostedLess DEF Accounts, Finite
  <1>6. PICK z \in Int, c \in Int : z = 0 /\ c = -b /\ z = b + c
    OBVIOUS
  <1>7. md'[m].refs = md[m].refs + z /\ md'[m].replaced = md[m].replaced /\ PostedBy(m, c)
    BY <1>5, <1>6 DEF Types, SourceFields
  <1>8. QED
    BY <1>3, <1>4, <1>6, <1>7, BalancedHere

\* What s has of m, when the parts are named.
LEMMA HeldIs ==
  ASSUME NEW s, NEW m, NEW a \in Int, NEW b \in Int, NEW c \in Int,
         a = Bit(ss[s].mdsrc = m), b = Bit(th[s].src = m),
         c = Bit(th[s].op = "kick" /\ th[s].target = m)
  PROVE  HeldOf(s, m) = a + b + c
  BY DEF HeldOf

LEMMA HeldWillBe ==
  ASSUME NEW s, NEW m, NEW a \in Int, NEW b \in Int, NEW c \in Int,
         a = Bit(ss'[s].mdsrc = m), b = Bit(th'[s].src = m),
         c = Bit(th'[s].op = "kick" /\ th'[s].target = m)
  PROVE  HeldOf(s, m)' = a + b + c
  BY DEF HeldOf

\* Publish: the session gives up the source it had, a player's that was refused.
LEMMA PublishAccount ==
  ASSUME Types, Types', Inv, Accounts, NEW m \in Sessions, NEW s \in Sessions, Publish(s)
  PROVE  (Finite(m) /\ AccountOf(m))'
  <1> DEFINE e == Head(inbox[s])
  <1>1. /\ IsNext(s, "publish") /\ Taken(s) /\ e \in Events /\ NoSourceBut
        /\ UNCHANGED <<streams, frames>> /\ th[s].pc = "idle"
    BY PublishEffect, TakenEffect DEF media
  <1>2. /\ e.src \in Sessions \cup {None} /\ ss[s].mdsrc \in Sessions \cup {None}
        /\ md \in [Sessions -> SourceFields(Int)] /\ md'[m].replaced = md[m].replaced
        /\ th[s].src = None /\ th[s].op = None
    BY <1>1 DEF Types, SessionFields, Events, Inv, HandlerInv, HandlerOf, NoSourceBut, Alike
  <1>3. CASE ss[s].playing
    <2>1. md' = Counted(md, e.src, -1) /\ UNCHANGED <<ss, th>>
      BY <1>3 DEF Publish, Refused
    <2>2. QED
      BY <1>1, <2>1, TakenAccount
  <1>4. PICK a \in Int, b \in Int : a = Bit(ss[s].mdsrc = m) /\ b = Bit(e.src = m)
    BY DEF Bit
  <1>5. PICK x \in Int, y \in Int : x = -a /\ y = -b
    OBVIOUS
  <1>6. PostedBy(m, y)
    BY <1>1, <1>4, <1>5, PostedLess DEF Accounts, Finite
  <1>7. /\ Bit(th[s].src = m) = 0 /\ Bit(th[s].op = "kick" /\ th[s].target = m) = 0
        /\ Bit(None = m) = 0
    BY <1>2 DEF Bit, ConstantsAssumption
  <1>8. HeldOf(s, m) = a + 0 + 0
    BY <1>4, <1>7, HeldIs
  <1>9. CASE ~ss[s].playing /\ e.name = None
    <2>1. /\ md' = Counted(Counted(md, e.src, -1), ss[s].mdsrc, -1) /\ th' = th
          /\ ss' = [ss EXCEPT ![s].srcCtx = TRUE, ![s].mdsrc = None]
      BY <1>9 DEF Publish
    <2>2. ss'[s].mdsrc = None /\ OnlyOf(s)
      BY <2>1 DEF OnlyOf, Types, SessionFields
    <2>3. HeldOf(s, m)' = 0 + 0 + 0
      <3>1. /\ Bit(ss'[s].mdsrc = m) = 0 /\ Bit(th'[s].src = m) = 0
            /\ Bit(th'[s].op = "kick" /\ th'[s].target = m) = 0
        BY <1>7, <2>1, <2>2
      <3>2. QED
        BY <3>1, HeldWillBe
    <2>4. md'[m].refs = md[m].refs + (x + y)
      <3> DEFINE d == Counted(md, e.src, -1)
      <3>1. d \in [Sessions -> SourceFields(Int)] /\ d[m].refs = md[m].refs + (-b)
        <4>1. d \in [Sessions -> SourceFields(Int)]
          BY <1>2, CountedKeeps
        <4>2. d[m].refs = md[m].refs + (-b)
          BY <1>2, <1>4, CountedBy
        <4>3. QED
          BY <4>1, <4>2
      <3>2. md' = Counted(d, ss[s].mdsrc, -1)
        BY <2>1
      <3> HIDE DEF d
      <3>3. ss[s].mdsrc \in Sessions \cup {None} /\ a = Bit(ss[s].mdsrc = m)
        BY <1>2, <1>4
      <3>4. Counted(d, ss[s].mdsrc, -1)[m].refs = d[m].refs + (-a)
        BY <3>1, <3>3, CountedBy
      <3>5. PICK i \in Int : i = md[m].refs
        BY <1>2 DEF SourceFields
      <3>6. md'[m].refs = (i + (-b)) + (-a)
        BY <3>1, <3>2, <3>4, <3>5
      <3>7. md'[m].refs = i + (x + y)
        BY <1>5, <3>6
      <3>8. QED
        BY <3>5, <3>7
    <2>5. HeldOf(s, m)' = HeldOf(s, m) + x
      BY <1>5, <1>8, <2>3
    <2>6. x + y \in Int
      OBVIOUS
    <2>7. QED
      BY <1>1, <1>2, <1>6, <2>2, <2>4, <2>5, <2>6, BalancedHere
  <1>10. CASE ~ss[s].playing /\ e.name # None
    <2>1. /\ md' = Counted(md, ss[s].mdsrc, -1)
          /\ ss' = [ss EXCEPT ![s].srcCtx = TRUE, ![s].mdsrc = None,
                              ![s].stream = e.name, ![s].valid = TRUE]
      BY <1>10 DEF Publish
    <2>2. \E p \in {"kick", "exist"} : th' = [th EXCEPT ![s].src = e.src, ![s].pc = p]
      BY <1>10 DEF Publish
    <2>3. /\ th'[s].src = e.src /\ th'[s].op = None
          /\ \A t \in Sessions \ {s} : th'[t] = th[t]
      BY <1>2, <2>2 DEF Types, HandlersOK, Handling
    <2>4. ss'[s].mdsrc = None /\ \A t \in Sessions \ {s} : ss'[t] = ss[t]
      BY <2>1 DEF Types, SessionFields
    <2>5. OnlyOf(s)
      BY <2>3, <2>4 DEF OnlyOf
    <2>6. HeldOf(s, m)' = 0 + b + 0
      <3>1. /\ Bit(ss'[s].mdsrc = m) = 0 /\ Bit(th'[s].src = m) = b
            /\ Bit(th'[s].op = "kick" /\ th'[s].target = m) = 0
        BY <1>4, <1>7, <2>3, <2>4 DEF Bit, ConstantsAssumption
      <3>2. QED
        BY <3>1, HeldWillBe
    <2>7. md'[m].refs = md[m].refs + x
      BY <1>2, <1>4, <1>5, <2>1, CountedBy
    <2>8. PICK z \in Int : z = b - a
      OBVIOUS
    <2>9. HeldOf(s, m)' = HeldOf(s, m) + z /\ x = z + y
      BY <1>5, <1>8, <2>6, <2>8
    <2>10. QED
      BY <1>1, <1>2, <1>6, <2>5, <2>7, <2>9, BalancedHere
  <1>11. QED
    BY <1>3, <1>9, <1>10

\* The same for a step that changes what is registered under n.
NameBalance(m, s, n, a, e, f, r) ==
    /\ UNCHANGED <<inbox, frames>> /\ OnlyOf(s)
    /\ \A j \in Keys \ {n} : streams'[j] = streams[j]
    /\ md'[m].refs = md[m].refs + a
    /\ HeldOf(s, m)' = HeldOf(s, m) + e
    /\ Bit(streams'[n] = m) = Bit(streams[n] = m) + f
    /\ Bit(md'[m].replaced) = Bit(md[m].replaced) + r
    /\ a = e + f + r

LEMMA BalancedName ==
  ASSUME Types, Types', Accounts, NEW m \in Sessions, NEW s \in Sessions, NEW n \in Keys,
         NEW a \in Int, NEW e \in Int, NEW f \in Int, NEW r \in Int,
         NameBalance(m, s, n, a, e, f, r)
  PROVE  (Finite(m) /\ AccountOf(m))'
  <1>1. Len(frames[m]) \in Nat
    BY DEF Types, MediaOK
  <1>2. PICK i \in Int : i = 0
    OBVIOUS
  <1>3. PostedBy(m, i) /\ Len(frames'[m]) = Len(frames[m]) + i
    BY <1>1, <1>2, PostedSame DEF Accounts, Finite, NameBalance
  <1>4. a = e + i + f + i + r
    BY <1>2 DEF NameBalance
  <1>5. Balance(m, s, n, a, e, i, f, i, r)
    BY <1>3, <1>4 DEF Balance, NameBalance
  <1>6. QED
    BY <1>5, Balanced

\* The same for a frame that is queued, or is done with.
LEMMA BalancedFrame ==
  ASSUME Types, Types', Accounts, NEW m \in Sessions,
         UNCHANGED <<inbox, ss, th, streams>>, md'[m].replaced = md[m].replaced,
         NEW a \in Int, md'[m].refs = md[m].refs + a, Len(frames'[m]) = Len(frames[m]) + a
  PROVE  (Finite(m) /\ AccountOf(m))'
  <1>1. PostedBy(m, 0) /\ m \in Keys /\ OnlyOf(m)
    BY PostedSame DEF Accounts, Finite, Keys, OnlyOf
  <1>2. HeldOf(m, m) \in Int /\ HeldOf(m, m)' = HeldOf(m, m)
    BY DEF HeldOf, Bit
  <1>3. PICK i \in Int : i = 0
    OBVIOUS
  <1>4. /\ HeldOf(m, m)' = HeldOf(m, m) + i
        /\ Bit(streams'[m] = m) = Bit(streams[m] = m) + i
        /\ Bit(md'[m].replaced) = Bit(md[m].replaced) + i
    BY <1>2, <1>3 DEF Bit
  <1>5. a = i + i + i + a + i /\ \A j \in Keys \ {m} : streams'[j] = streams[j]
    BY <1>3
  <1>6. Balance(m, m, m, a, i, i, i, a, i)
    BY <1>1, <1>3, <1>4, <1>5 DEF Balance
  <1>7. QED
    BY <1>1, <1>6, Balanced

\* What the registry had is the kicking thread's.
LEMMA KickAccount ==
  ASSUME Types, Types', Inv, Accounts, NEW m \in Sessions, NEW s \in Sessions, Kick(s)
  PROVE  (Finite(m) /\ AccountOf(m))'
  <1> DEFINE n == ss[s].stream
  <1>1. /\ n \in Keys /\ ss[s].stream # None /\ th[s].pc = "kick" /\ th[s].op = None
    <2>1. th[s].pc = "kick"
      BY DEF Kick
    <2>2. ss[s].stream # None /\ th[s].op = None
      BY <2>1, StreamKnown DEF Inv, HandlerInv, HandlerOf
    <2>3. QED
      BY <2>1, <2>2 DEF Types, SessionFields
  <1>2. UNCHANGED <<inbox, ss, md, frames>>
    BY DEF Kick, media
  <1>3. CASE streams[n] = None
    <2>1. ThreadTo(s, "create") /\ UNCHANGED streams
      BY <1>1, <1>3, KickEffect
    <2>2. /\ OnlyOf(s) /\ th'[s].src = th[s].src /\ th'[s].op = th[s].op
          /\ th'[s].target = th[s].target
      BY <1>2, <2>1 DEF OnlyOf, ThreadTo, ThreadAt
    <2>3. QED
      BY <1>2, <2>1, <2>2, StillAccount
  <1>4. CASE streams[n] # None
    <2>1. /\ ThreadAt(s, "kickTest", "kick", th[s].src, streams[n])
          /\ streams' = [streams EXCEPT ![n] = None]
      BY <1>1, <1>4, KickEffect
    <2>2. /\ OnlyOf(s) /\ th'[s].src = th[s].src /\ th'[s].op = "kick"
          /\ th'[s].target = streams[n]
      BY <1>2, <2>1 DEF OnlyOf, ThreadAt
    <2>3. streams'[n] = None /\ \A j \in Keys \ {n} : streams'[j] = streams[j]
      BY <1>1, <2>1 DEF Types, RegistryOK
    <2>4. PICK a \in Int, b \in Int, c \in Int, z \in Int :
            /\ a = Bit(ss[s].mdsrc = m) /\ b = Bit(th[s].src = m) /\ c = Bit(streams[n] = m)
            /\ z = -c
      BY DEF Bit
    <2>5. HeldOf(s, m) = a + b + 0
      <3>1. Bit(th[s].op = "kick" /\ th[s].target = m) = 0
        BY <1>1 DEF Bit, ConstantsAssumption
      <3>2. QED
        BY <2>4, <3>1, HeldIs
    <2>6. HeldOf(s, m)' = a + b + c
      <3>1. /\ Bit(ss'[s].mdsrc = m) = a /\ Bit(th'[s].src = m) = b
            /\ Bit(th'[s].op = "kick" /\ th'[s].target = m) = c
        BY <1>2, <2>2, <2>4 DEF Bit
      <3>2. QED
        BY <3>1, HeldWillBe
    <2>7. HeldOf(s, m)' = HeldOf(s, m) + c
      BY <2>5, <2>6
    <2>8. Bit(streams'[n] = m) = Bit(streams[n] = m) + z
      <3>1. Bit(streams'[n] = m) = 0
        BY <2>3 DEF Bit, ConstantsAssumption
      <3>2. 0 = c + z
        BY <2>4
      <3>3. QED
        BY <2>4, <3>1, <3>2
    <2>9. PICK i \in Int : i = 0
      OBVIOUS
    <2>10. /\ md'[m].refs = md[m].refs + i /\ Bit(md'[m].replaced) = Bit(md[m].replaced) + i
      BY <1>2, <2>9 DEF Types, SourceFields, Bit
    <2>11. i = c + z + i
      BY <2>4, <2>9
    <2> HIDE DEF n
    <2>12. NameBalance(m, s, n, i, c, z, i)
      BY <1>2, <2>2, <2>3, <2>7, <2>8, <2>10, <2>11 DEF NameBalance
    <2>13. QED
      BY <1>1, <2>12, BalancedName
  <1>5. QED
    BY <1>3, <1>4

\* Nobody uses a source that has not been created.
LEMMA Unused ==
  ASSUME Types, Inv, NEW m \in Sessions, ~Made(m)
  PROVE  InUse(m) = 0 /\ ~md[m].replaced
  <1>1. SessionsOf(m) = {} /\ HandlersOf(m) = {}
    BY DEF SessionsOf, HandlersOf, Inv, SourceInv, SourceOf, ConstantsAssumption
  <1>2. KickersOf(m) = {}
    BY TargetMade DEF KickersOf, ConstantsAssumption
  <1>3. PostedTo(m) = {}
    <2>1. \A t, i : <<t, i>> \notin PostedTo(m)
      <3>1. \A t, i : <<t, i>> \in PostedTo(m) =>
               t \in Sessions /\ i \in 1..Len(inbox[t]) /\ inbox[t][i].src = m
        BY PostedIs DEF PostedTo, Types, NetOK
      <3>2. \A t \in Sessions : \A i \in 1..Len(inbox[t]) : inbox[t][i].src # m
        BY DEF Inv, SourceInv, SourceOf, ConstantsAssumption
      <3>3. QED
        BY <3>1, <3>2
    <2>2. PostedTo(m) \subseteq Sessions \X Nat
      BY PostedIs DEF PostedTo, Types, NetOK
    <2>3. QED
      BY <2>1, <2>2
  <1>4. NamesOf(m) = {}
    <2>1. ASSUME NEW n \in Keys, streams[n] = m PROVE FALSE
      <3>1. Entered(m)
        BY <2>1 DEF Inv, RegistryInv, NameOf, ConstantsAssumption
      <3>2. QED
        BY <3>1, EnteredMade
    <2>2. QED
      BY <2>1 DEF NamesOf
  <1>5. frames[m] = <<>> /\ ~md[m].replaced
    BY DEF Inv, SourceInv, ContextOf, Alike, NoSource
  <1>6. Len(frames[m]) = 0 /\ Cardinality({}) = 0
    BY <1>5, FS_EmptySet
  <1>7. InUse(m) = 0 + 0 + 0 + 0 + 0 + 0
    BY <1>1, <1>2, <1>3, <1>4, <1>6, InUseIs
  <1>8. QED
    BY <1>5, <1>7

\* A source starts with the references of its session and of the event.
LEMMA CreateAccount ==
  ASSUME Types, Types', Inv, Accounts, NEW m \in Sessions, NEW s \in Sessions, Create(s)
  PROVE  (Finite(m) /\ AccountOf(m))'
  <1>1. /\ th[s].pc = "create" /\ th[s].op = None /\ ss[s].mdsrc = None /\ ~Made(s)
        /\ UNCHANGED <<inbox, streams, frames>>
    BY CreateEffect DEF Inv, HandlerInv, HandlerOf, StageInv, StageOf, Made, media
  <1>2. /\ SessionBut(s, {"mdsrc"}) /\ ss'[s].mdsrc = s
        /\ ThreadAt(s, "add", None, s, th[s].target) /\ SourceBut(s, {"ctxSrc", "rtmp"})
    BY <1>1, CreateEffect
  <1>3. /\ OnlyOf(s) /\ th'[s].src = s /\ th'[s].op = None
        /\ md'[m].replaced = md[m].replaced
    BY <1>2 DEF OnlyOf, SessionBut, ThreadAt, SourceBut, Alike
  <1>4. PostedBy(m, 0)
    BY <1>1, PostedSame DEF Accounts, Finite
  <1>5. md \in [Sessions -> SourceFields(Int)] /\ th[s].src \in Sessions \cup {None}
    BY DEF Types, HandlersOK, Handling
  <1> DEFINE d == Counted(md, th[s].src, -1)
  <1>6. d \in [Sessions -> SourceFields(Int)]
    BY <1>5, CountedKeeps
  <1>7. md' = [d EXCEPT ![s].ctxSrc = s, ![s].rtmp = TRUE, ![s].refs = 2]
    BY DEF Create
  <1>8. PICK b \in Int, z \in Int : b = Bit(th[s].src = m) /\ z = -b
    BY DEF Bit
  <1>9. d[m].refs = md[m].refs + (-b)
    BY <1>5, <1>8, CountedBy
  <1> HIDE DEF d
  <1>10. PICK i \in Int : i = 0
    OBVIOUS
  <1>11. /\ Bit(ss[s].mdsrc = m) = 0 /\ Bit(th[s].op = "kick" /\ th[s].target = m) = 0
         /\ Bit(th'[s].op = "kick" /\ th'[s].target = m) = 0
    BY <1>1, <1>3 DEF Bit, ConstantsAssumption
  <1>12. HeldOf(s, m) = 0 + b + 0
    BY <1>8, <1>11, HeldIs
  <1>13. CASE m # s
    <2>1. md'[m].refs = md[m].refs + z
      BY <1>6, <1>7, <1>8, <1>9, <1>13
    <2>2. HeldOf(s, m)' = 0 + 0 + 0
      <3>1. Bit(ss'[s].mdsrc = m) = 0 /\ Bit(th'[s].src = m) = 0
        BY <1>2, <1>3, <1>13 DEF Bit
      <3>2. QED
        BY <1>11, <3>1, HeldWillBe
    <2>3. HeldOf(s, m)' = HeldOf(s, m) + z /\ z = z + i /\ PostedBy(m, i)
      BY <1>4, <1>8, <1>10, <1>12, <2>2
    <2>4. QED
      BY <1>1, <1>3, <2>1, <2>3, BalancedHere
  <1>14. CASE m = s
    <2>1. md'[m].refs = 2
      <3>1. d[s] \in SourceFields(Int)
        BY <1>6
      <3>2. md'[s].refs = [d[s] EXCEPT !.ctxSrc = s, !.rtmp = TRUE, !.refs = 2].refs
        BY <1>6, <1>7
      <3>3. QED
        BY <1>14, <3>1, <3>2 DEF SourceFields
    <2>2. md[m].refs = 0
      BY <1>1, <1>14, Unused DEF Accounts, AccountOf, Bit
    <2>3. b = 0
      BY <1>1, <1>8, <1>14 DEF Bit, Inv, SourceInv, SourceOf, ConstantsAssumption
    <2>4. HeldOf(s, m)' = 1 + 1 + 0
      <3>1. Bit(ss'[s].mdsrc = m) = 1 /\ Bit(th'[s].src = m) = 1
        BY <1>2, <1>3, <1>14 DEF Bit
      <3>2. QED
        BY <1>11, <3>1, HeldWillBe
    <2>5. PICK t \in Int : t = 2
      OBVIOUS
    <2>6. /\ md'[m].refs = md[m].refs + t /\ HeldOf(s, m)' = HeldOf(s, m) + t
          /\ t = t + i /\ PostedBy(m, i)
      BY <1>4, <1>10, <1>12, <2>1, <2>2, <2>3, <2>4, <2>5
    <2>7. QED
      BY <1>1, <1>3, <2>5, <2>6, BalancedHere
  <1>15. QED
    BY <1>13, <1>14

\* AddMdSource: the registry takes a reference.
LEMMA AddAccount ==
  ASSUME Types, Types', Inv, Accounts, NEW m \in Sessions, NEW s \in Sessions, Add(s)
  PROVE  (Finite(m) /\ AccountOf(m))'
  <1> DEFINE n == ss[s].stream
  <1>1. n \in Keys /\ n # None /\ th[s].pc = "add" /\ th[s].op = None
    <2>1. th[s].pc = "add"
      BY DEF Add
    <2>2. ss[s].stream # None /\ th[s].op = None
      BY <2>1, StreamKnown DEF Inv, HandlerInv, HandlerOf
    <2>3. QED
      BY <2>1, <2>2 DEF Types, SessionFields
  <1>2. UNCHANGED <<inbox, ss, frames>> /\ md \in [Sessions -> SourceFields(Int)]
    BY DEF Add, media, Types
  <1>3. CASE md[s].closedAll \/ streams[n] # None
    <2>1. UNCHANGED <<streams, md>>
      BY <1>3 DEF Add
    <2>2. /\ OnlyOf(s) /\ th'[s].src = th[s].src /\ th'[s].op # "kick"
      <3>1. \/ ThreadTo(s, "attach")
            \/ ThreadAt(s, "closeSrc", "replace", th[s].src, streams[n])
        BY <1>1, <1>3, AddEffect
      <3>2. QED
        BY <1>1, <1>2, <3>1 DEF OnlyOf, ThreadTo, ThreadAt, ConstantsAssumption
    <2>3. th[s].op # "kick"
      BY <1>1 DEF ConstantsAssumption
    <2>4. QED
      BY <1>2, <2>1, <2>2, <2>3, StillAccount
  <1>4. CASE ~md[s].closedAll /\ streams[n] = None
    <2>1. /\ ThreadTo(s, "attach") /\ streams' = [streams EXCEPT ![n] = s]
          /\ md' = Counted(md, s, 1)
      BY <1>1, <1>4, AddEffect DEF Add
    <2>2. /\ OnlyOf(s) /\ th'[s].src = th[s].src /\ th'[s].op = th[s].op
          /\ th'[s].target = th[s].target
      BY <1>2, <2>1 DEF OnlyOf, ThreadTo, ThreadAt
    <2>3. streams'[n] = s /\ \A j \in Keys \ {n} : streams'[j] = streams[j]
      BY <1>1, <2>1 DEF Types, RegistryOK
    <2>4. PICK b \in Int, i \in Int : b = Bit(s = m) /\ i = 0
      BY DEF Bit
    <2>5. md'[m].refs = md[m].refs + b
      BY <1>2, <2>1, <2>4, CountedBy
    <2>6. /\ HeldOf(s, m)' = HeldOf(s, m) + i
          /\ Bit(md'[m].replaced) = Bit(md[m].replaced) + i
      <3>1. HeldOf(s, m)' = HeldOf(s, m) /\ HeldOf(s, m) \in Int
        BY <1>2, <2>2 DEF HeldOf, Bit
      <3>2. Alike(md'[m], md[m])
        BY <1>2, <2>1, CountedKeeps
      <3>3. Bit(md'[m].replaced) = Bit(md[m].replaced) /\ Bit(md[m].replaced) \in Int
        BY <3>2 DEF Alike, Bit
      <3>4. QED
        BY <2>4, <3>1, <3>3
    <2>7. Bit(streams'[n] = m) = Bit(streams[n] = m) + b /\ b = i + b + i
      <3>1. Bit(streams[n] = m) = 0 /\ Bit(streams'[n] = m) = b
        BY <1>4, <2>3, <2>4 DEF Bit, ConstantsAssumption
      <3>2. QED
        BY <2>4, <3>1
    <2> HIDE DEF n
    <2>8. NameBalance(m, s, n, b, i, b, i)
      BY <1>2, <2>2, <2>3, <2>5, <2>6, <2>7 DEF NameBalance
    <2>9. QED
      BY <1>1, <2>8, BalancedName
  <1>5. QED
    BY <1>3, <1>4

\* RemoveMdSourceClose releases what it kicked out; AddMdSource does not release
\* what it replaced, which had no other that replaced it before.
LEMMA ClosedAccount ==
  ASSUME Types, Types', Inv, Accounts, NEW m \in Sessions, NEW s \in Sessions, Closed(s)
  PROVE  (Finite(m) /\ AccountOf(m))'
  <1>1. PICK g \in Sessions : g = th[s].target
    <2>1. th[s].target # None
      BY TargetKnown DEF Closed
    <2>2. QED
      BY <2>1 DEF Types, HandlersOK, Handling
  <1>2. /\ th[s].pc = "closed" /\ UNCHANGED <<inbox, ss, frames>> /\ th[s].target # None
        /\ md \in [Sessions -> SourceFields(Int)]
    BY TargetKnown DEF Closed, media, Types
  <1>3. PICK a \in Int, b \in Int, c \in Int, h \in Int, i \in Int :
          /\ a = Bit(ss[s].mdsrc = m) /\ b = Bit(th[s].src = m) /\ c = Bit(g = m)
          /\ h = Bit(s = m) /\ i = 0
    BY DEF Bit
  <1>4. CASE th[s].op = "kick"
    <2>1. /\ md' = Counted(md, g, -1) /\ UNCHANGED streams
          /\ ThreadAt(s, "create", None, th[s].src, None)
      BY <1>1, <1>2, <1>4, ClosedEffect DEF Closed
    <2>2. OnlyOf(s) /\ th'[s].src = th[s].src /\ th'[s].op = None
      BY <1>2, <2>1 DEF OnlyOf, ThreadAt
    <2>3. md'[m].replaced = md[m].replaced /\ md'[m].refs = md[m].refs + (-c)
      <3>1. Alike(md'[m], md[m])
        BY <1>2, <2>1, CountedKeeps
      <3>2. QED
        BY <1>2, <1>3, <2>1, <3>1, CountedBy DEF Alike
    <2>4. HeldOf(s, m) = a + b + c
      <3>1. Bit(th[s].op = "kick" /\ th[s].target = m) = c
        BY <1>1, <1>3, <1>4 DEF Bit
      <3>2. QED
        BY <1>3, <3>1, HeldIs
    <2>5. HeldOf(s, m)' = a + b + 0
      <3>1. /\ Bit(ss'[s].mdsrc = m) = a /\ Bit(th'[s].src = m) = b
            /\ Bit(th'[s].op = "kick" /\ th'[s].target = m) = 0
        BY <1>2, <1>3, <2>2 DEF Bit, ConstantsAssumption
      <3>2. QED
        BY <3>1, HeldWillBe
    <2>6. PICK z \in Int : z = -c
      OBVIOUS
    <2>7. HeldOf(s, m)' = HeldOf(s, m) + z /\ md'[m].refs = md[m].refs + z /\ z = z + i
      BY <1>3, <2>3, <2>4, <2>5, <2>6
    <2>8. PostedBy(m, i)
      BY <1>2, <1>3, PostedSame DEF Accounts, Finite
    <2>9. QED
      BY <1>2, <2>1, <2>2, <2>3, <2>7, <2>8, BalancedHere
  <1>5. CASE th[s].op = "replace"
    <2> DEFINE n == ss[s].stream
    <2>1. /\ md' = Counted([md EXCEPT ![g].replaced = TRUE], s, 1)
          /\ streams' = [streams EXCEPT ![n] = s]
          /\ ThreadAt(s, "attach", None, th[s].src, None)
      BY <1>1, <1>2, <1>5, ClosedEffect DEF Closed, ConstantsAssumption
    <2>2. OnlyOf(s) /\ th'[s].src = th[s].src /\ th'[s].op = None
      BY <1>2, <2>1 DEF OnlyOf, ThreadAt
    <2>3. n \in Keys /\ streams[n] = g /\ ~md[g].replaced
      <3>1. ss[s].valid /\ ss[s].stream # None
        BY <1>5 DEF Inv, StageInv, StageOf
      <3>2. n \in Keys
        BY <3>1 DEF Types, SessionFields
      <3>3. streams[n] = g
        BY <1>1, <1>5 DEF Inv, RegistryInv, EntryOf
      <3>4. ReplacedOf(g)
        BY DEF Inv, RegistryInv
      <3>5. QED
        BY <3>2, <3>3, <3>4 DEF ReplacedOf
    <2>4. streams'[n] = s /\ \A j \in Keys \ {n} : streams'[j] = streams[j]
      BY <2>1, <2>3 DEF Types, RegistryOK
    <2> DEFINE r == [md[g] EXCEPT !.replaced = TRUE]
    <2> DEFINE d == [md EXCEPT ![g] = r]
    <2>5. r \in SourceFields(Int) /\ r.refs = md[g].refs /\ r.replaced
      <3>1. md[g] \in SourceFields(Int)
        BY <1>2
      <3>2. QED
        BY <3>1 DEF SourceFields
    <2>6. md' = Counted(d, s, 1)
      BY <2>1
    <2> HIDE DEF r
    <2>7. /\ d \in [Sessions -> SourceFields(Int)] /\ d[m].refs = md[m].refs
          /\ d[m].replaced = IF m = g THEN TRUE ELSE md[m].replaced
      BY <1>2, <2>5
    <2> HIDE DEF d
    <2>8. md'[m].refs = md[m].refs + h
      BY <1>3, <2>6, <2>7, CountedBy
    <2>9. Bit(md'[m].replaced) = Bit(md[m].replaced) + c
      <3>1. Alike(md'[m], d[m])
        BY <2>6, <2>7, CountedKeeps
      <3>2. md'[m].replaced = IF m = g THEN TRUE ELSE md[m].replaced
        BY <2>7, <3>1 DEF Alike
      <3>3. CASE m = g
        BY <1>3, <2>3, <3>2, <3>3 DEF Bit
      <3>4. CASE m # g
        BY <1>3, <3>2, <3>4 DEF Bit
      <3>5. QED
        BY <3>3, <3>4
    <2>10. HeldOf(s, m)' = HeldOf(s, m) + i
      <3>1. /\ Bit(ss'[s].mdsrc = m) = a /\ Bit(th'[s].src = m) = b
            /\ Bit(th'[s].op = "kick" /\ th'[s].target = m) = 0
            /\ Bit(th[s].op = "kick" /\ th[s].target = m) = 0
        BY <1>2, <1>3, <1>5, <2>2 DEF Bit, ConstantsAssumption
      <3>2. HeldOf(s, m)' = a + b + 0
        BY <3>1, HeldWillBe
      <3>3. HeldOf(s, m) = a + b + 0
        BY <1>3, <3>1, HeldIs
      <3>4. QED
        BY <1>3, <3>2, <3>3
    <2>11. PICK f \in Int : f = h - c
      OBVIOUS
    <2>12. Bit(streams'[n] = m) = Bit(streams[n] = m) + f
      <3>1. Bit(streams'[n] = m) = h /\ Bit(streams[n] = m) = c
        BY <1>3, <2>3, <2>4 DEF Bit
      <3>2. QED
        BY <2>11, <3>1
    <2>13. h = i + f + c
      BY <1>3, <2>11
    <2> HIDE DEF n
    <2>14. NameBalance(m, s, n, h, i, f, c)
      BY <1>2, <2>2, <2>4, <2>8, <2>9, <2>10, <2>12, <2>13 DEF NameBalance
    <2>15. QED
      BY <2>3, <2>14, BalancedName
  <1>6. CASE th[s].op = "end"
    <2>1. Finish(s, md) /\ UNCHANGED streams
      BY <1>2, <1>6 DEF Closed
    <2>2. QED
      BY <1>2, <1>6, <2>1, FinishAccount
  <1>7. QED
    BY <1>4, <1>5, <1>6 DEF Closed


\* GetMdSource: the session and its event take up what is registered.
LEMMA GetMdSourceAccount ==
  ASSUME Types, Types', Inv, Accounts, NEW m \in Sessions, NEW s \in Sessions, GetMdSource(s)
  PROVE  (Finite(m) /\ AccountOf(m))'
  <1>1. th[s].pc = "find" /\ ss[s].stream # None /\ th[s].op = None /\ ss[s].mdsrc = None
    <2>1. th[s].pc = "find"
      BY DEF GetMdSource
    <2>2. QED
      BY <2>1, StreamKnown DEF Inv, HandlerInv, HandlerOf, StageInv, StageOf
  <1>2. PICK g \in Sessions \cup {None} : g = streams[ss[s].stream]
    <2>1. ss[s].stream \in Keys
      BY <1>1 DEF Types, SessionFields
    <2>2. QED
      BY <2>1 DEF Types, RegistryOK
  <1>3. /\ UNCHANGED <<inbox, streams, frames>> /\ SessionBut(s, {"mdsrc"})
        /\ ss'[s].mdsrc = g /\ ThreadAt(s, "opened", None, g, th[s].target) /\ NoSourceBut
    BY <1>1, <1>2, GetMdSourceEffect DEF media
  <1>4. /\ OnlyOf(s) /\ th'[s].src = g /\ th'[s].op = None
        /\ md'[m].replaced = md[m].replaced
    BY <1>3 DEF OnlyOf, SessionBut, ThreadAt, NoSourceBut, Alike
  <1>5. md \in [Sessions -> SourceFields(Int)] /\ th[s].src \in Sessions \cup {None}
    BY DEF Types, HandlersOK, Handling
  <1>6. PICK b \in Int, c \in Int, i \in Int :
          b = Bit(th[s].src = m) /\ c = Bit(g = m) /\ i = 0
    BY DEF Bit
  <1>7. md'[m].refs = md[m].refs + (c + c - b)
    <2> DEFINE d == Counted(md, th[s].src, -1)
    <2>1. d \in [Sessions -> SourceFields(Int)]
      BY <1>5, CountedKeeps
    <2>2. d[m].refs = md[m].refs + (-b)
      BY <1>5, <1>6, CountedBy
    <2>3. md' = Counted(d, g, 2)
      BY <1>2 DEF GetMdSource
    <2> HIDE DEF d
    <2>4. md'[m].refs = d[m].refs + (c + c)
      BY <1>6, <2>1, <2>3, CountedBy
    <2>5. PICK j \in Int : j = md[m].refs
      BY <1>5 DEF SourceFields
    <2>6. md'[m].refs = (j + (-b)) + (c + c)
      BY <2>2, <2>4, <2>5
    <2>7. QED
      BY <2>5, <2>6
  <1>8. HeldOf(s, m) = 0 + b + 0
    <2>1. Bit(ss[s].mdsrc = m) = 0 /\ Bit(th[s].op = "kick" /\ th[s].target = m) = 0
      BY <1>1 DEF Bit, ConstantsAssumption
    <2>2. QED
      BY <1>6, <2>1, HeldIs
  <1>9. HeldOf(s, m)' = c + c + 0
    <2>1. /\ Bit(ss'[s].mdsrc = m) = c /\ Bit(th'[s].src = m) = c
          /\ Bit(th'[s].op = "kick" /\ th'[s].target = m) = 0
      BY <1>3, <1>4, <1>6 DEF Bit, ConstantsAssumption
    <2>2. QED
      BY <1>6, <2>1, HeldWillBe
  <1>10. PICK e \in Int : e = c + c - b
    <2>1. c + c - b \in Int
      OBVIOUS
    <2>2. QED
      BY <2>1
  <1>11. /\ md'[m].refs = md[m].refs + e /\ HeldOf(s, m)' = HeldOf(s, m) + e /\ e = e + i
    BY <1>6, <1>7, <1>8, <1>9, <1>10
  <1>12. PostedBy(m, i)
    BY <1>3, <1>6, PostedSame DEF Accounts, Finite
  <1>13. QED
    BY <1>3, <1>4, <1>11, <1>12, BalancedHere

\* RemoveMdSource: the registry gives up its reference with the name.
LEMMA RemoveMdSourceAccount ==
  ASSUME Types, Types', Inv, Accounts, NEW m \in Sessions, NEW s \in Sessions,
         RemoveMdSource(s)
  PROVE  (Finite(m) /\ AccountOf(m))'
  <1> DEFINE n == ss[s].stream
  <1>1. PICK g \in Sessions : g = th[s].target
    <2>1. th[s].target # None
      BY TargetKnown DEF RemoveMdSource
    <2>2. QED
      BY <2>1 DEF Types, HandlersOK, Handling
  <1>2. th[s].op = "end" /\ n \in Keys
    <2>1. th[s].pc = "unregister" /\ th[s].op = "end"
      BY DEF RemoveMdSource, Inv, HandlerInv, HandlerOf
    <2>2. ss[s].stream # None
      BY <2>1 DEF Inv, StageInv, StageOf
    <2>3. QED
      BY <2>1, <2>2 DEF Types, SessionFields
  <1>3. /\ ThreadTo(s, "closeAll") /\ NoSourceBut /\ UNCHANGED <<inbox, frames>>
        /\ SessionBut(s, {"attached"})
    BY RemoveMdSourceEffect DEF media
  <1>4. /\ OnlyOf(s) /\ th'[s].src = th[s].src /\ th'[s].op = th[s].op
        /\ th'[s].target = th[s].target /\ ss'[s].mdsrc = ss[s].mdsrc
        /\ md'[m].replaced = md[m].replaced
    BY <1>3 DEF OnlyOf, SessionBut, ThreadTo, ThreadAt, NoSourceBut, Alike
  <1>5. CASE streams[n] # g
    <2>1. UNCHANGED <<streams, md>>
      BY <1>1, <1>5 DEF RemoveMdSource
    <2>2. QED
      BY <1>3, <1>4, <2>1, StillAccount
  <1>6. CASE streams[n] = g
    <2>1. md' = Counted(md, g, -1) /\ streams' = [streams EXCEPT ![n] = None]
      BY <1>1, <1>6 DEF RemoveMdSource
    <2>2. PICK c \in Int, z \in Int, i \in Int : c = Bit(g = m) /\ z = -c /\ i = 0
      BY DEF Bit
    <2>3. md'[m].refs = md[m].refs + z
      <3>1. md \in [Sessions -> SourceFields(Int)]
        BY DEF Types
      <3>2. QED
        BY <2>1, <2>2, <3>1, CountedBy
    <2>4. streams'[n] = None /\ \A j \in Keys \ {n} : streams'[j] = streams[j]
      BY <1>2, <2>1 DEF Types, RegistryOK
    <2>5. HeldOf(s, m)' = HeldOf(s, m) + i
      <3>1. HeldOf(s, m)' = HeldOf(s, m) /\ HeldOf(s, m) \in Int
        BY <1>4 DEF HeldOf, Bit
      <3>2. QED
        BY <2>2, <3>1
    <2>6. Bit(md'[m].replaced) = Bit(md[m].replaced) + i
      <3>1. Bit(md'[m].replaced) = Bit(md[m].replaced) /\ Bit(md[m].replaced) \in Int
        BY <1>4 DEF Bit
      <3>2. QED
        BY <2>2, <3>1
    <2>7. Bit(streams'[n] = m) = Bit(streams[n] = m) + z
      <3>1. Bit(streams'[n] = m) = 0 /\ Bit(streams[n] = m) = c
        BY <1>6, <2>2, <2>4 DEF Bit, ConstantsAssumption
      <3>2. 0 = c + z
        BY <2>2
      <3>3. QED
        BY <3>1, <3>2
    <2>8. z = i + z + i
      BY <2>2
    <2> HIDE DEF n
    <2>9. NameBalance(m, s, n, z, i, z, i)
      BY <1>3, <1>4, <2>3, <2>4, <2>5, <2>6, <2>7, <2>8 DEF NameBalance
    <2>10. QED
      BY <1>2, <2>9, BalancedName
  <1>7. QED
    BY <1>5, <1>6

\* ~CRTMPNetSession gives up its source.
LEMMA DestroyAccount ==
  ASSUME Types, Types', Inv, Accounts, NEW m \in Sessions, NEW s \in Sessions, Destroy(s)
  PROVE  (Finite(m) /\ AccountOf(m))'
  <1>1. ~ss[s].inMd
    BY NotListed DEF Destroy
  <1>2. /\ UNCHANGED <<inbox, th, streams, frames>> /\ SessionBut(s, {"alive", "mdsrc"})
        /\ ss'[s].mdsrc = None
    BY <1>1, DestroyEffect DEF media
  <1>3. OnlyOf(s)
    BY <1>2 DEF OnlyOf, SessionBut
  <1>4. PICK a \in Int, z \in Int, i \in Int : a = Bit(ss[s].mdsrc = m) /\ z = -a /\ i = 0
    BY DEF Bit
  <1>5. PICK b \in Int, c \in Int :
          b = Bit(th[s].src = m) /\ c = Bit(th[s].op = "kick" /\ th[s].target = m)
    BY DEF Bit
  <1>6. HeldOf(s, m) = a + b + c
    BY <1>4, <1>5, HeldIs
  <1>7. HeldOf(s, m)' = 0 + b + c
    <2>1. /\ Bit(ss'[s].mdsrc = m) = 0 /\ Bit(th'[s].src = m) = b
          /\ Bit(th'[s].op = "kick" /\ th'[s].target = m) = c
      BY <1>2, <1>5 DEF Bit, ConstantsAssumption
    <2>2. QED
      BY <2>1, HeldWillBe
  <1>8. md'[m].refs = md[m].refs + z /\ md'[m].replaced = md[m].replaced
    <2>1. md[m] \in SourceFields(Int) /\ md[m].refs \in Int
      BY DEF Types, SourceFields
    <2>2. CASE ss[s].mdsrc # m
      <3>1. md'[m] = md[m]
        <4>1. CASE ss[s].mdsrc = None
          BY <4>1 DEF Destroy
        <4>2. CASE ss[s].mdsrc # None
          BY <2>2, <4>2 DEF Destroy, Types
        <4>3. QED
          BY <4>1, <4>2
      <3>2. z = 0
        <4>1. a = 0
          BY <1>4, <2>2 DEF Bit
        <4>2. QED
          BY <1>4, <4>1
      <3>3. QED
        BY <2>1, <3>1, <3>2
    <2>3. CASE ss[s].mdsrc = m
      <3>1. md' = [md EXCEPT ![m].ctxSrc = IF @ = s THEN None ELSE @,
                             ![m].clients = IF ss[s].inMd THEN @ \ {s} ELSE @,
                             ![m].refs = @ - 1]
        BY <2>3 DEF Destroy, ConstantsAssumption
      <3>2. md'[m] = [md[m] EXCEPT !.ctxSrc = IF @ = s THEN None ELSE @,
                                   !.clients = IF ss[s].inMd THEN @ \ {s} ELSE @,
                                   !.refs = @ - 1]
        BY <3>1 DEF Types
      <3>3. md'[m].refs = md[m].refs - 1 /\ md'[m].replaced = md[m].replaced
        BY <2>1, <3>2 DEF SourceFields
      <3>4. z = -1
        <4>1. a = 1
          BY <1>4, <2>3 DEF Bit
        <4>2. QED
          BY <1>4, <4>1
      <3>5. QED
        BY <2>1, <3>3, <3>4
    <2>4. QED
      BY <2>2, <2>3
  <1>9. HeldOf(s, m)' = HeldOf(s, m) + z /\ z = z + i
    BY <1>4, <1>6, <1>7
  <1>10. PostedBy(m, i)
    BY <1>2, <1>4, PostedSame DEF Accounts, Finite
  <1>11. QED
    BY <1>2, <1>3, <1>8, <1>9, <1>10, BalancedHere

\* A frame holds a reference from OnVideoData until its event is done with.
LEMMA FrameAccount ==
  ASSUME Types, Types', Accounts, NEW m \in Sessions, NEW x \in Sessions, NEW k \in {-1, 1},
         UNCHANGED <<inbox, ss, th, streams>>, md' = Counted(md, x, k),
         \A y \in Sessions \ {x} : frames'[y] = frames[y],
         Len(frames'[x]) = Len(frames[x]) + k
  PROVE  (Finite(m) /\ AccountOf(m))'
  <1>1. md \in [Sessions -> SourceFields(Int)] /\ md[m].refs \in Int /\ Len(frames[m]) \in Nat
    <2>1. md \in [Sessions -> SourceFields(Int)] /\ md[m] \in SourceFields(Int)
      BY DEF Types
    <2>2. md[m].refs \in Int
      BY <2>1 DEF SourceFields
    <2>3. Len(frames[m]) \in Nat
      BY DEF Types, MediaOK
    <2>4. QED
      BY <2>1, <2>2, <2>3
  <1>2. md'[m].replaced = md[m].replaced
    BY <1>1, CountedKeeps DEF Alike
  <1>3. PICK a \in Int : a = IF m = x THEN k ELSE 0
    OBVIOUS
  <1>4. md'[m].refs = md[m].refs + a
    <2>1. PICK b \in Int : b = Bit(x = m)
      BY DEF Bit
    <2>2. md'[m].refs = IF k = 1 THEN md[m].refs + b ELSE md[m].refs + (-b)
      BY <1>1, <2>1, CountedBy
    <2>3. b = IF m = x THEN 1 ELSE 0
      BY <2>1 DEF Bit
    <2>4. CASE k = 1
      BY <1>1, <1>3, <2>2, <2>3, <2>4
    <2>5. CASE k = -1
      BY <1>1, <1>3, <2>2, <2>3, <2>5
    <2>6. QED
      BY <2>4, <2>5
  <1>5. Len(frames'[m]) = Len(frames[m]) + a
    <2>1. CASE m = x
      BY <1>3, <2>1
    <2>2. CASE m # x
      <3>1. frames'[m] = frames[m] /\ a = 0
        BY <1>3, <2>2
      <3>2. Len(frames[m]) = Len(frames[m]) + 0
        BY <1>1
      <3>3. QED
        BY <3>1, <3>2
    <2>3. QED
      BY <2>1, <2>2
  <1>6. QED
    BY <1>2, <1>4, <1>5, BalancedFrame

LEMMA OnMediaAccount ==
  ASSUME Types, Types', Accounts, NEW m \in Sessions, NEW s \in Sessions, OnMedia(s)
  PROVE  (Finite(m) /\ AccountOf(m))'
  <1>1. PICK x \in Sessions : x = ss[s].mdsrc
    BY OnMediaEffect
  <1>2. /\ UNCHANGED <<inbox, ss, th, streams>> /\ md' = Counted(md, x, 1)
        /\ frames' = [frames EXCEPT ![x] = Append(@, s)]
    BY <1>1 DEF OnMedia
  <1>3. frames \in [Sessions -> Seq(Sessions)]
    BY DEF Types, MediaOK
  <1>4. /\ \A y \in Sessions \ {x} : frames'[y] = frames[y]
        /\ Len(frames'[x]) = Len(frames[x]) + 1
    BY <1>2, <1>3
  <1>5. QED
    BY <1>2, <1>4, FrameAccount

LEMMA FrameDone ==
  ASSUME Types, Types', Accounts, NEW m \in Sessions, NEW x \in Sessions,
         UNCHANGED <<inbox, ss, th, streams>>, md' = Counted(md, x, -1),
         frames' = [frames EXCEPT ![x] = Tail(@)], frames[x] # <<>>
  PROVE  (Finite(m) /\ AccountOf(m))'
  <1>1. frames \in [Sessions -> Seq(Sessions)] /\ frames[x] \in Seq(Sessions)
    BY DEF Types, MediaOK
  <1>2. /\ \A y \in Sessions \ {x} : frames'[y] = frames[y]
        /\ frames'[x] = Tail(frames[x])
    BY <1>1
  <1>3. Len(Tail(frames[x])) = Len(frames[x]) + (-1)
    BY <1>1
  <1>4. -1 \in {-1, 1}
    OBVIOUS
  <1>5. QED
    BY <1>2, <1>3, <1>4, FrameAccount

LEMMA ForwardAccount ==
  ASSUME Types, Types', Accounts, NEW m \in Sessions, NEW s \in Sessions, Forward(s)
  PROVE  (Finite(m) /\ AccountOf(m))'
  <1>1. UNCHANGED <<inbox, ss, th, streams>> /\ frames[s] # <<>>
    BY DEF Forward
  <1>2. CASE UNCHANGED <<frames, md>>
    BY <1>1, <1>2, StillAccount DEF OnlyOf
  <1>3. CASE frames' = [frames EXCEPT ![s] = Tail(@)] /\ md' = Counted(md, s, -1)
    BY <1>1, <1>3, FrameDone
  <1>4. QED
    BY <1>2, <1>3 DEF Forward

LEMMA DeliverAccount ==
  ASSUME Types, Types', Inv, Accounts, NEW m \in Sessions, NEW s \in Sessions, Deliver(s)
  PROVE  (Finite(m) /\ AccountOf(m))'
  <1>1. /\ UNCHANGED <<inbox, ss, th, streams>> /\ md' = Counted(md, s, -1)
        /\ frames' = [frames EXCEPT ![s] = Tail(@)] /\ s \in passed
    BY DEF Deliver
  <1>2. frames[s] # <<>>
    BY <1>1 DEF Inv, HearingInv, PassedOf
  <1>3. QED
    BY <1>1, <1>2, FrameDone

\* A thread goes on in its handler, and nothing changes hands.
LEMMA ThreadAccount ==
  ASSUME Types, Types', Accounts, NEW m \in Sessions, NEW s \in Sessions,
         NEW p, ThreadTo(s, p), \A t \in Sessions : ss'[t].mdsrc = ss[t].mdsrc,
         UNCHANGED <<inbox, streams, frames>>,
         md'[m].refs = md[m].refs, md'[m].replaced = md[m].replaced
  PROVE  (Finite(m) /\ AccountOf(m))'
  <1>1. /\ OnlyOf(s) /\ th'[s].src = th[s].src /\ th'[s].op = th[s].op
        /\ th'[s].target = th[s].target
    BY DEF OnlyOf, ThreadTo, ThreadAt
  <1>2. QED
    BY <1>1, StillAccount

LEMMA PlayAccount ==
  ASSUME Types, Types', Inv, Accounts, NEW m \in Sessions, NEW s \in Sessions, Play(s)
  PROVE  (Finite(m) /\ AccountOf(m))'
  <1> DEFINE e == Head(inbox[s])
  <1>1. IsNext(s, "play") /\ Taken(s) /\ UNCHANGED <<streams, frames>> /\ th[s].pc = "idle"
    BY TakenEffect DEF Play, media
  <1>2. CASE ss[s].srcCtx \/ e.name = None
    <2>1. UNCHANGED <<ss, th>> /\ md' = Counted(md, e.src, -1)
      BY <1>2 DEF Play, Refused
    <2>2. QED
      BY <1>1, <2>1, TakenAccount
  <1>3. CASE ~(ss[s].srcCtx \/ e.name = None)
    <2>1. /\ md' = md /\ ss' = [ss EXCEPT ![s].stream = e.name]
          /\ th' = [th EXCEPT ![s].src = e.src,
                              ![s].pc = IF ss[s].mdsrc = None THEN "find" ELSE "opened"]
      BY <1>3 DEF Play
    <2>2. \A t \in Sessions : ss'[t].mdsrc = ss[t].mdsrc
      BY <2>1 DEF Types, SessionFields
    <2>3. th'[s].src = e.src /\ th'[s].op = th[s].op /\ \A t \in Sessions \ {s} : th'[t] = th[t]
      BY <2>1 DEF Types, HandlersOK, Handling
    <2>4. th'[s].op # "kick"
      BY <1>1, <2>3 DEF Inv, HandlerInv, HandlerOf, ConstantsAssumption
    <2>5. QED
      BY <1>1, <2>1, <2>2, <2>3, <2>4, TakenUpAccount
  <1>4. QED
    BY <1>2, <1>3

LEMMA ReallyCloseAccount ==
  ASSUME Types, Types', Inv, Accounts, NEW m \in Sessions, NEW s \in Sessions, ReallyClose(s)
  PROVE  (Finite(m) /\ AccountOf(m))'
  <1> DEFINE e == Head(inbox[s])
  <1>1. IsNext(s, "close") /\ Taken(s) /\ UNCHANGED <<streams, frames>>
    BY DEF ReallyClose, media
  <1>2. \A t \in Sessions : ss'[t].mdsrc = ss[t].mdsrc
    BY ReallyCloseEffect DEF SessionBut
  <1>3. CASE th' = th /\ md' = Counted(md, e.src, -1)
    BY <1>1, <1>2, <1>3, TakenAccount
  <1>4. ASSUME NEW p, NEW x,
               th' = [th EXCEPT ![s] = [pc |-> p, op |-> "end", target |-> x, src |-> e.src]],
               md' = md
        PROVE  (Finite(m) /\ AccountOf(m))'
    <2>1. th'[s].src = e.src /\ th'[s].op # "kick" /\ \A t \in Sessions \ {s} : th'[t] = th[t]
      BY <1>4 DEF Types, HandlersOK
    <2>2. QED
      BY <1>1, <1>2, <1>4, <2>1, TakenUpAccount
  <1>5. QED
    BY <1>3, <1>4 DEF ReallyClose

\* The answer to a player, and its way into the list and out of it.
LEMMA PlayerAccount ==
  ASSUME Types, Types', Inv, Accounts, NEW m \in Sessions, NEW s \in Sessions,
         PlayOpened(s) \/ Join(s) \/ JoinAdd(s) \/ RemoveClientSession(s)
  PROVE  (Finite(m) /\ AccountOf(m))'
  <1>1. UNCHANGED <<inbox, streams, frames>> /\ md \in [Sessions -> SourceFields(Int)]
    BY DEF PlayOpened, Join, JoinAdd, RemoveClientSession, media, Types
  <1>2. \A t \in Sessions : ss'[t].mdsrc = ss[t].mdsrc
    <2>1. CASE PlayOpened(s)
      BY <2>1, PlayOpenedEffect DEF SessionBut
    <2>2. CASE Join(s)
      BY <2>2, JoinEffect DEF SessionBut
    <2>3. CASE JoinAdd(s)
      <3>1. th[s].src # None
        BY <2>3, SourceKnown DEF JoinAdd
      <3>2. QED
        BY <2>3, <3>1, JoinAddEffect DEF SessionBut
    <2>4. CASE RemoveClientSession(s)
      <3>1. th[s].target # None
        BY <2>4, TargetKnown DEF RemoveClientSession
      <3>2. QED
        BY <2>4, <3>1, RemoveClientSessionEffect DEF SessionBut
    <2>5. QED
      BY <2>1, <2>2, <2>3, <2>4
  <1>3. th[s].op # "kick"
    <2>1. th[s].pc \in {"opened", "join", "joinAdd", "leave"}
      BY DEF PlayOpened, Join, JoinAdd, RemoveClientSession
    <2>2. QED
      BY <2>1 DEF Inv, HandlerInv, HandlerOf, ConstantsAssumption
  <1>4. CASE Finish(s, md)
    BY <1>1, <1>2, <1>3, <1>4, FinishAccount
  <1>5. ASSUME NEW p \in {"join", "joinAdd"}, Step(s, p), md' = md
        PROVE  (Finite(m) /\ AccountOf(m))'
    <2>1. ThreadTo(s, p)
      BY <1>5, StepTo DEF Types, HandlersOK
    <2>2. QED
      BY <1>1, <1>2, <1>5, <2>1, ThreadAccount
  <1>6. ASSUME NEW x \in Sessions, NEW S \in SUBSET Sessions,
               Finish(s, [md EXCEPT ![x].clients = S])
        PROVE  (Finite(m) /\ AccountOf(m))'
    <2> DEFINE d == [md EXCEPT ![x].clients = S]
    <2>1. d \in [Sessions -> SourceFields(Int)]
      <3>1. [md[x] EXCEPT !.clients = S] \in SourceFields(Int)
        <4>1. md[x] \in SourceFields(Int)
          BY <1>1
        <4>2. QED
          BY <4>1 DEF SourceFields
      <3>2. d = [md EXCEPT ![x] = [md[x] EXCEPT !.clients = S]]
        BY <1>1
      <3>3. QED
        BY <1>1, <3>1, <3>2
    <2>2. d[m].refs = md[m].refs /\ d[m].replaced = md[m].replaced
      <3>1. md[m] \in SourceFields(Int)
        BY <1>1
      <3>2. d[m] = IF m = x THEN [md[m] EXCEPT !.clients = S] ELSE md[m]
        BY <1>1
      <3>3. QED
        BY <3>1, <3>2 DEF SourceFields
    <2> HIDE DEF d
    <2>3. Finish(s, d)
      BY <1>6 DEF d
    <2>4. QED
      BY <1>1, <1>2, <1>3, <2>1, <2>2, <2>3, FinishAccount
  <1>7. CASE PlayOpened(s)
    BY <1>4, <1>5, <1>7 DEF PlayOpened
  <1>8. CASE Join(s)
    BY <1>4, <1>5, <1>8 DEF Join
  <1>9. CASE JoinAdd(s)
    <2>1. PICK x \in Sessions : x = th[s].src
      BY <1>9, SourceKnown DEF JoinAdd, Types, HandlersOK, Handling
    <2>2. Finish(s, [md EXCEPT ![x].clients = @ \cup {s}])
      BY <1>9, <2>1 DEF JoinAdd
    <2> DEFINE S == md[x].clients \cup {s}
    <2>3. [md EXCEPT ![x].clients = @ \cup {s}] = [md EXCEPT ![x].clients = S]
      BY <1>1
    <2>4. S \in SUBSET Sessions
      BY <1>1 DEF SourceFields
    <2>5. QED
      BY <1>6, <2>2, <2>3, <2>4
  <1>10. CASE RemoveClientSession(s)
    <2>1. PICK x \in Sessions : x = th[s].target
      BY <1>10, TargetKnown DEF RemoveClientSession, Types, HandlersOK, Handling
    <2>2. Finish(s, [md EXCEPT ![x].clients = @ \ {s}])
      BY <1>10, <2>1 DEF RemoveClientSession
    <2> DEFINE S == md[x].clients \ {s}
    <2>3. [md EXCEPT ![x].clients = @ \ {s}] = [md EXCEPT ![x].clients = S]
      BY <1>1
    <2>4. S \in SUBSET Sessions
      BY <1>1 DEF SourceFields
    <2>5. QED
      BY <1>6, <2>2, <2>3, <2>4
  <1>11. QED
    BY <1>7, <1>8, <1>9, <1>10

LEMMA AttachAccount ==
  ASSUME Types, Types', Inv, Accounts, NEW m \in Sessions, NEW s \in Sessions, Attach(s)
  PROVE  (Finite(m) /\ AccountOf(m))'
  <1>1. UNCHANGED <<inbox, streams, frames>> /\ md \in [Sessions -> SourceFields(Int)]
    BY DEF Attach, media, Types
  <1>2. \A t \in Sessions : ss'[t].mdsrc = ss[t].mdsrc
    BY AttachEffect DEF SessionBut
  <1>3. th[s].op # "kick"
    BY DEF Attach, Inv, HandlerInv, HandlerOf, ConstantsAssumption
  <1> DEFINE r == [md[s] EXCEPT !.inited = TRUE]
  <1>4. md[s] \in SourceFields(Int)
    BY <1>1
  <1>5. r \in SourceFields(Int) /\ r.refs = md[s].refs /\ r.replaced = md[s].replaced
    BY <1>4 DEF SourceFields
  <1> HIDE DEF r
  <1> DEFINE d == [md EXCEPT ![s] = r]
  <1>6. d \in [Sessions -> SourceFields(Int)]
    BY <1>1, <1>5
  <1>7. d[m].refs = md[m].refs /\ d[m].replaced = md[m].replaced
    BY <1>1, <1>5
  <1>8. Finish(s, d)
    BY <1>1 DEF Attach, r
  <1> HIDE DEF d
  <1>9. QED
    BY <1>1, <1>2, <1>3, <1>6, <1>7, <1>8, FinishAccount

\* Closing a source changes neither who has it nor its count.
LEMMA ClosingAccount ==
  ASSUME Types, Types', Inv, Accounts, NEW m \in Sessions, NEW s \in Sessions,
         \/ CloseSrcCtx(s) \/ CloseAllClients(s) \/ Drain(s) \/ ClearSrcCtx(s)
  PROVE  (Finite(m) /\ AccountOf(m))'
  <1>1. PICK g \in Sessions : g = th[s].target
    <2>1. th[s].target # None
      BY TargetKnown DEF CloseSrcCtx, CloseAllClients, Drain, ClearSrcCtx
    <2>2. QED
      BY <2>1 DEF Types, HandlersOK, Handling
  <1>2. UNCHANGED <<inbox, streams, frames>>
    BY DEF CloseSrcCtx, CloseAllClients, Drain, ClearSrcCtx, media
  <1>3. th[s].target # None
    BY <1>1 DEF ConstantsAssumption
  <1>4. \A t \in Sessions : ss'[t].mdsrc = ss[t].mdsrc
    <2>1. CASE CloseSrcCtx(s)
      BY <1>3, <2>1, CloseSrcCtxFields
    <2>2. CASE Drain(s)
      BY <1>3, <2>2, DrainEffect
    <2>3. CASE CloseAllClients(s) \/ ClearSrcCtx(s)
      BY <2>3 DEF CloseAllClients, ClearSrcCtx
    <2>4. QED
      BY <2>1, <2>2, <2>3
  <1>5. \E p : ThreadTo(s, p)
    <2>1. CASE CloseSrcCtx(s)
      BY <1>3, <2>1, CloseSrcCtxThread
    <2>2. CASE Drain(s)
      BY <1>3, <2>2, DrainEffect
    <2>3. CASE CloseAllClients(s)
      BY <1>3, <2>3, CloseAllClientsEffect
    <2>4. CASE ClearSrcCtx(s)
      BY <1>3, <2>4, ClearSrcCtxEffect
    <2>5. QED
      BY <2>1, <2>2, <2>3, <2>4
  <1>6. md'[m].refs = md[m].refs /\ md'[m].replaced = md[m].replaced
    <2>1. md \in [Sessions -> SourceFields(Int)] /\ md[m] \in SourceFields(Int)
      BY DEF Types
    <2>2. CASE CloseSrcCtx(s)
      BY <2>2 DEF CloseSrcCtx
    <2>3. CASE CloseAllClients(s)
      <3>1. md'[m] = IF m = g THEN [md[m] EXCEPT !.closedAll = TRUE] ELSE md[m]
        BY <1>1, <2>1, <2>3 DEF CloseAllClients
      <3>2. QED
        BY <2>1, <3>1 DEF SourceFields
    <2>4. CASE Drain(s)
      <3>1. md'[m] = IF m = g THEN [md[m] EXCEPT !.clients = {}, !.rtmp = FALSE] ELSE md[m]
        BY <1>1, <2>1, <2>4 DEF Drain
      <3>2. QED
        BY <2>1, <3>1 DEF SourceFields
    <2>5. CASE ClearSrcCtx(s)
      <3>1. md'[m] = IF m = g THEN [md[m] EXCEPT !.ctxSrc = IF @ = s THEN None ELSE @]
                     ELSE md[m]
        BY <1>1, <2>1, <2>5 DEF ClearSrcCtx
      <3>2. QED
        BY <2>1, <3>1 DEF SourceFields
    <2>6. QED
      BY <2>2, <2>3, <2>4, <2>5
  <1>7. QED
    BY <1>2, <1>4, <1>5, <1>6, ThreadAccount

LEMMA KickingAccount ==
  ASSUME Types, Types', Inv, Accounts, NEW m \in Sessions, NEW s \in Sessions,
         IsExist(s) \/ KickTest(s) \/ KickForce(s)
  PROVE  (Finite(m) /\ AccountOf(m))'
  <1>1. UNCHANGED <<inbox, streams, frames, md>>
    BY DEF IsExist, KickTest, KickForce, media
  <1>2. \A t \in Sessions : ss'[t].mdsrc = ss[t].mdsrc
    <2>1. CASE IsExist(s)
      BY <2>1, IsExistEffect, StreamKnown DEF IsExist, SessionBut
    <2>2. QED
      BY <2>1 DEF KickTest, KickForce
  <1>3. \E p : ThreadTo(s, p)
    <2>1. CASE IsExist(s)
      BY <2>1, IsExistEffect, StreamKnown DEF IsExist
    <2>2. CASE KickTest(s)
      BY <2>2, KickTestEffect
    <2>3. CASE KickForce(s)
      BY <2>3, KickForceEffect
    <2>4. QED
      BY <2>1, <2>2, <2>3
  <1>4. QED
    BY <1>1, <1>2, <1>3, ThreadAccount

LEMMA AccountsStep == Types /\ Types' /\ Inv /\ Accounts /\ [Next]_vars => Accounts'
  <1> SUFFICES ASSUME Types, Types', Inv, Accounts, [Next]_vars, NEW m \in Sessions
               PROVE  (Finite(m) /\ AccountOf(m))'
    BY DEF Accounts
  <1>1. ASSUME NEW s \in Sessions, NEW n \in Names \cup {None}, InvokePublish(s, n)
        PROVE  (Finite(m) /\ AccountOf(m))'
    BY <1>1, PostAccount DEF InvokePublish, media
  <1>2. ASSUME NEW s \in Sessions, NEW n \in Names \cup {None}, InvokePlay(s, n)
        PROVE  (Finite(m) /\ AccountOf(m))'
    BY <1>2, PostAccount DEF InvokePlay, media
  <1>3. ASSUME NEW s \in Sessions, OnClose(s) PROVE (Finite(m) /\ AccountOf(m))'
    BY <1>3, PostAccount DEF OnClose, media
  <1>4. ASSUME NEW s \in Sessions, ReleaseStream(s) \/ WriteCompleted(s)
        PROVE  (Finite(m) /\ AccountOf(m))'
    <2>1. UNCHANGED <<inbox, ss, th, md, streams, frames>>
      BY <1>4 DEF ReleaseStream, WriteCompleted, media
    <2>2. QED
      BY <2>1, StillAccount DEF OnlyOf
  <1>5. ASSUME NEW s \in Sessions, Handlers(s) PROVE (Finite(m) /\ AccountOf(m))'
    BY <1>5, PublishAccount, KickAccount, KickingAccount, CreateAccount, AddAccount,
       AttachAccount, ClosingAccount, ClosedAccount, PlayAccount, GetMdSourceAccount,
       PlayerAccount, ReallyCloseAccount, RemoveMdSourceAccount DEF Handlers
  <1>6. ASSUME NEW s \in Sessions, OnMedia(s) \/ Forward(s) \/ Deliver(s) \/ Destroy(s)
        PROVE  (Finite(m) /\ AccountOf(m))'
    BY <1>6, OnMediaAccount, ForwardAccount, DeliverAccount, DestroyAccount
  <1>7. CASE UNCHANGED vars
    BY <1>7, StillAccount DEF OnlyOf, vars, net, media
  <1>8. QED
    BY <1>1, <1>2, <1>3, <1>4, <1>5, <1>6, <1>7 DEF Next

LEMMA InitAccounts == Init => Accounts
  <1> SUFFICES ASSUME Init, NEW m \in Sessions PROVE Finite(m) /\ AccountOf(m)
    BY DEF Accounts
  <1>1. /\ ss = [s \in Sessions |-> NoSession] /\ th = [s \in Sessions |-> Idle]
        /\ md = [x \in Sessions |-> NoSource] /\ inbox = [s \in Sessions |-> <<>>]
        /\ streams = [n \in Keys |-> None] /\ frames = [x \in Sessions |-> <<>>]
    BY DEF Init
  <1>2. /\ SessionsOf(m) = {} /\ HandlersOf(m) = {} /\ KickersOf(m) = {} /\ NamesOf(m) = {}
    BY <1>1 DEF SessionsOf, HandlersOf, KickersOf, NamesOf, NoSession, Idle, ConstantsAssumption
  <1>3. PostedTo(m) = {}
    <2>1. inbox \in [Sessions -> Seq(Events)] /\ \A s \in Sessions : Len(inbox[s]) = 0
      BY <1>1
    <2>2. /\ \A t, i : <<t, i>> \notin PostedTo(m)
          /\ PostedTo(m) \subseteq Sessions \X Nat
      BY <2>1, PostedIs DEF PostedTo
    <2>3. QED
      BY <2>2
  <1>4. IsFiniteSet({}) /\ Cardinality({}) = 0 /\ Len(frames[m]) = 0
    BY <1>1, FS_EmptySet
  <1>5. InUse(m) = 0 + 0 + 0 + 0 + 0 + 0
    BY <1>2, <1>3, <1>4, InUseIs
  <1>6. md[m].refs = 0 /\ ~md[m].replaced
    BY <1>1 DEF NoSource
  <1>7. QED
    BY <1>2, <1>3, <1>4, <1>5, <1>6 DEF Finite, AccountOf, Bit

\* In every state the count of each source is that of its users, of which there
\* are never infinitely many, however many sessions and names there are.
THEOREM Accounted == Spec => [](Types /\ Inv /\ Accounts)
  <1>1. Init => Types /\ Inv /\ Accounts
    BY InitTypes, InitInv, InitAccounts
  <1>2. Types /\ Inv /\ Accounts /\ [Next]_vars => (Types /\ Inv /\ Accounts)'
    BY TypesStep, HandlerInvStep, StageInvStep, LifeInvStep, PlayerInvStep, SourceInvStep,
       RegistryInvStep, HearingInvStep, AccountsStep DEF Inv
  <1>3. QED
    BY <1>1, <1>2, PTL DEF Spec

\* The counts of players and sources match their users: no handler, event, name or
\* frame uses a source that has been released, and none is kept by a reference that
\* nobody will drop, but for one that AddMdSource has replaced.
THEOREM References == Spec => []ReferencesMatch
  <1>1. Types /\ Inv /\ Accounts => ReferencesMatch
    <2> SUFFICES ASSUME Types, Inv, Accounts PROVE ReferencesMatch
      OBVIOUS
    <2>1. ASSUME NEW p \in Sessions, NEW in, in = {m \in Sessions : p \in md[m].clients}
          PROVE  /\ ss[p].listRefs = Cardinality(in) /\ Cardinality(in) <= 1
                 /\ ss[p].inMd = (in # {})
                 /\ in # {} => ss[p].alive /\ in = {ss[p].mdsrc}
      <3>1. PlayerOf(p) /\ LifeOf(p) /\ ss[p] \in SessionFields(Int)
            /\ \A m \in Sessions : p \in md[m].clients <=> ss[p].inMd /\ ss[p].mdsrc = m
        BY DEF Inv, PlayerInv, LifeInv, Types
      <3>2. CASE ss[p].inMd
        <4>1. ss[p].mdsrc \in Sessions
          BY <3>1, <3>2 DEF PlayerOf, SessionFields
        <4>2. in = {ss[p].mdsrc}
          BY <2>1, <3>1, <3>2, <4>1
        <4>3. Cardinality(in) = 1
          BY <4>2, FS_Singleton
        <4>4. ss[p].listRefs = 1 /\ ss[p].alive
          BY <3>1, <3>2, <4>1 DEF PlayerOf, LifeOf, ConstantsAssumption
        <4>5. in # {} /\ ss[p].inMd \in BOOLEAN
          BY <3>1, <4>2 DEF SessionFields
        <4>6. ss[p].inMd = (in # {})
          BY <3>2, <4>5
        <4>7. 1 <= 1
          OBVIOUS
        <4>8. QED
          BY <4>2, <4>3, <4>4, <4>6, <4>7
      <3>3. CASE ~ss[p].inMd
        <4>1. in = {}
          BY <2>1, <3>1, <3>3
        <4>2. Cardinality(in) = 0
          BY <4>1, FS_EmptySet
        <4>3. QED
          BY <3>1, <3>3, <4>1, <4>2 DEF PlayerOf, SessionFields
      <3>4. QED
        BY <3>2, <3>3
    <2>2. ASSUME NEW m \in Sessions
          PROVE  md[m].refs = InUse(m) + (IF md[m].replaced THEN 1 ELSE 0)
      BY DEF Accounts, AccountOf, Bit
    <2>3. QED
      BY <2>1, <2>2 DEF ReferencesMatch
  <1>2. QED
    BY <1>1, Accounted, PTL

\* Every field has its type, and no count of references ever falls below zero.
THEOREM TypeCorrect == Spec => []TypeOK
  <1>1. Types /\ Inv /\ Accounts => TypeOK
    <2> SUFFICES ASSUME Types, Inv, Accounts PROVE TypeOK
      OBVIOUS
    <2>1. ASSUME NEW p \in Sessions PROVE ss[p] \in SessionFields(Nat)
      <3>1. ss[p] \in SessionFields(Int) /\ ss[p].listRefs \in Nat
        BY DEF Types, Inv, PlayerInv, PlayerOf
      <3>2. QED
        BY <3>1 DEF SessionFields
    <2>2. ASSUME NEW m \in Sessions PROVE md[m] \in SourceFields(Nat)
      <3>1. md[m] \in SourceFields(Int)
        BY DEF Types
      <3>2. Finite(m) /\ md[m].refs = InUse(m) + Bit(md[m].replaced)
        BY DEF Accounts, AccountOf
      <3>3. PICK i \in Nat, j \in Nat, k \in Nat :
              /\ i = Cardinality(SessionsOf(m)) /\ j = Cardinality(HandlersOf(m))
              /\ k = Cardinality(KickersOf(m))
        BY <3>2, FS_CardinalityType DEF Finite
      <3>4. PICK u \in Nat, v \in Nat, w \in Nat, b \in Nat :
              /\ u = Cardinality(PostedTo(m)) /\ v = Cardinality(NamesOf(m))
              /\ w = Len(frames[m]) /\ b = Bit(md[m].replaced)
        <4>1. Len(frames[m]) \in Nat /\ Bit(md[m].replaced) \in Nat
          BY DEF Types, MediaOK, Bit
        <4>2. QED
          BY <3>2, <4>1, FS_CardinalityType DEF Finite
      <3>5. InUse(m) = i + j + k + u + v + w
        BY <3>3, <3>4, InUseIs
      <3>6. md[m].refs = i + j + k + u + v + w + b
        BY <3>2, <3>4, <3>5
      <3>7. md[m].refs \in Nat
        BY <3>6
      <3>8. QED
        BY <3>1, <3>7 DEF SourceFields
    <2>3. /\ ss \in [Sessions -> SessionFields(Nat)]
          /\ md \in [Sessions -> SourceFields(Nat)]
      BY <2>1, <2>2 DEF Types
    <2>4. QED
      BY <2>3 DEF Types, TypeOK
  <1>2. QED
    BY <1>1, Accounted, PTL

===============================================================================
