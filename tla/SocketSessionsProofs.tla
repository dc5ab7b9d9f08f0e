------------------------- MODULE SocketSessionsProofs -------------------------
(***************************************************************************)
(* Proofs about SocketSessions, for any processes, listeners, descriptors  *)
(* and bounds.                                                             *)
(*                                                                         *)
(* What a process believes (hasRegistered_) and what the service holds     *)
(* (msgInfos_) are tied together by the session: a process that runs and   *)
(* the service agree on the descriptor, a process that died keeps its      *)
(* session only until its death is reported, and a call in progress keeps  *)
(* its session while its process runs.                                     *)
(***************************************************************************)
EXTENDS SocketSessions, SequenceTheorems, TLAPS

Opened == {f \in Fd : open[f] # NoPid}

AddingType == [pid : Pid, fd : Opened, lis : SUBSET Listener, at : {"found", "noted"}, again : BOOLEAN]

ServerType ==
    /\ up \in BOOLEAN
    /\ open \in [Fd -> Pid \union {NoPid}]
    /\ sessions \subseteq Opened
    /\ callbacks \subseteq Pid
    /\ infos \in [state : SUBSET Opened, style : SUBSET Opened]
    /\ out \in {NoFd} \union Opened
    /\ drag \in {NoDrag, Remote} \union (Pid \X (0..MaxStarts))
    /\ adding = NoCall \/ adding \in AddingType
    /\ died \subseteq Pid

UsedType == used \in [calls : 0..MaxCalls, crashes : 0..MaxCrashes, deaths : 0..MaxDeaths]

\* Every entry of msgInfos_ is watched, but for the one the service thread is at.
EntriesWatched ==
    \A f \in infos.state : open[f] \in callbacks \/ (adding.at = "noted" /\ open[f] = adding.pid)

ServiceDown == ~up => sessions = {} /\ adding = NoCall

\* A process and the service agree on the session between them.
EndsAgree ==
    /\ \A p \in Pid : cl[p].conn \in Fd => cl[p].conn \in sessions /\ open[cl[p].conn] = p
    /\ \A f \in sessions : cl[open[f]].alive => cl[open[f]].conn = f

DeathsReported ==
    \A p \in Pid : /\ p \in died => ~cl[p].alive
                   /\ ~cl[p].alive => ~cl[p].registered /\ cl[p].conn = NoFd
                   /\ ~cl[p].alive /\ p \notin died => \A f \in sessions : open[f] # p

CallInProgress ==
    adding # NoCall =>
        /\ open[adding.fd] = adding.pid
        /\ adding.lis = {} <=> ~cl[adding.pid].alive
        /\ cl[adding.pid].alive => adding.fd \in sessions
        /\ adding.at = "noted" /\ adding.fd \in sessions => adding.fd \in infos.state

RegisteredConnected == \A p \in Pid : cl[p].registered => cl[p].conn # NoFd

\* What is only about the service
ServerInv == ServerType /\ NotifiedOnce /\ EntriesWatched /\ OutSessionKept

\* What relates the service and the processes
LinkInv ==
    /\ ServiceDown /\ EndsAgree /\ DeathsReported /\ CallInProgress
    /\ RegisteredConnected /\ RegisteredListens

IInv == ServerInv /\ LinkInv /\ cl \in [Pid -> Process] /\ UsedType

-----------------------------------------------------------------------------
(* Types *)

LEMMA IInvType == IInv => TypeOK
BY DEF IInv, ServerInv, ServerType, AddingType, Opened, UsedType, TypeOK

LEMMA NewProcessType ==
  /\ NewProcess \in Process /\ NewProcess.alive /\ NewProcess.conn = NoFd /\ ~NewProcess.registered
  /\ \A n \in 0..MaxStarts, b \in BOOLEAN :
        /\ [NewProcess EXCEPT !.starts = n] \in Process
        /\ [NewProcess EXCEPT !.starts = n].alive
        /\ [NewProcess EXCEPT !.starts = n].conn = NoFd
        /\ ~[NewProcess EXCEPT !.starts = n].registered
        /\ [NewProcess EXCEPT !.alive = FALSE, !.starts = n] \in Process
        /\ ~[NewProcess EXCEPT !.alive = FALSE, !.starts = n].alive
        /\ [NewProcess EXCEPT !.alive = FALSE, !.starts = n].conn = NoFd
        /\ ~[NewProcess EXCEPT !.alive = FALSE, !.starts = n].registered
<1>1. 0 \in 0..MaxStarts /\ <<>> \in Seq({"START", "STOP", "RESULT"})
  BY BoundAssumption
<1> QED BY <1>1 DEF NewProcess, Process

\* A step that keeps the ends of all sessions; a process counts as registered
\* anew only while it is connected.
SameEnds(c, d) ==
    /\ d \in [Pid -> Process]
    /\ \A p \in Pid : d[p].alive = c[p].alive /\ d[p].conn = c[p].conn
    /\ \A p \in Pid : d[p].registered => c[p].registered \/ (c[p].alive /\ c[p].conn # NoFd)

\* ... and no process counts as registered anew.
SameView(c, d) ==
    /\ d \in [Pid -> Process]
    /\ \A p \in Pid : d[p].alive = c[p].alive /\ d[p].conn = c[p].conn
    /\ \A p \in Pid : d[p].registered => c[p].registered

LEMMA SameViewEnds == \A c, d : SameView(c, d) => SameEnds(c, d)
BY DEF SameView, SameEnds

LEMMA SameViewSelf == cl \in [Pid -> Process] => SameView(cl, cl)
BY DEF SameView

LEMMA SameViewThen ==
  ASSUME NEW b, NEW c, NEW d, SameView(b, c), SameView(c, d) PROVE SameView(b, d)
BY DEF SameView

\* Changing one process
LEMMA ViewOfOne ==
  ASSUME NEW c \in [Pid -> Process], NEW p \in Pid, NEW r \in Process,
         r.alive = c[p].alive, r.conn = c[p].conn, r.registered => c[p].registered
  PROVE  SameView(c, [c EXCEPT ![p] = r])
<1> DEFINE d == [c EXCEPT ![p] = r]
<1>1. d \in [Pid -> Process] /\ \A q \in Pid : d[q] = IF q = p THEN r ELSE c[q]
  OBVIOUS
<1> HIDE DEF d
<1>2. SameView(c, d)
  BY <1>1 DEF SameView
<1> QED BY <1>2 DEF d

LEMMA SentView ==
  ASSUME NEW c \in [Pid -> Process], NEW fds, NEW msg \in {"START", "STOP", "RESULT"}
  PROVE  SameView(c, Sent(c, fds, msg))
<1>1. ASSUME NEW p \in Pid
      PROVE  /\ [c[p] EXCEPT !.inbox = Append(@, msg)] \in Process
             /\ [c[p] EXCEPT !.inbox = Append(@, msg)].alive = c[p].alive
             /\ [c[p] EXCEPT !.inbox = Append(@, msg)].conn = c[p].conn
             /\ [c[p] EXCEPT !.inbox = Append(@, msg)].registered = c[p].registered
  <2>1. Append(c[p].inbox, msg) \in Seq({"START", "STOP", "RESULT"})
    BY DEF Process
  <2> DEFINE more == Append(c[p].inbox, msg)
  <2> HIDE DEF more
  <2>2. [c[p] EXCEPT !.inbox = more] \in Process
        /\ [c[p] EXCEPT !.inbox = more].alive = c[p].alive
        /\ [c[p] EXCEPT !.inbox = more].conn = c[p].conn
        /\ [c[p] EXCEPT !.inbox = more].registered = c[p].registered
    BY <2>1 DEF Process, more
  <2> QED BY <2>2 DEF more
<1> QED BY <1>1 DEF Sent, SameView

\* HearEof does nothing while no end of a session is closed.
LEMMA NothingHeard ==
  ASSUME NEW c \in [Pid -> Process], NEW left, \A p \in Pid : c[p].conn \in Fd => left[c[p].conn] # NoPid
  PROVE  HearEof(c, left) = c
BY DEF HearEof

\* The objects that are still referred to are the same, whoever else is gone.
Carried ==
    /\ open' \in [Fd -> Pid \union {NoPid}]
    /\ \A f \in Fd : f \in sessions' \union infos'.state \union infos'.style \union {out', adding'.fd} =>
                        open'[f] = open[f]

LEMMA RemainingCarried ==
  ASSUME ServerType, open' = Remaining(sessions', infos', out', adding')
  PROVE  Carried
BY DEF Remaining, ServerType, Carried

LEMMA UnchangedCarried == ServerType /\ open' = open => Carried
BY DEF ServerType, Carried

-----------------------------------------------------------------------------
(* Steps that keep the sessions *)

\* What is left to show of a step that keeps sessions_ and both their ends
LEMMA TablesStep ==
  ASSUME IInv, Carried, up' = up, sessions' = sessions, died' = died, SameEnds(cl, cl'),
         callbacks' \subseteq Pid,
         infos' \in [state : SUBSET Opened, style : SUBSET Opened],
         out' \in {NoFd} \union Opened,
         drag' \in {NoDrag, Remote} \union (Pid \X (0..MaxStarts)),
         adding' = NoCall \/ adding' \in AddingType,
         UsedType',
         \A f, g \in infos'.state : open[f] = open[g] => f = g,
         \A f \in infos'.state : open[f] \in callbacks' \/ (adding'.at = "noted" /\ open[f] = adding'.pid),
         drag' # NoDrag /\ drag' # Remote => out' # NoFd /\ open[out'] = drag'[1],
         ~up => adding' = NoCall,
         adding' # NoCall => /\ open[adding'.fd] = adding'.pid
                             /\ adding'.lis = {} <=> ~cl[adding'.pid].alive
                             /\ cl[adding'.pid].alive => adding'.fd \in sessions
                             /\ adding'.at = "noted" /\ adding'.fd \in sessions => adding'.fd \in infos'.state,
         \A p \in Pid : cl'[p].registered /\ cl[p].conn \in sessions => cl[p].conn \in infos'.state
  PROVE  IInv'
<1>0. ServerType /\ NotifiedOnce /\ ServiceDown /\ EndsAgree /\ DeathsReported /\ RegisteredConnected
  BY DEF IInv, ServerInv, LinkInv
<1>1. /\ sessions' \subseteq Opened /\ infos'.state \subseteq Opened /\ infos'.style \subseteq Opened
      /\ Opened \subseteq Fd
  BY <1>0 DEF ServerType, Opened
<1>2. /\ \A f \in sessions' \union infos'.state \union infos'.style : open'[f] = open[f]
      /\ out' # NoFd => open'[out'] = open[out']
      /\ adding' # NoCall => open'[adding'.fd] = open[adding'.fd] /\ adding'.fd \in Opened /\ adding'.pid \in Pid
  BY <1>1 DEF Carried, AddingType
<1>3. /\ sessions' \subseteq Opened' /\ infos' \in [state : SUBSET Opened', style : SUBSET Opened']
      /\ out' \in {NoFd} \union Opened'
  BY <1>1, <1>2 DEF Opened, Carried
<1>4. adding' = NoCall \/ adding' \in AddingType'
  BY <1>2 DEF AddingType, Opened
<1>5. ServerType'
  BY <1>0, <1>3, <1>4 DEF ServerType, Carried
<1>6. NotifiedOnce'
  BY <1>0, <1>2 DEF NotifiedOnce
<1>7. EntriesWatched'
  BY <1>2 DEF EntriesWatched
<1>8. OutSessionKept'
  BY <1>2 DEF OutSessionKept
<1>9. ServiceDown'
  BY <1>0 DEF ServiceDown
<1>10. EndsAgree'
  <2>1. \A p \in Pid : cl'[p].conn \in Fd => cl'[p].conn \in sessions' /\ open'[cl'[p].conn] = p
    BY <1>0, <1>2 DEF EndsAgree, SameEnds
  <2>2. \A f \in sessions' : open'[f] = open[f] /\ open[f] \in Pid
    BY <1>0, <1>1, <1>2 DEF ServerType, Opened
  <2>3. \A f \in sessions' : cl'[open'[f]].alive => cl'[open'[f]].conn = f
    BY <1>0, <2>2 DEF EndsAgree, SameEnds
  <2> QED BY <2>1, <2>3 DEF EndsAgree
<1>11. DeathsReported'
  <2>1. \A p \in Pid : /\ p \in died' => ~cl'[p].alive
                       /\ ~cl'[p].alive => ~cl'[p].registered /\ cl'[p].conn = NoFd
    BY <1>0 DEF DeathsReported, SameEnds
  <2>2. \A p \in Pid : ~cl'[p].alive /\ p \notin died' => \A f \in sessions' : open'[f] # p
    BY <1>0, <1>2 DEF DeathsReported, SameEnds
  <2> QED BY <2>1, <2>2 DEF DeathsReported
<1>12. CallInProgress'
  BY <1>2 DEF CallInProgress, SameEnds
<1>13. RegisteredConnected' /\ RegisteredListens'
  BY <1>0 DEF RegisteredConnected, RegisteredListens, SameEnds
<1> QED BY <1>5, <1>6, <1>7, <1>8, <1>9, <1>10, <1>11, <1>12, <1>13 DEF IInv, ServerInv, LinkInv, SameEnds

\* What the tables are made of before a step
LEMMA TablesNow ==
  ASSUME IInv
  PROVE  /\ callbacks \subseteq Pid /\ UsedType
         /\ infos \in [state : SUBSET Opened, style : SUBSET Opened]
         /\ out \in {NoFd} \union Opened
         /\ drag \in {NoDrag, Remote} \union (Pid \X (0..MaxStarts))
         /\ adding = NoCall \/ adding \in AddingType
         /\ \A g, h \in infos.state : open[g] = open[h] => g = h
         /\ \A g \in infos.state : open[g] \in callbacks \/ (adding.at = "noted" /\ open[g] = adding.pid)
         /\ drag # NoDrag /\ drag # Remote => out # NoFd /\ open[out] = drag[1]
         /\ ~up => adding = NoCall
         /\ adding # NoCall => /\ open[adding.fd] = adding.pid
                               /\ adding.lis = {} <=> ~cl[adding.pid].alive
                               /\ cl[adding.pid].alive => adding.fd \in sessions
                               /\ adding.at = "noted" /\ adding.fd \in sessions => adding.fd \in infos.state
         /\ \A p \in Pid : cl[p].registered /\ cl[p].conn \in sessions => cl[p].conn \in infos.state
         /\ cl \in [Pid -> Process]
         /\ ServerType /\ sessions \subseteq Opened /\ Opened \subseteq Fd
         /\ \A p \in Pid : cl[p].conn \in Fd => cl[p].conn \in sessions /\ open[cl[p].conn] = p
         /\ \A g \in sessions : cl[open[g]].alive => cl[open[g]].conn = g
         /\ \A p \in Pid : cl[p].registered => cl[p].alive
BY DEF IInv, ServerInv, LinkInv, ServerType, NotifiedOnce, EntriesWatched, OutSessionKept, ServiceDown,
       CallInProgress, RegisteredListens, EndsAgree, DeathsReported, Opened

\* A step in which only processes change
LEMMA ViewStep == ASSUME IInv, UNCHANGED serverVars, SameView(cl, cl'), UsedType' PROVE IInv'
<1>1. ServerType
  BY DEF IInv, ServerInv
<1>2. Carried
  BY <1>1, UnchangedCarried DEF serverVars
<1>3. SameEnds(cl, cl')
  BY SameViewEnds
<1>4. \A p \in Pid : cl'[p].registered => cl[p].registered
  BY DEF SameView
<1> QED BY <1>2, <1>3, <1>4, TablesNow, TablesStep DEF serverVars

LEMMA StartDragCallsKeeps ==
  ASSUME IInv, NEW p \in Pid, StartDragCalls(p) PROVE IInv'
<1>1. cl \in [Pid -> Process] /\ UsedType
  BY TablesNow
<1> DEFINE r == [cl[p] EXCEPT !.starts = cl[p].starts + 1, !.startListener = cl[p].starts + 1, !.starting = TRUE]
<1>2. cl[p].starts + 1 \in 0..MaxStarts
  BY <1>1, BoundAssumption DEF StartDragCalls, Process
<1>3. r \in Process /\ r.alive = cl[p].alive /\ r.conn = cl[p].conn /\ r.registered = cl[p].registered
  BY <1>1, <1>2 DEF Process
<1>4. cl' = [cl EXCEPT ![p] = r]
  BY DEF StartDragCalls
<1> HIDE DEF r
<1>5. SameView(cl, cl')
  BY <1>1, <1>3, <1>4, ViewOfOne
<1>6. UNCHANGED serverVars /\ UsedType'
  BY <1>1 DEF StartDragCalls, UsedType
<1> QED BY <1>5, <1>6, ViewStep

LEMMA OnPacketKeeps ==
  ASSUME IInv, NEW p \in Pid, OnPacket(p) PROVE IInv'
<1>1. cl \in [Pid -> Process] /\ UsedType
  BY TablesNow
<1>2. cl[p].inbox \in Seq({"START", "STOP", "RESULT"}) /\ cl[p].inbox # <<>> /\ cl[p].listeners \in SUBSET Listener
  BY <1>1 DEF OnPacket, Process
<1> DEFINE rest == Tail(cl[p].inbox)
           read == [cl[p] EXCEPT !.inbox = rest]
<1>3. rest \in Seq({"START", "STOP", "RESULT"})
  BY <1>2
<1> HIDE DEF rest
<1>4. read \in Process /\ read.alive = cl[p].alive /\ read.conn = cl[p].conn /\ read.registered = cl[p].registered
  BY <1>1, <1>3 DEF Process
<1>5. PICK r \in {[read EXCEPT !.told = cl[p].listeners], [read EXCEPT !.told = {}], [read EXCEPT !.startListener = 0]} :
         cl' = [cl EXCEPT ![p] = r]
  BY DEF OnPacket, rest
<1> HIDE DEF read
<1>6. r \in Process /\ r.alive = cl[p].alive /\ r.conn = cl[p].conn /\ r.registered = cl[p].registered
  <2>1. 0 \in 0..MaxStarts
    BY BoundAssumption
  <2> QED BY <1>2, <1>4, <1>5, <2>1 DEF Process
<1>7. SameView(cl, cl')
  BY <1>1, <1>5, <1>6, ViewOfOne
<1>8. UNCHANGED serverVars /\ UsedType'
  BY <1>1 DEF OnPacket, UsedType
<1> QED BY <1>7, <1>8, ViewStep

LEMMA StyleKeeps ==
  ASSUME IInv, NEW p \in Pid, AppSubscribesStyle(p) \/ AppUnsubscribesStyle(p) PROVE IInv'
<1>0. cl \in [Pid -> Process] /\ ServerType
  BY TablesNow
<1>1. PICK b \in BOOLEAN : cl' = [cl EXCEPT ![p].subscript = b]
  BY DEF AppSubscribesStyle, AppUnsubscribesStyle
<1>2. SameView(cl, cl')
  <2>1. [cl[p] EXCEPT !.subscript = b] \in Process
        /\ [cl[p] EXCEPT !.subscript = b].alive = cl[p].alive
        /\ [cl[p] EXCEPT !.subscript = b].conn = cl[p].conn
        /\ [cl[p] EXCEPT !.subscript = b].registered = cl[p].registered
    BY <1>0 DEF Process
  <2>2. cl' = [cl EXCEPT ![p] = [cl[p] EXCEPT !.subscript = b]]
    BY <1>1
  <2> QED BY <1>0, <2>1, <2>2, ViewOfOne
<1>3. UsedType'
  BY TablesNow, BoundAssumption DEF UsedType, AppSubscribesStyle, AppUnsubscribesStyle
<1>4. infos'.state = infos.state /\ infos' \in [state : SUBSET Opened, style : SUBSET Opened]
  <2>1. infos \in [state : SUBSET Opened, style : SUBSET Opened] /\ sessions \subseteq Opened
    BY TablesNow
  <2>2. CASE AppSubscribesStyle(p)
    <3>1. PICK f \in FindSessionByPid(p) : infos' = [infos EXCEPT !.style = AddNotifyMsg(@, f)]
      BY <2>2 DEF AppSubscribesStyle
    <3>2. AddNotifyMsg(infos.style, f) \in SUBSET Opened
      BY <2>1 DEF AddNotifyMsg, RemoveNotifyMsg, FindSessionByPid
    <3> QED BY <2>1, <3>1, <3>2
  <2>3. CASE AppUnsubscribesStyle(p)
    <3>1. RemoveNotifyMsg(infos.style, p) \in SUBSET Opened
      BY <2>1 DEF RemoveNotifyMsg
    <3> QED BY <2>1, <2>3, <3>1 DEF AppUnsubscribesStyle
  <2> QED BY <2>2, <2>3
<1>5. up' = up /\ sessions' = sessions /\ callbacks' = callbacks /\ out' = out /\ drag' = drag /\ adding' = adding
      /\ died' = died /\ open' = Remaining(sessions', infos', out', adding')
  BY DEF AppSubscribesStyle, AppUnsubscribesStyle
<1>6. Carried
  BY <1>0, <1>5, RemainingCarried
<1>7. SameEnds(cl, cl') /\ \A q \in Pid : cl'[q].registered => cl[q].registered
  BY <1>2, SameViewEnds DEF SameView
<1> QED BY <1>3, <1>4, <1>5, <1>6, <1>7, TablesNow, TablesStep

LEMMA StartDragReachesKeeps ==
  ASSUME IInv, NEW p \in Pid, StartDragReaches(p) PROVE IInv'
<1>0. cl \in [Pid -> Process] /\ ServerType /\ UsedType /\ sessions \subseteq Opened
  BY TablesNow
<1> DEFINE back == [cl EXCEPT ![p].starting = FALSE]
<1>1. SameView(cl, back)
  <2>1. [cl[p] EXCEPT !.starting = FALSE] \in Process
        /\ [cl[p] EXCEPT !.starting = FALSE].alive = cl[p].alive
        /\ [cl[p] EXCEPT !.starting = FALSE].conn = cl[p].conn
        /\ [cl[p] EXCEPT !.starting = FALSE].registered = cl[p].registered
    BY <1>0 DEF Process
  <2>2. back = [cl EXCEPT ![p] = [cl[p] EXCEPT !.starting = FALSE]]
    OBVIOUS
  <2> HIDE DEF back
  <2> QED BY <1>0, <2>1, <2>2, ViewOfOne
<1>2. SameView(cl, cl')
  <2>1. cl' = back \/ cl' = Sent(back, infos.state, "START")
    BY DEF StartDragReaches
  <2>2. back \in [Pid -> Process]
    BY <1>1 DEF SameView
  <2> HIDE DEF back
  <2>3. SameView(back, Sent(back, infos.state, "START"))
    BY <2>2, SentView
  <2> QED BY <1>1, <2>1, <2>3, SameViewThen
<1>3. /\ up' = up /\ sessions' = sessions /\ infos' = infos /\ adding' = adding /\ died' = died
      /\ open' = Remaining(sessions', infos', out', adding') /\ UsedType'
  BY <1>0 DEF StartDragReaches, UsedType
<1>4. OutSession(p) = out \/ (OutSession(p) \in sessions /\ open[OutSession(p)] = p)
  BY DEF OutSession, FindSessionByPid
<1>5. FindSessionByPid(p) # {} /\ drag = NoDrag => OutSession(p) \in sessions /\ open[OutSession(p)] = p
  BY DEF OutSession, FindSessionByPid
<1>6. drag # NoDrag => OutSession(p) = out
  BY DEF OutSession
<1>7. out' \in {NoFd} \union Opened /\ callbacks' \subseteq Pid /\ callbacks \subseteq callbacks'
  <2>1. out' \in {out, OutSession(p)} /\ callbacks' \in {callbacks, callbacks \union {p}}
    BY DEF StartDragReaches, WatchSession
  <2> QED BY <1>0, <1>4, <2>1, TablesNow
<1>8. /\ drag' \in {NoDrag, Remote} \union (Pid \X (0..MaxStarts))
      /\ drag' # NoDrag /\ drag' # Remote => out' # NoFd /\ open[out'] = drag'[1]
  <2>1. CASE drag' = drag /\ out' = out
    BY <2>1, TablesNow
  <2>2. CASE drag' = drag /\ out' = OutSession(p)
    <3>1. CASE drag = NoDrag
      BY <2>2, <3>1
    <3>2. CASE drag # NoDrag
      BY <1>6, <2>2, <3>2, TablesNow
    <3> QED BY <3>1, <3>2
  <2>3. CASE drag = NoDrag /\ drag' = <<p, cl[p].starts>> /\ out' = OutSession(p) /\ FindSessionByPid(p) # {}
    <3>1. cl[p].starts \in 0..MaxStarts
      BY <1>0 DEF Process
    <3>2. out' \in sessions /\ open[out'] = p /\ NoFd \notin sessions
      BY <1>0, <1>5, <2>3, TablesNow DEF Fd, NoFd
    <3>3. drag' \in Pid \X (0..MaxStarts) /\ drag'[1] = p
      BY <2>3, <3>1
    <3> QED BY <3>2, <3>3
  <2> QED BY <2>1, <2>2, <2>3 DEF StartDragReaches
<1>9. Carried
  BY <1>0, <1>3, RemainingCarried
<1>10. SameEnds(cl, cl') /\ \A q \in Pid : cl'[q].registered => cl[q].registered
  BY <1>2, SameViewEnds DEF SameView
<1>11. \A f \in infos'.state : open[f] \in callbacks' \/ (adding'.at = "noted" /\ open[f] = adding'.pid)
  BY <1>3, <1>7, TablesNow
<1> HIDE DEF back
<1> QED BY <1>3, <1>7, <1>8, <1>9, <1>10, <1>11, TablesNow, TablesStep

LEMMA StartRemoteDragKeeps == ASSUME IInv, StartRemoteDrag PROVE IInv'
<1>0. cl \in [Pid -> Process] /\ ServerType
  BY TablesNow
<1>1. SameView(cl, cl')
  BY <1>0, SentView DEF StartRemoteDrag
<1>2. UsedType'
  BY TablesNow, BoundAssumption DEF UsedType, StartRemoteDrag
<1>3. up' = up /\ open' = open /\ sessions' = sessions /\ callbacks' = callbacks /\ infos' = infos /\ out' = out
      /\ adding' = adding /\ died' = died /\ drag' = Remote
  BY DEF StartRemoteDrag
<1>4. Carried
  BY <1>0, <1>3, UnchangedCarried
<1>5. SameEnds(cl, cl') /\ \A q \in Pid : cl'[q].registered => cl[q].registered
  BY <1>1, SameViewEnds DEF SameView
<1> QED BY <1>2, <1>3, <1>4, <1>5, TablesNow, TablesStep

LEMMA StopDragKeeps == ASSUME IInv, StopDrag PROVE IInv'
<1>0. cl \in [Pid -> Process] /\ ServerType /\ UsedType
  BY TablesNow
<1>1. SameView(cl, cl')
  <2> DEFINE told == Sent(cl, infos.state, "STOP")
  <2>1. SameView(cl, told)
    BY <1>0, SentView
  <2>2. told \in [Pid -> Process]
    BY <2>1 DEF SameView
  <2>3. cl' = Sent(told, {ResultSession}, "RESULT")
    BY DEF StopDrag
  <2> HIDE DEF told
  <2>4. SameView(told, cl')
    BY <2>2, <2>3, SentView
  <2> QED BY <2>1, <2>4, SameViewThen
<1>2. UsedType'
  BY <1>0 DEF UsedType, StopDrag
<1>3. up' = up /\ sessions' = sessions /\ callbacks' = callbacks /\ infos' = infos /\ out' = NoFd
      /\ adding' = adding /\ died' = died /\ drag' = NoDrag /\ open' = Remaining(sessions', infos', out', adding')
  BY DEF StopDrag
<1>4. Carried
  BY <1>0, <1>3, RemainingCarried
<1>5. SameEnds(cl, cl') /\ \A q \in Pid : cl'[q].registered => cl[q].registered
  BY <1>1, SameViewEnds DEF SameView
<1> QED BY <1>2, <1>3, <1>4, <1>5, TablesNow, TablesStep

-----------------------------------------------------------------------------
(* AddListener and RemoveListener *)

LEMMA AddedView ==
  ASSUME cl \in [Pid -> Process], NEW p \in Pid, NEW ls \in SUBSET Listener, NEW again \in BOOLEAN
  PROVE  /\ Added(p, ls, again) \in [Pid -> Process]
         /\ \A q \in Pid : /\ Added(p, ls, again)[q].alive = cl[q].alive
                           /\ Added(p, ls, again)[q].conn = cl[q].conn
                           /\ q # p => Added(p, ls, again)[q].registered = cl[q].registered
<1> DEFINE forgotten == IF again THEN ls ELSE {}
           r == [cl[p] EXCEPT !.listeners = cl[p].listeners \union ls, !.registered = TRUE,
                              !.connected = cl[p].connected \ forgotten,
                              !.gone = cl[p].gone \ ls]
<1>1. Added(p, ls, again) = [cl EXCEPT ![p] = r]
  BY DEF Added
<1>2. r \in Process /\ r.alive = cl[p].alive /\ r.conn = cl[p].conn
  BY DEF Process
<1> HIDE DEF r
<1> QED BY <1>1, <1>2

LEMMA NotAddedView ==
  ASSUME cl \in [Pid -> Process], NEW p \in Pid, NEW ls \in SUBSET Listener, NEW again \in BOOLEAN
  PROVE  SameView(cl, NotAdded(p, ls, again))
<1> DEFINE r == [cl[p] EXCEPT !.connected = cl[p].connected \ ls, !.gone = cl[p].gone \union ls]
<1>1. r \in Process /\ r.alive = cl[p].alive /\ r.conn = cl[p].conn /\ r.registered = cl[p].registered
  BY DEF Process
<1>2. NotAdded(p, ls, again) = [cl EXCEPT ![p] = r] \/ NotAdded(p, ls, again) = cl
  BY DEF NotAdded
<1> HIDE DEF r
<1>3. SameView(cl, [cl EXCEPT ![p] = r])
  BY <1>1, ViewOfOne
<1> QED BY <1>2, <1>3, SameViewSelf

\* AddDraglistener, but for what it counts
LEMMA AddDraglistenerKeeps ==
  ASSUME IInv, NEW p \in Pid, NEW l \in Listener, NEW again \in BOOLEAN,
         AddDraglistener(p, l, again), UsedType'
  PROVE  IInv'
<1>0. cl \in [Pid -> Process] /\ ServerType /\ sessions \subseteq Opened
  BY TablesNow
<1>1. CASE cl[p].registered /\ cl' = Added(p, {l}, again) /\ adding' = adding
  <2>1. SameView(cl, cl')
    <3> DEFINE c == Added(p, {l}, again)
    <3>1. /\ c \in [Pid -> Process]
          /\ \A q \in Pid : c[q].alive = cl[q].alive /\ c[q].conn = cl[q].conn
                            /\ (q # p => c[q].registered = cl[q].registered)
      BY <1>0, AddedView
    <3>2. cl' = c
      BY <1>1
    <3> HIDE DEF c
    <3> QED BY <1>1, <3>1, <3>2 DEF SameView
  <2>2. UNCHANGED serverVars
    BY <1>1 DEF AddDraglistener, serverVars
  <2> QED BY <2>1, <2>2, ViewStep
<1>2. CASE cl' = NotAdded(p, {l}, again) /\ adding' = adding
  <2>1. SameView(cl, cl')
    BY <1>0, <1>2, NotAddedView
  <2>2. UNCHANGED serverVars
    BY <1>2 DEF AddDraglistener, serverVars
  <2> QED BY <2>1, <2>2, ViewStep
<1>3. CASE /\ Reaches(p) /\ cl' = cl
           /\ \E f \in FindSessionByPid(p) :
                adding' = [pid |-> p, fd |-> f, lis |-> {l}, at |-> "found", again |-> again]
  <2>1. PICK f \in FindSessionByPid(p) :
               adding' = [pid |-> p, fd |-> f, lis |-> {l}, at |-> "found", again |-> again]
    BY <1>3
  <2>2. f \in sessions /\ f \in Opened /\ open[f] = p
    BY <1>0, <2>1 DEF FindSessionByPid
  <2>3. up /\ adding = NoCall /\ cl[p].alive
    BY <1>3 DEF Reaches, ServiceFree
  <2>4. adding' \in AddingType
    BY <2>1, <2>2 DEF AddingType
  <2>5. up' = up /\ open' = open /\ sessions' = sessions /\ callbacks' = callbacks /\ infos' = infos /\ out' = out
        /\ drag' = drag /\ died' = died
    BY DEF AddDraglistener
  <2>6. Carried
    BY <1>0, <2>5, UnchangedCarried
  <2>7. SameEnds(cl, cl') /\ \A q \in Pid : cl'[q].registered => cl[q].registered
    BY <1>0, <1>3, SameViewSelf, SameViewEnds
  <2>8. /\ open[adding'.fd] = adding'.pid
        /\ adding'.lis = {} <=> ~cl[adding'.pid].alive
        /\ cl[adding'.pid].alive => adding'.fd \in sessions
        /\ adding'.at = "noted" /\ adding'.fd \in sessions => adding'.fd \in infos'.state
    BY <2>1, <2>2, <2>3
  <2>9. \A g \in infos'.state : open[g] \in callbacks'
    BY <2>3, <2>5, TablesNow DEF NoCall
  <2> QED BY <2>3, <2>4, <2>5, <2>6, <2>7, <2>8, <2>9, TablesNow, TablesStep
<1> QED BY <1>1, <1>2, <1>3 DEF AddDraglistener

LEMMA AddListenerNotesKeeps == ASSUME IInv, AddListenerNotes PROVE IInv'
<1>0. cl \in [Pid -> Process] /\ ServerType /\ UsedType /\ sessions \subseteq Opened
  BY TablesNow
<1>1. adding # NoCall /\ adding \in AddingType /\ adding.at = "found"
  BY TablesNow DEF AddListenerNotes, NoCall
<1>2. adding.pid \in Pid /\ adding.fd \in Opened /\ open[adding.fd] = adding.pid
  BY <1>1, TablesNow DEF AddingType
<1>3. /\ adding' \in AddingType /\ adding'.pid = adding.pid /\ adding'.fd = adding.fd
      /\ adding'.lis = adding.lis /\ adding'.at = "noted"
  BY <1>1 DEF AddListenerNotes, AddingType
<1>4. /\ infos' \in [state : SUBSET Opened, style : SUBSET Opened]
      /\ infos'.state = {f \in infos.state : open[f] # adding.pid} \union {adding.fd}
  <2>1. infos \in [state : SUBSET Opened, style : SUBSET Opened]
    BY TablesNow
  <2>2. AddNotifyMsg(infos.state, adding.fd) = {f \in infos.state : open[f] # adding.pid} \union {adding.fd}
    BY <1>2 DEF AddNotifyMsg, RemoveNotifyMsg
  <2>3. infos' = [infos EXCEPT !.state = AddNotifyMsg(infos.state, adding.fd)]
    BY DEF AddListenerNotes
  <2> QED BY <1>2, <2>1, <2>2, <2>3
<1>5. up' = up /\ sessions' = sessions /\ callbacks' = callbacks /\ out' = out /\ drag' = drag /\ died' = died
      /\ used' = used /\ open' = Remaining(sessions', infos', out', adding')
  BY DEF AddListenerNotes
<1>6. Carried
  BY <1>0, <1>5, RemainingCarried
<1>7. cl' = cl
  <2>1. \A p \in Pid : cl[p].conn \in Fd => open'[cl[p].conn] # NoPid
    BY <1>5, <1>6, TablesNow, ProcessAssumption DEF Carried
  <2> QED BY <1>0, <2>1, NothingHeard DEF AddListenerNotes
<1>8. SameEnds(cl, cl') /\ UsedType'
  BY <1>0, <1>5, <1>7, SameViewSelf, SameViewEnds DEF UsedType
<1>9. \A f, g \in infos'.state : open[f] = open[g] => f = g
  BY <1>2, <1>4, TablesNow
<1>10. \A f \in infos'.state : open[f] \in callbacks' \/ (adding'.at = "noted" /\ open[f] = adding'.pid)
  BY <1>1, <1>3, <1>4, <1>5, TablesNow
<1>11. \A p \in Pid : cl'[p].registered /\ cl[p].conn \in sessions => cl[p].conn \in infos'.state
  <2> SUFFICES ASSUME NEW p \in Pid, cl[p].registered, cl[p].conn \in sessions PROVE cl[p].conn \in infos'.state
    BY <1>7
  <2>1. cl[p].conn \in infos.state /\ open[cl[p].conn] = p /\ cl[p].alive
    BY <1>0, TablesNow
  <2>2. CASE p = adding.pid
    BY <1>1, <1>2, <1>4, <2>1, <2>2, TablesNow
  <2>3. CASE p # adding.pid
    BY <1>4, <2>1, <2>3
  <2> QED BY <2>2, <2>3
<1>12. /\ open[adding'.fd] = adding'.pid
       /\ adding'.lis = {} <=> ~cl[adding'.pid].alive
       /\ cl[adding'.pid].alive => adding'.fd \in sessions
       /\ adding'.at = "noted" /\ adding'.fd \in sessions => adding'.fd \in infos'.state
  BY <1>1, <1>3, <1>4, TablesNow
<1>13. up
  BY <1>1, TablesNow
<1> QED BY <1>3, <1>4, <1>5, <1>6, <1>8, <1>9, <1>10, <1>11, <1>12, <1>13, TablesNow, TablesStep

LEMMA AddListenerWatchesKeeps == ASSUME IInv, AddListenerWatches PROVE IInv'
<1>0. cl \in [Pid -> Process] /\ ServerType /\ UsedType /\ sessions \subseteq Opened
  BY TablesNow
<1>1. adding # NoCall /\ adding \in AddingType /\ adding.at = "noted" /\ up
  BY TablesNow DEF AddListenerWatches, NoCall
<1>2. /\ adding.pid \in Pid /\ adding.fd \in Opened /\ open[adding.fd] = adding.pid
      /\ adding.lis \in SUBSET Listener /\ adding.again \in BOOLEAN
  BY <1>1, TablesNow DEF AddingType
<1>3. /\ up' = up /\ sessions' = sessions /\ infos' = infos /\ out' = out /\ drag' = drag /\ died' = died
      /\ used' = used /\ adding' = NoCall /\ callbacks' = callbacks \union {adding.pid}
      /\ open' = Remaining(sessions', infos', out', adding')
  BY DEF AddListenerWatches, WatchSession
<1>4. Carried
  BY <1>0, <1>3, RemainingCarried
<1> DEFINE c == IF adding.lis = {} THEN cl ELSE Added(adding.pid, adding.lis, adding.again)
<1>5. /\ c \in [Pid -> Process]
      /\ \A q \in Pid : /\ c[q].alive = cl[q].alive /\ c[q].conn = cl[q].conn
                        /\ c[q].registered => cl[q].registered \/ (q = adding.pid /\ adding.lis # {})
  <2>1. CASE adding.lis = {}
    BY <1>0, <2>1
  <2>2. CASE adding.lis # {}
    <3> DEFINE e == Added(adding.pid, adding.lis, adding.again)
    <3>1. /\ e \in [Pid -> Process]
          /\ \A q \in Pid : e[q].alive = cl[q].alive /\ e[q].conn = cl[q].conn
                            /\ (q # adding.pid => e[q].registered = cl[q].registered)
      BY <1>0, <1>2, AddedView
    <3>2. c = e
      BY <2>2
    <3> HIDE DEF c, e
    <3> QED BY <2>2, <3>1, <3>2
  <2> QED BY <2>1, <2>2
<1>6. cl' = HearEof(c, open')
  BY <1>3 DEF AddListenerWatches
<1> HIDE DEF c
<1>7. cl' = c
  <2>1. \A p \in Pid : c[p].conn \in Fd => open'[c[p].conn] # NoPid
    BY <1>3, <1>4, <1>5, TablesNow, ProcessAssumption DEF Carried
  <2> QED BY <1>5, <1>6, <2>1, NothingHeard
\* The process of the call runs, and is connected by the session it was found with.
<1>8. adding.lis # {} => /\ cl[adding.pid].alive /\ cl[adding.pid].conn = adding.fd
                         /\ adding.fd \in infos.state /\ adding.fd # NoFd
  <2>1. NoFd \notin Opened
    BY DEF Opened, NoFd, Fd
  <2> QED BY <1>1, <1>2, <2>1, TablesNow
<1>9. SameEnds(cl, cl') /\ UsedType'
  BY <1>0, <1>3, <1>5, <1>7, <1>8 DEF SameEnds, UsedType
<1>10. \A p \in Pid : cl'[p].registered /\ cl[p].conn \in sessions => cl[p].conn \in infos'.state
  BY <1>3, <1>5, <1>7, <1>8, TablesNow
<1>11. callbacks' \subseteq Pid /\ \A f \in infos'.state : open[f] \in callbacks'
  BY <1>2, <1>3, TablesNow
<1> QED BY <1>1, <1>3, <1>4, <1>9, <1>10, <1>11, TablesNow, TablesStep

LEMMA AppRemovesKeeps ==
  ASSUME IInv, NEW p \in Pid, NEW l \in Listener, AppRemoves(p, l) PROVE IInv'
<1>0. cl \in [Pid -> Process] /\ ServerType /\ UsedType
  BY TablesNow
<1> DEFINE r == RemoveDraglistener(p, l)
<1>1. /\ r \in Process /\ r.alive = cl[p].alive /\ r.conn = cl[p].conn
      /\ r.registered => cl[p].registered /\ cl[p].listeners # {l}
  <2> DEFINE b == cl[p].registered /\ cl[p].listeners \ {l} # {}
  <2>1. b \in BOOLEAN /\ (b => cl[p].registered /\ cl[p].listeners # {l})
    BY <1>0 DEF Process
  <2>2. r = [cl[p] EXCEPT !.listeners = cl[p].listeners \ {l}, !.told = cl[p].told \ {l},
                          !.gone = cl[p].gone \union {l}, !.registered = b]
    BY DEF RemoveDraglistener
  <2> HIDE DEF r, b
  <2> QED BY <1>0, <2>1, <2>2 DEF Process
<1>2. cl' = [cl EXCEPT ![p] = r]
  BY DEF AppRemoves
<1> HIDE DEF r
<1>3. SameView(cl, cl')
  BY <1>0, <1>1, <1>2, ViewOfOne
<1>4. up' = up /\ sessions' = sessions /\ callbacks' = callbacks /\ out' = out /\ drag' = drag /\ adding' = adding
      /\ died' = died /\ open' = Remaining(sessions', infos', out', adding')
  BY DEF AppRemoves
<1>5. UsedType'
  BY <1>0, BoundAssumption DEF UsedType, AppRemoves
<1>6. Carried
  BY <1>0, <1>4, RemainingCarried
<1>7. \/ infos' = infos
      \/ /\ cl[p].listeners = {l} /\ adding = NoCall
         /\ infos' = [infos EXCEPT !.state = RemoveNotifyMsg(infos.state, p)]
  BY DEF AppRemoves, Reaches, ServiceFree
<1>8. /\ infos' \in [state : SUBSET Opened, style : SUBSET Opened] /\ infos'.state \subseteq infos.state
      /\ infos' = infos \/ (adding = NoCall /\ cl[p].listeners = {l}
                                /\ \A f \in infos.state : open[f] # p => f \in infos'.state)
  <2>1. infos \in [state : SUBSET Opened, style : SUBSET Opened]
    BY TablesNow
  <2>2. RemoveNotifyMsg(infos.state, p) = {f \in infos.state : open[f] # p}
    BY DEF RemoveNotifyMsg
  <2> QED BY <1>7, <2>1, <2>2
<1>9. \A q \in Pid : cl'[q].registered => cl[q].registered /\ (q = p => cl[p].listeners # {l})
  BY <1>0, <1>1, <1>2
<1>10. \A q \in Pid : cl'[q].registered /\ cl[q].conn \in sessions => cl[q].conn \in infos'.state
  <2>1. \A q \in Pid : cl[q].registered /\ cl[q].conn \in sessions =>
                          cl[q].conn \in infos.state /\ open[cl[q].conn] = q
    BY <1>0, TablesNow
  <2> QED BY <1>8, <1>9, <2>1
<1>11. SameEnds(cl, cl')
  BY <1>3, SameViewEnds
<1>12. adding # NoCall => infos' = infos
  BY <1>8
<1> QED BY <1>4, <1>5, <1>6, <1>8, <1>10, <1>11, <1>12, TablesNow, TablesStep

LEMMA AppAddsKeeps ==
  ASSUME IInv, NEW p \in Pid, NEW l \in Listener, AppAdds(p, l) PROVE IInv'
<1>1. UsedType'
  BY TablesNow, BoundAssumption DEF UsedType, AppAdds
<1>2. AddDraglistener(p, l, FALSE)
  BY DEF AppAdds
<1> QED BY <1>1, <1>2, AddDraglistenerKeeps

LEMMA OnConnectedKeeps ==
  ASSUME IInv, NEW p \in Pid, OnConnected(p) PROVE IInv'
<1>0. cl \in [Pid -> Process] /\ UsedType
  BY TablesNow
<1>1. UsedType'
  BY <1>0 DEF UsedType, OnConnected
<1>2. CASE \E l \in cl[p].connected \ cl[p].listeners : AddDraglistener(p, l, TRUE)
  <2>1. PICK l \in cl[p].connected \ cl[p].listeners : AddDraglistener(p, l, TRUE)
    BY <1>2
  <2>2. l \in Listener
    BY <1>0, <2>1 DEF Process
  <2> QED BY <1>1, <2>1, <2>2, AddDraglistenerKeeps
<1>3. CASE UNCHANGED serverVars /\ cl' = [cl EXCEPT ![p] = [@ EXCEPT !.connecting = FALSE, !.connected = {}]]
  <2> DEFINE r == [cl[p] EXCEPT !.connecting = FALSE, !.connected = {}]
  <2>1. r \in Process /\ r.alive = cl[p].alive /\ r.conn = cl[p].conn /\ r.registered = cl[p].registered
    BY <1>0 DEF Process
  <2>2. cl' = [cl EXCEPT ![p] = r]
    BY <1>3
  <2> HIDE DEF r
  <2>3. SameView(cl, cl')
    BY <1>0, <2>1, <2>2, ViewOfOne
  <2> QED BY <1>1, <1>3, <2>3, ViewStep
<1> QED BY <1>2, <1>3 DEF OnConnected

-----------------------------------------------------------------------------
(* Connections and deaths *)

\* The parts of the invariant, for the steps that change who is there
LEMMA LinkNow ==
  ASSUME IInv
  PROVE  /\ ServerType /\ NotifiedOnce /\ EntriesWatched /\ OutSessionKept /\ ServiceDown /\ EndsAgree
         /\ DeathsReported /\ CallInProgress /\ RegisteredConnected /\ RegisteredListens
         /\ cl \in [Pid -> Process] /\ UsedType
BY DEF IInv, ServerInv, LinkInv

\* A step in which only one process changes: it starts, or takes note of the end
\* of its session
LEMMA ProcessStep ==
  ASSUME IInv, UNCHANGED <<serverVars, used>>, NEW p \in Pid, NEW r \in Process,
         cl' = [cl EXCEPT ![p] = r], r.alive, r.conn = NoFd, ~r.registered,
         cl[p].alive \/ (p \notin died /\ adding.pid # p),
         cl[p].conn \notin Fd
  PROVE  IInv'
<1>0. /\ ServerType /\ NotifiedOnce /\ EntriesWatched /\ OutSessionKept /\ ServiceDown /\ EndsAgree
      /\ DeathsReported /\ CallInProgress /\ RegisteredConnected /\ RegisteredListens
      /\ cl \in [Pid -> Process] /\ UsedType
  BY LinkNow
<1>1. /\ cl' \in [Pid -> Process] /\ cl'[p] = r
      /\ \A q \in Pid : q # p => cl'[q] = cl[q]
  BY <1>0
<1>2. ServerInv' /\ ServiceDown' /\ UsedType'
  BY <1>0 DEF serverVars, ServerInv, ServerType, AddingType, Opened, NotifiedOnce, EntriesWatched, OutSessionKept,
              ServiceDown, UsedType
<1>3. \A f \in sessions : f \in Fd /\ open[f] \in Pid /\ open[f] # p
  <2>1. \A f \in sessions : f \in Fd /\ open[f] \in Pid
    BY <1>0 DEF ServerType, Opened
  <2>2. CASE cl[p].alive
    BY <1>0, <2>1, <2>2 DEF EndsAgree
  <2>3. CASE ~cl[p].alive
    BY <1>0, <2>1, <2>3 DEF DeathsReported
  <2> QED BY <2>1, <2>2, <2>3
<1>4. NoFd \notin Fd
  BY DEF NoFd, Fd
<1>5. EndsAgree'
  <2>1. \A q \in Pid : cl'[q].conn \in Fd => cl'[q].conn \in sessions' /\ open'[cl'[q].conn] = q
    BY <1>0, <1>1, <1>4 DEF EndsAgree, serverVars
  <2>2. \A f \in sessions' : cl'[open'[f]].alive => cl'[open'[f]].conn = f
    BY <1>0, <1>1, <1>3 DEF EndsAgree, serverVars
  <2> QED BY <2>1, <2>2 DEF EndsAgree
<1>6. DeathsReported'
  <2>1. p \notin died
    BY <1>0 DEF DeathsReported
  <2> QED BY <1>0, <1>1, <2>1 DEF DeathsReported, serverVars
<1>7. CallInProgress'
  <2>1. adding # NoCall => adding.pid \in Pid /\ (adding.pid = p => cl[p].alive)
    BY <1>0 DEF ServerType, AddingType
  <2>2. adding # NoCall /\ adding.pid = p => FALSE
    BY <1>0, <1>3, <2>1 DEF CallInProgress
  <2>3. adding # NoCall => cl'[adding.pid] = cl[adding.pid]
    BY <1>1, <2>1, <2>2
  <2> QED BY <1>0, <2>3 DEF CallInProgress, serverVars
<1>8. RegisteredConnected' /\ RegisteredListens'
  BY <1>0, <1>1 DEF RegisteredConnected, RegisteredListens, serverVars
<1> QED BY <1>1, <1>2, <1>5, <1>6, <1>7, <1>8 DEF IInv, LinkInv

LEMMA OnDisconnectedKeeps ==
  ASSUME IInv, NEW p \in Pid, OnDisconnected(p) PROVE IInv'
<1>0. cl \in [Pid -> Process]
  BY TablesNow
<1> DEFINE kept == IF cl[p].listeners = {} THEN cl[p].connected ELSE cl[p].listeners
<1>1. kept \in SUBSET Listener /\ 0 \in 0..MaxStarts
  BY <1>0, BoundAssumption DEF Process
<1>2. Disconnected(p) = [cl[p] EXCEPT !.conn = NoFd, !.startListener = 0, !.told = {}, !.connected = kept,
                                      !.listeners = {}, !.registered = FALSE]
  BY DEF Disconnected
<1> HIDE DEF kept
<1>3. /\ Disconnected(p) \in Process /\ Disconnected(p).alive = cl[p].alive /\ Disconnected(p).conn = NoFd
      /\ ~Disconnected(p).registered
  <2> DEFINE c == [cl[p] EXCEPT !.conn = NoFd, !.startListener = 0, !.told = {}]
             d == [c EXCEPT !.connected = kept, !.listeners = {}, !.registered = FALSE]
  <2>1. c \in Process /\ c.alive = cl[p].alive /\ c.conn = NoFd
    BY <1>0, <1>1 DEF Process
  <2>2. Disconnected(p) = d
    BY <1>2
  <2> HIDE DEF c
  <2>3. d \in Process /\ d.alive = c.alive /\ d.conn = c.conn /\ ~d.registered
    BY <1>1, <2>1 DEF Process
  <2> QED BY <2>1, <2>2, <2>3
<1>4. cl[p].alive /\ cl[p].conn \notin Fd /\ cl' = [cl EXCEPT ![p] = Disconnected(p)] /\ UNCHANGED <<serverVars, used>>
  BY BoundAssumption DEF OnDisconnected, Unlocked, Eof, Fd
<1> QED BY <1>3, <1>4, ProcessStep

LEMMA ProcessStartsKeeps ==
  ASSUME IInv, NEW p \in Pid, ProcessStarts(p) PROVE IInv'
<1>0. cl \in [Pid -> Process] /\ DeathsReported
  BY LinkNow
<1> DEFINE r == [NewProcess EXCEPT !.starts = cl[p].starts]
<1>1. cl[p].starts \in 0..MaxStarts
  BY <1>0 DEF Process
<1>2. r \in Process /\ r.alive /\ r.conn = NoFd /\ ~r.registered
  BY <1>1, NewProcessType
<1>3. cl' = [cl EXCEPT ![p] = r] /\ UNCHANGED <<serverVars, used>> /\ p \notin died /\ adding.pid # p
  BY DEF ProcessStarts
<1>4. cl[p].conn \notin Fd
  BY <1>0 DEF DeathsReported, ProcessStarts, NoFd, Fd
<1> HIDE DEF r
<1> QED BY <1>2, <1>3, <1>4, ProcessStep

LEMMA ProcessDiesKeeps ==
  ASSUME IInv, NEW p \in Pid, ProcessDies(p) PROVE IInv'
<1>0. /\ ServerType /\ NotifiedOnce /\ EntriesWatched /\ OutSessionKept /\ ServiceDown /\ EndsAgree
      /\ DeathsReported /\ CallInProgress /\ RegisteredConnected /\ RegisteredListens
      /\ cl \in [Pid -> Process] /\ UsedType
  BY LinkNow
<1> DEFINE r == [NewProcess EXCEPT !.alive = FALSE, !.starts = cl[p].starts]
<1>1. cl[p].starts \in 0..MaxStarts
  BY <1>0 DEF Process
<1>2. r \in Process /\ ~r.alive /\ r.conn = NoFd /\ ~r.registered
  BY <1>1, NewProcessType
<1>3. cl' = [cl EXCEPT ![p] = r]
  BY DEF ProcessDies
<1> HIDE DEF r
<1>4. cl' \in [Pid -> Process] /\ cl'[p] = r /\ \A q \in Pid : q # p => cl'[q] = cl[q]
  BY <1>0, <1>2, <1>3
<1>5. /\ up' = up /\ open' = open /\ sessions' = sessions /\ callbacks' = callbacks /\ infos' = infos
      /\ out' = out /\ drag' = drag /\ died' = died \union {p}
  BY DEF ProcessDies
<1>6. adding = NoCall => adding' = NoCall
  BY ProcessAssumption DEF ProcessDies, NoCall
<1>7. adding # NoCall =>
        /\ adding' # NoCall /\ adding' \in AddingType /\ adding \in AddingType
        /\ adding'.pid = adding.pid /\ adding'.fd = adding.fd /\ adding'.at = adding.at
        /\ adding.pid = p => adding'.lis = {}
        /\ adding.pid # p => adding'.lis = adding.lis
  <2> SUFFICES ASSUME adding # NoCall
               PROVE  /\ adding' # NoCall /\ adding' \in AddingType /\ adding \in AddingType
                      /\ adding'.pid = adding.pid /\ adding'.fd = adding.fd /\ adding'.at = adding.at
                      /\ adding.pid = p => adding'.lis = {}
                      /\ adding.pid # p => adding'.lis = adding.lis
    OBVIOUS
  <2>1. adding \in AddingType
    BY <1>0 DEF ServerType
  <2>2. adding' = IF adding.pid = p THEN [adding EXCEPT !.lis = {}] ELSE adding
    BY DEF ProcessDies
  <2>3. adding' \in AddingType /\ adding'.pid = adding.pid /\ adding'.fd = adding.fd /\ adding'.at = adding.at
        /\ (adding.pid = p => adding'.lis = {}) /\ (adding.pid # p => adding'.lis = adding.lis)
    BY <2>1, <2>2 DEF AddingType
  <2>4. adding' # NoCall
    BY <2>3, ProcessAssumption DEF AddingType, NoCall
  <2> QED BY <2>1, <2>3, <2>4
<1>8. ServerType'
  <2>1. adding' = NoCall \/ adding' \in AddingType
    BY <1>6, <1>7
  <2> QED BY <1>0, <1>5, <2>1 DEF ServerType, AddingType, Opened
<1>9. NotifiedOnce' /\ OutSessionKept' /\ EntriesWatched'
  <2>1. adding.at = "noted" => adding'.at = "noted" /\ adding'.pid = adding.pid
    BY <1>6, <1>7 DEF NoCall
  <2> QED BY <1>0, <1>5, <2>1 DEF NotifiedOnce, OutSessionKept, EntriesWatched
<1>10. ServiceDown' /\ UsedType'
  BY <1>0, <1>5, <1>6, BoundAssumption DEF ServiceDown, UsedType, ProcessDies
<1>11. NoFd \notin Fd
  BY DEF NoFd, Fd
<1>12. EndsAgree'
  <2>1. \A q \in Pid : cl'[q].conn \in Fd => cl'[q].conn \in sessions' /\ open'[cl'[q].conn] = q
    BY <1>0, <1>2, <1>4, <1>5, <1>11 DEF EndsAgree
  <2>2. \A f \in sessions : open[f] \in Pid
    BY <1>0 DEF ServerType, Opened
  <2>3. \A f \in sessions' : cl'[open'[f]].alive => cl'[open'[f]].conn = f
    BY <1>0, <1>2, <1>4, <1>5, <2>2 DEF EndsAgree
  <2> QED BY <2>1, <2>3 DEF EndsAgree
<1>13. DeathsReported'
  BY <1>0, <1>2, <1>4, <1>5 DEF DeathsReported
<1>14. CallInProgress'
  <2> SUFFICES ASSUME adding' # NoCall
               PROVE  /\ open[adding'.fd] = adding'.pid
                      /\ adding'.lis = {} <=> ~cl'[adding'.pid].alive
                      /\ cl'[adding'.pid].alive => adding'.fd \in sessions
                      /\ adding'.at = "noted" /\ adding'.fd \in sessions => adding'.fd \in infos.state
    BY <1>5 DEF CallInProgress
  <2>1. adding # NoCall /\ adding.pid \in Pid
    BY <1>6, <1>7 DEF AddingType
  <2>2. CASE adding.pid = p
    BY <1>0, <1>2, <1>4, <1>7, <2>1, <2>2 DEF CallInProgress
  <2>3. CASE adding.pid # p
    BY <1>0, <1>4, <1>7, <2>1, <2>3 DEF CallInProgress
  <2> QED BY <2>2, <2>3
<1>15. RegisteredConnected' /\ RegisteredListens'
  BY <1>0, <1>2, <1>4, <1>5 DEF RegisteredConnected, RegisteredListens
<1> QED BY <1>4, <1>8, <1>9, <1>10, <1>12, <1>13, <1>14, <1>15 DEF IInv, ServerInv, LinkInv

LEMMA ReconnectKeeps ==
  ASSUME IInv, NEW p \in Pid, Reconnect(p) PROVE IInv'
<1>0. /\ ServerType /\ NotifiedOnce /\ EntriesWatched /\ OutSessionKept /\ ServiceDown /\ EndsAgree
      /\ DeathsReported /\ CallInProgress /\ RegisteredConnected /\ RegisteredListens
      /\ cl \in [Pid -> Process] /\ UsedType
  BY LinkNow
<1>1. PICK f \in Fd : /\ open[f] = NoPid
                      /\ open' = [open EXCEPT ![f] = p]
                      /\ sessions' = sessions \union {f}
                      /\ cl' = [cl EXCEPT ![p] = [@ EXCEPT !.conn = f, !.connecting = TRUE]]
  BY DEF Reconnect
<1>2. /\ up' = up /\ callbacks' = callbacks /\ infos' = infos /\ out' = out /\ drag' = drag /\ adding' = adding
      /\ died' = died /\ used' = used
      /\ up /\ adding = NoCall /\ cl[p].alive /\ cl[p].conn = NoFd
      /\ \A g \in sessions : open[g] # p
  BY DEF Reconnect, Reaches, ServiceFree, AllocSocketFd, FindSessionByPid
<1> DEFINE r == [cl[p] EXCEPT !.conn = f, !.connecting = TRUE]
<1>3. r \in Process /\ r.alive /\ r.conn = f /\ r.registered = cl[p].registered
  BY <1>0, <1>2 DEF Process
<1>4. cl' = [cl EXCEPT ![p] = r]
  BY <1>1
<1> HIDE DEF r
<1>5. cl' \in [Pid -> Process] /\ cl'[p] = r /\ \A q \in Pid : q # p => cl'[q] = cl[q]
  BY <1>0, <1>3, <1>4
<1>6. open' \in [Fd -> Pid \union {NoPid}] /\ open'[f] = p /\ \A g \in Fd : g # f => open'[g] = open[g]
  BY <1>0, <1>1 DEF ServerType
<1>7. f \notin Opened /\ Opened \subseteq Fd /\ sessions \subseteq Opened /\ infos.state \subseteq Opened
      /\ infos.style \subseteq Opened /\ (out = NoFd \/ out \in Opened)
  BY <1>0, <1>1 DEF ServerType, Opened
<1>8. Opened \subseteq Opened' /\ f \in Opened' /\ p # NoPid
  BY <1>6, <1>7, ProcessAssumption DEF Opened
<1>9. ServerType'
  <2>1. sessions' \subseteq Opened' /\ out' \in {NoFd} \union Opened'
    BY <1>1, <1>2, <1>7, <1>8
  <2>2. infos' \in [state : SUBSET Opened', style : SUBSET Opened']
    BY <1>0, <1>2, <1>8 DEF ServerType
  <2> QED BY <1>0, <1>2, <1>6, <2>1, <2>2 DEF ServerType
<1>10. NotifiedOnce' /\ EntriesWatched' /\ OutSessionKept'
  <2>1. \A g \in Opened : open'[g] = open[g] /\ g # f
    BY <1>6, <1>7
  <2>2. NotifiedOnce'
    BY <1>0, <1>1, <1>2, <1>6, <1>7, <2>1 DEF NotifiedOnce
  <2>3. EntriesWatched'
    BY <1>0, <1>2, <1>7, <2>1 DEF EntriesWatched
  <2>4. OutSessionKept'
    BY <1>0, <1>2, <1>7, <2>1 DEF OutSessionKept
  <2> QED BY <2>2, <2>3, <2>4
<1>11. ServiceDown' /\ CallInProgress' /\ UsedType'
  BY <1>0, <1>2 DEF ServiceDown, CallInProgress, UsedType
<1>12. EndsAgree'
  <2>1. \A q \in Pid : cl'[q].conn \in Fd => cl'[q].conn \in sessions' /\ open'[cl'[q].conn] = q
    BY <1>0, <1>1, <1>3, <1>5, <1>6, <1>7 DEF EndsAgree
  <2>2. \A g \in sessions : open[g] \in Pid /\ open'[g] = open[g]
    BY <1>0, <1>6, <1>7 DEF ServerType, Opened
  <2>3. \A g \in sessions' : cl'[open'[g]].alive => cl'[open'[g]].conn = g
    BY <1>0, <1>1, <1>2, <1>3, <1>5, <1>6, <2>2 DEF EndsAgree
  <2> QED BY <2>1, <2>3 DEF EndsAgree
<1>13. DeathsReported'
  <2>1. \A g \in sessions : open'[g] = open[g]
    BY <1>6, <1>7
  <2>2. \A q \in Pid : q # p => open'[f] # q
    BY <1>6
  <2> QED BY <1>0, <1>1, <1>2, <1>3, <1>5, <2>1, <2>2 DEF DeathsReported
<1>14. RegisteredConnected' /\ RegisteredListens'
  <2>1. ~cl'[p].registered
    BY <1>0, <1>2, <1>3, <1>5 DEF RegisteredConnected
  <2>2. \A q \in Pid : cl'[q].registered => cl'[q] = cl[q] /\ cl[q].conn # f
    <3> SUFFICES ASSUME NEW q \in Pid, cl'[q].registered PROVE cl'[q] = cl[q] /\ cl[q].conn # f
      OBVIOUS
    <3>1. q # p /\ cl'[q] = cl[q]
      BY <1>5, <2>1
    <3> QED BY <1>0, <1>7, <3>1 DEF EndsAgree
  <2> QED BY <1>0, <1>1, <1>2, <2>2 DEF RegisteredConnected, RegisteredListens
<1> QED BY <1>5, <1>9, <1>10, <1>11, <1>12, <1>13, <1>14 DEF IInv, ServerInv, LinkInv

\* The session of a process that died is released.
LEMMA ReleaseKeeps ==
  ASSUME IInv, NEW f \in sessions, ~cl[open[f]].alive, Release(f),
         died' = died \/ died' = died \ {open[f]}, used' = used
  PROVE  IInv'
<1>0. /\ ServerType /\ NotifiedOnce /\ EntriesWatched /\ OutSessionKept /\ ServiceDown /\ EndsAgree
      /\ DeathsReported /\ CallInProgress /\ RegisteredConnected /\ RegisteredListens
      /\ cl \in [Pid -> Process] /\ UsedType
  BY LinkNow
<1> DEFINE p == open[f]
<1>1. sessions \subseteq Opened /\ Opened \subseteq Fd /\ f \in Fd /\ p \in Pid
  BY <1>0 DEF ServerType, Opened
<1>2. /\ up' = up /\ out' = out /\ drag' = drag /\ adding' = adding
      /\ sessions' = sessions \ {f} /\ callbacks' = callbacks \ {p}
      /\ open' = Remaining(sessions', infos', out', adding') /\ cl' = HearEof(cl, open')
  BY DEF Release, NotifySessionDeleted
<1>3. /\ infos' \in [state : SUBSET Opened, style : SUBSET Opened] /\ infos'.state \subseteq infos.state
      /\ \A g \in infos.state : open[g] # p => g \in infos'.state
      /\ p \in callbacks => \A g \in infos'.state : open[g] # p
  <2>1. infos \in [state : SUBSET Opened, style : SUBSET Opened]
    BY <1>0 DEF ServerType
  <2>2. infos' = IF p \in callbacks THEN [infos EXCEPT !.state = {g \in infos.state : open[g] # p}] ELSE infos
    BY DEF Release, NotifySessionDeleted, RemoveNotifyMsg
  <2> HIDE DEF p
  <2> QED BY <2>1, <2>2
<1>4. Carried
  BY <1>0, <1>2, RemainingCarried
<1>5. \A q \in Pid : cl[q].conn \in Fd => cl[q].conn \in sessions' /\ open'[cl[q].conn] = q
  <2> SUFFICES ASSUME NEW q \in Pid, cl[q].conn \in Fd
               PROVE  cl[q].conn \in sessions' /\ open'[cl[q].conn] = q
    OBVIOUS
  <2>1. cl[q].conn \in sessions /\ open[cl[q].conn] = q
    BY <1>0 DEF EndsAgree
  <2>2. q # p
    <3>1. cl[q].conn # NoFd
      BY DEF Fd, NoFd
    <3> QED BY <1>0, <3>1 DEF DeathsReported
  <2> QED BY <1>2, <1>4, <2>1, <2>2 DEF Carried
<1>6. cl' = cl
  <2>1. \A q \in Pid : cl[q].conn \in Fd => open'[cl[q].conn] # NoPid
    BY <1>5, ProcessAssumption
  <2>2. HearEof(cl, open') = cl
    BY <1>0, <2>1, NothingHeard
  <2> QED BY <1>2, <2>2
<1>7. /\ \A g \in sessions' \union infos'.state : open'[g] = open[g]
      /\ out # NoFd => open'[out] = open[out] /\ out \in Opened
      /\ adding # NoCall => open'[adding.fd] = open[adding.fd] /\ adding.fd \in Opened /\ adding.pid \in Pid
  BY <1>0, <1>1, <1>2, <1>3, <1>4 DEF Carried, ServerType, AddingType
<1>8. \A g \in sessions : open[g] = p => g = f
  BY <1>0 DEF NotifiedOnce
<1>9. ServerType'
  <2>1. sessions' \subseteq Opened' /\ out' \in {NoFd} \union Opened'
    BY <1>0, <1>1, <1>2, <1>7 DEF Opened, ServerType
  <2>2. infos' \in [state : SUBSET Opened', style : SUBSET Opened']
    <3>1. infos'.state \subseteq Opened' /\ infos'.style \subseteq Opened'
      BY <1>1, <1>3, <1>4 DEF Opened, Carried
    <3> QED BY <1>3, <3>1
  <2>3. adding' = NoCall \/ adding' \in AddingType'
    BY <1>0, <1>1, <1>2, <1>7 DEF ServerType, AddingType, Opened
  <2>4. died' \subseteq Pid /\ callbacks' \subseteq Pid
    BY <1>0, <1>2 DEF ServerType
  <2> QED BY <1>0, <1>2, <1>4, <2>1, <2>2, <2>3, <2>4 DEF ServerType, Carried
<1>10. NotifiedOnce'
  <2> HIDE DEF p
  <2>1. \A g, h \in sessions' : open'[g] = open'[h] => g = h
    BY <1>0, <1>2, <1>7 DEF NotifiedOnce
  <2>2. \A g, h \in infos'.state : open'[g] = open'[h] => g = h
    BY <1>0, <1>3, <1>7 DEF NotifiedOnce
  <2> QED BY <2>1, <2>2 DEF NotifiedOnce
<1>11. EntriesWatched'
  <2> SUFFICES ASSUME NEW g \in infos'.state
               PROVE  open[g] \in callbacks \ {p} \/ (adding.at = "noted" /\ open[g] = adding.pid)
    BY <1>2, <1>7 DEF EntriesWatched
  <2>1. open[g] \in callbacks \/ (adding.at = "noted" /\ open[g] = adding.pid)
    BY <1>0, <1>3 DEF EntriesWatched
  <2> HIDE DEF p
  <2> QED BY <1>3, <2>1
<1>12. OutSessionKept' /\ ServiceDown' /\ UsedType'
  <2>1. OutSessionKept'
    BY <1>0, <1>2, <1>7 DEF OutSessionKept
  <2>2. ServiceDown'
    BY <1>0, <1>2 DEF ServiceDown
  <2>3. UsedType'
    BY <1>0 DEF UsedType
  <2> QED BY <2>1, <2>2, <2>3
<1>13. EndsAgree'
  <2>1. \A g \in sessions' : open'[g] = open[g] /\ g \in sessions
    BY <1>2, <1>7
  <2> QED BY <1>0, <1>5, <1>6, <2>1 DEF EndsAgree
<1>14. DeathsReported'
  <2>1. \A g \in sessions' : open'[g] = open[g] /\ g \in sessions /\ open[g] # p
    BY <1>2, <1>7, <1>8
  <2> HIDE DEF p
  <2>2. died' = died \/ died' = died \ {p}
    BY DEF p
  <2>3. \A q \in Pid : ~cl[q].alive /\ q \notin died' => \A g \in sessions' : open[g] # q
    BY <1>0, <2>1, <2>2 DEF DeathsReported
  <2>4. \A q \in Pid : /\ q \in died' => ~cl[q].alive
                       /\ ~cl[q].alive => ~cl[q].registered /\ cl[q].conn = NoFd
    BY <1>0, <2>2 DEF DeathsReported
  <2> QED BY <1>6, <2>1, <2>3, <2>4 DEF DeathsReported
<1>15. CallInProgress'
  <2> SUFFICES ASSUME adding # NoCall
               PROVE  /\ open[adding.fd] = adding.pid
                      /\ adding.lis = {} <=> ~cl[adding.pid].alive
                      /\ cl[adding.pid].alive => adding.fd \in sessions'
                      /\ adding.at = "noted" /\ adding.fd \in sessions' => adding.fd \in infos'.state
    BY <1>2, <1>6, <1>7 DEF CallInProgress
  <2>1. /\ open[adding.fd] = adding.pid
        /\ adding.lis = {} <=> ~cl[adding.pid].alive
        /\ cl[adding.pid].alive => adding.fd \in sessions
        /\ adding.at = "noted" /\ adding.fd \in sessions => adding.fd \in infos.state
    BY <1>0 DEF CallInProgress
  <2>2. cl[adding.pid].alive => adding.fd \in sessions'
    BY <1>2, <2>1
  <2>3. adding.at = "noted" /\ adding.fd \in sessions' => adding.fd \in infos'.state
    BY <1>2, <1>3, <1>8, <2>1
  <2> QED BY <2>1, <2>2, <2>3
<1>16. RegisteredConnected' /\ RegisteredListens'
  <2>1. \A q \in Pid : cl[q].registered => q # p
    BY <1>0 DEF DeathsReported
  <2>2. \A q \in Pid : cl[q].registered /\ cl[q].conn \in sessions' => cl[q].conn \in infos'.state
    <3> SUFFICES ASSUME NEW q \in Pid, cl[q].registered, cl[q].conn \in sessions' PROVE cl[q].conn \in infos'.state
      OBVIOUS
    <3>1. cl[q].conn \in sessions /\ cl[q].conn \in infos.state
      BY <1>0, <1>2 DEF RegisteredListens
    <3>2. open[cl[q].conn] = q
      BY <1>0, <1>1, <3>1 DEF EndsAgree
    <3> QED BY <1>3, <2>1, <3>1, <3>2
  <2> QED BY <1>0, <1>6, <2>2 DEF RegisteredConnected, RegisteredListens
<1> QED BY <1>0, <1>6, <1>9, <1>10, <1>11, <1>12, <1>13, <1>14, <1>15, <1>16 DEF IInv, ServerInv, LinkInv

LEMMA OnEpollInKeeps ==
  ASSUME IInv, NEW f \in Fd, OnEpollIn(f) PROVE IInv'
<1>1. f \in sessions /\ cl[open[f]].conn # f /\ Release(f) /\ died' = died /\ used' = used
  BY DEF OnEpollIn
<1>2. ~cl[open[f]].alive
  BY <1>1, LinkNow DEF EndsAgree
<1> QED BY <1>1, <1>2, ReleaseKeeps

LEMMA OnProcessDiedKeeps ==
  ASSUME IInv, NEW p \in Pid, OnProcessDied(p) PROVE IInv'
<1>0. /\ ServerType /\ NotifiedOnce /\ EntriesWatched /\ OutSessionKept /\ ServiceDown /\ EndsAgree
      /\ DeathsReported /\ CallInProgress /\ RegisteredConnected /\ RegisteredListens
      /\ cl \in [Pid -> Process] /\ UsedType
  BY LinkNow
<1>1. p \in died /\ died' = died \ {p} /\ used' = used /\ ~cl[p].alive
  BY <1>0 DEF OnProcessDied, DeathsReported
<1>2. CASE up /\ FindSessionByPid(p) # {}
  <2>1. PICK f \in FindSessionByPid(p) : Release(f)
    BY <1>2 DEF OnProcessDied
  <2>2. f \in sessions /\ open[f] = p
    BY DEF FindSessionByPid
  <2> QED BY <1>1, <2>1, <2>2, ReleaseKeeps
<1>3. CASE ~(up /\ FindSessionByPid(p) # {})
  <2>1. UNCHANGED <<up, open, sessions, callbacks, infos, out, drag, adding, cl>>
    BY <1>3 DEF OnProcessDied
  <2>2. \A f \in sessions : open[f] # p
    BY <1>0, <1>3 DEF ServiceDown, FindSessionByPid
  <2>3. ServerType' /\ NotifiedOnce' /\ EntriesWatched' /\ OutSessionKept'
    BY <1>0, <1>1, <2>1 DEF ServerType, AddingType, Opened, NotifiedOnce, EntriesWatched, OutSessionKept
  <2>4. DeathsReported'
    BY <1>0, <1>1, <2>1, <2>2 DEF DeathsReported
  <2>5. /\ ServiceDown' /\ EndsAgree' /\ CallInProgress' /\ RegisteredConnected' /\ RegisteredListens'
        /\ UsedType'
    BY <1>0, <1>1, <2>1 DEF ServiceDown, EndsAgree, CallInProgress, RegisteredConnected,
                            RegisteredListens, UsedType
  <2> QED BY <1>0, <2>1, <2>3, <2>4, <2>5 DEF IInv, ServerInv, LinkInv
<1> QED BY <1>2, <1>3

-----------------------------------------------------------------------------
(* The service dies and is loaded again *)

LEMMA ServiceLoadsKeeps == ASSUME IInv, ServiceLoads PROVE IInv'
<1>0. /\ ServerType /\ NotifiedOnce /\ EntriesWatched /\ OutSessionKept /\ ServiceDown /\ EndsAgree
      /\ DeathsReported /\ CallInProgress /\ RegisteredConnected /\ RegisteredListens
      /\ cl \in [Pid -> Process] /\ UsedType
  BY LinkNow
<1>1. up' = TRUE /\ UNCHANGED <<open, sessions, callbacks, infos, out, drag, adding, died, cl, used>>
  BY DEF ServiceLoads
<1>2. ServerType' /\ NotifiedOnce' /\ EntriesWatched' /\ OutSessionKept'
  BY <1>0, <1>1 DEF ServerType, AddingType, Opened, NotifiedOnce, EntriesWatched, OutSessionKept
<1>3. /\ ServiceDown' /\ EndsAgree' /\ DeathsReported' /\ CallInProgress'
      /\ RegisteredConnected' /\ RegisteredListens' /\ UsedType'
  BY <1>0, <1>1 DEF ServiceDown, EndsAgree, DeathsReported, CallInProgress, RegisteredConnected,
                    RegisteredListens, UsedType
<1> QED BY <1>0, <1>1, <1>2, <1>3 DEF IInv, ServerInv, LinkInv

LEMMA ServiceDiesKeeps == ASSUME IInv, ServiceDies PROVE IInv'
<1>0. /\ ServerType /\ ServiceDown /\ EndsAgree /\ DeathsReported /\ RegisteredConnected
      /\ cl \in [Pid -> Process] /\ UsedType
  BY LinkNow
<1>1. /\ up' = FALSE /\ open' = [f \in Fd |-> NoPid] /\ sessions' = {} /\ callbacks' = {}
      /\ infos' = [state |-> {}, style |-> {}] /\ out' = NoFd /\ drag' = NoDrag /\ adding' = NoCall
      /\ died' = died
  BY DEF ServiceDies
<1>2. Eof \notin Fd /\ Eof # NoFd /\ NoFd \notin Fd
  BY BoundAssumption DEF Eof, Fd, NoFd
<1> DEFINE failed(p) == IF adding.pid = p /\ adding.again THEN adding.lis ELSE {}
           after(p) == [cl[p] EXCEPT !.conn = IF @ \in Fd THEN Eof ELSE @,
                                     !.connected = @ \ failed(p),
                                     !.gone = @ \union failed(p)]
<1>3. cl' = [p \in Pid |-> after(p)]
  BY DEF ServiceDies
<1>4. ASSUME NEW p \in Pid
      PROVE  /\ after(p) \in Process
             /\ after(p).alive = cl[p].alive /\ after(p).registered = cl[p].registered
             /\ after(p).conn = IF cl[p].conn \in Fd THEN Eof ELSE cl[p].conn
  <2>1. failed(p) \subseteq Listener
    BY <1>0 DEF ServerType, AddingType, NoCall
  <2> HIDE DEF failed
  <2>2. cl[p] \in Process
    BY <1>0
  <2>3. cl[p].connected \ failed(p) \subseteq Listener /\ cl[p].gone \union failed(p) \subseteq Listener
    BY <2>1, <2>2 DEF Process
  <2>4. (IF cl[p].conn \in Fd THEN Eof ELSE cl[p].conn) \in Fd \union {NoFd, Eof}
    BY <2>2 DEF Process
  <2> DEFINE c == IF cl[p].conn \in Fd THEN Eof ELSE cl[p].conn
             d == cl[p].connected \ failed(p)
             g == cl[p].gone \union failed(p)
             r == [cl[p] EXCEPT !.conn = c, !.connected = d, !.gone = g]
  <2>5. after(p) = r
    OBVIOUS
  <2>6. c \in Fd \union {NoFd, Eof} /\ d \in SUBSET Listener /\ g \in SUBSET Listener
    BY <2>3, <2>4
  <2> HIDE DEF c, d, g
  <2>7. r \in Process /\ r.alive = cl[p].alive /\ r.registered = cl[p].registered /\ r.conn = c
    BY <2>2, <2>6 DEF Process
  <2> QED BY <2>5, <2>7 DEF c
<1> HIDE DEF failed, after
<1>5. /\ cl' \in [Pid -> Process]
      /\ \A p \in Pid : /\ cl'[p].alive = cl[p].alive /\ cl'[p].registered = cl[p].registered
                        /\ cl'[p].conn = IF cl[p].conn \in Fd THEN Eof ELSE cl[p].conn
  BY <1>3, <1>4
<1>6. \A p \in Pid : cl'[p].conn \notin Fd
  BY <1>2, <1>5
<1>7. ServerType'
  BY <1>0, <1>1 DEF ServerType
<1>8. NotifiedOnce' /\ EntriesWatched' /\ OutSessionKept'
  BY <1>1 DEF NotifiedOnce, EntriesWatched, OutSessionKept
<1>9. ServiceDown' /\ EndsAgree' /\ CallInProgress' /\ RegisteredListens'
  BY <1>1, <1>6 DEF ServiceDown, EndsAgree, CallInProgress, RegisteredListens
<1>10. DeathsReported'
  BY <1>0, <1>1, <1>2, <1>5 DEF DeathsReported
<1>11. RegisteredConnected'
  BY <1>0, <1>2, <1>5 DEF RegisteredConnected
<1>12. UsedType'
  <2>1. used.crashes < MaxCrashes /\ used' = [used EXCEPT !.crashes = @ + 1]
    BY DEF ServiceDies
  <2> QED BY <1>0, <2>1, BoundAssumption DEF UsedType
<1> QED BY <1>5, <1>7, <1>8, <1>9, <1>10, <1>11, <1>12 DEF IInv, ServerInv, LinkInv

-----------------------------------------------------------------------------
(* Entries whose session has ended *)

\* What a step may do to the state listeners and the sessions
LEMMA EntriesNext ==
  ASSUME IInv, Next
  PROVE  \/ infos'.state \subseteq infos.state /\ sessions \subseteq sessions'
         \/ infos'.state = {}
         \/ AddListenerNotes
         \/ \E g \in sessions : /\ Release(g)
                                /\ adding = NoCall \/ ~cl[open[g]].alive
<1>0. /\ infos \in [state : SUBSET Opened, style : SUBSET Opened]
      /\ \A p \in Pid : p \in died => ~cl[p].alive
  BY DEF IInv, ServerInv, ServerType, LinkInv, DeathsReported
<1>1. CASE \E f \in Fd : OnEpollIn(f)
  BY <1>1 DEF OnEpollIn, ServiceFree
<1>2. CASE AddListenerWatches \/ StartRemoteDrag \/ StopDrag \/ ServiceLoads
  BY <1>2 DEF AddListenerWatches, StartRemoteDrag, StopDrag, ServiceLoads
<1>3. CASE ServiceDies
  BY <1>3 DEF ServiceDies
<1>4. CASE \E p \in Pid : OnProcessDied(p)
  BY <1>0, <1>4 DEF OnProcessDied, FindSessionByPid
<1>5. CASE \E p \in Pid : Reconnect(p)
  BY <1>5 DEF Reconnect
<1>6. CASE \E p \in Pid, l \in Listener : AppAdds(p, l) \/ AppRemoves(p, l)
  BY <1>0, <1>6 DEF AppAdds, AddDraglistener, AppRemoves, RemoveNotifyMsg
<1>7. CASE \E p \in Pid : AppSubscribesStyle(p) \/ AppUnsubscribesStyle(p)
  BY <1>0, <1>7 DEF AppSubscribesStyle, AppUnsubscribesStyle
<1>8. CASE \E p \in Pid : StartDragCalls(p) \/ StartDragReaches(p)
  BY <1>8 DEF StartDragCalls, StartDragReaches, serverVars
<1>9. CASE \E p \in Pid : OnPacket(p) \/ OnDisconnected(p) \/ OnConnected(p)
  BY <1>9 DEF OnPacket, OnDisconnected, OnConnected, AddDraglistener, serverVars
<1>10. CASE \E p \in Pid : ProcessDies(p) \/ ProcessStarts(p)
  BY <1>10 DEF ProcessDies, ProcessStarts, serverVars
<1> QED BY <1>1, <1>2, <1>3, <1>4, <1>5, <1>6, <1>7, <1>8, <1>9, <1>10 DEF Next

LEMMA EntryLeavesNext ==
  IInv /\ [Next]_vars =>
    [\A f \in infos'.state \ sessions' :
        \/ f \in infos.state \ sessions
        \/ open[f] = adding.pid /\ ~cl[adding.pid].alive]_vars
<1> SUFFICES ASSUME IInv, Next, NEW f \in infos'.state \ sessions', f \notin infos.state \ sessions
             PROVE  open[f] = adding.pid /\ ~cl[adding.pid].alive
  OBVIOUS
<1>0. infos \in [state : SUBSET Opened, style : SUBSET Opened] /\ EntriesWatched /\ CallInProgress
  BY DEF IInv, ServerInv, ServerType, LinkInv
<1>1. CASE AddListenerNotes
  <2>1. sessions' = sessions /\ f \in infos.state \union {adding.fd} /\ adding # NoCall
    BY <1>0, <1>1 DEF AddListenerNotes, AddNotifyMsg, RemoveNotifyMsg, NoCall
  <2> QED BY <1>0, <2>1 DEF CallInProgress
<1>2. ASSUME NEW g \in sessions, Release(g), adding = NoCall \/ ~cl[open[g]].alive
      PROVE  open[f] = adding.pid /\ ~cl[adding.pid].alive
  <2>1. infos'.state \subseteq infos.state /\ sessions' = sessions \ {g}
    BY <1>0, <1>2 DEF Release, NotifySessionDeleted, RemoveNotifyMsg
  <2>2. f = g /\ f \in infos.state
    BY <2>1
  <2>3. open[g] \notin callbacks
    BY <1>0, <1>2, <2>2 DEF Release, NotifySessionDeleted, RemoveNotifyMsg
  <2>4. adding.at = "noted" /\ open[g] = adding.pid
    BY <1>0, <2>2, <2>3 DEF EntriesWatched
  <2> QED BY <1>2, <2>2, <2>4 DEF NoCall
<1> QED BY <1>1, <1>2, EntriesNext

-----------------------------------------------------------------------------
(* The inductive invariant *)

LEMMA InitIInv == Init => IInv
<1> SUFFICES ASSUME Init PROVE IInv
  OBVIOUS
<1>1. cl \in [Pid -> Process] /\ \A p \in Pid : cl[p].alive /\ cl[p].conn = NoFd /\ ~cl[p].registered
  BY NewProcessType DEF Init
<1>2. NoFd \notin Fd
  BY DEF NoFd, Fd
<1>3. ServerType /\ UsedType
  BY BoundAssumption DEF Init, ServerType, UsedType
<1>4. NotifiedOnce /\ EntriesWatched /\ OutSessionKept /\ ServiceDown /\ CallInProgress
  BY DEF Init, NotifiedOnce, EntriesWatched, OutSessionKept, ServiceDown, CallInProgress
<1>5. sessions = {} /\ died = {}
  BY DEF Init
<1>6. EndsAgree /\ DeathsReported /\ RegisteredConnected /\ RegisteredListens
  BY <1>1, <1>2, <1>5 DEF EndsAgree, DeathsReported, RegisteredConnected, RegisteredListens
<1> QED BY <1>1, <1>3, <1>4, <1>6 DEF IInv, ServerInv, LinkInv

LEMMA NextIInv == IInv /\ [Next]_vars => IInv'
<1> SUFFICES ASSUME IInv, [Next]_vars PROVE IInv'
  OBVIOUS
<1>1. CASE UNCHANGED vars
  <2>1. SameView(cl, cl') /\ UNCHANGED serverVars /\ UsedType'
    BY <1>1, LinkNow, SameViewSelf DEF vars, UsedType
  <2> QED BY <2>1, ViewStep
<1>2. CASE \E f \in Fd : OnEpollIn(f)
  BY <1>2, OnEpollInKeeps
<1>3. CASE AddListenerNotes \/ AddListenerWatches
  BY <1>3, AddListenerNotesKeeps, AddListenerWatchesKeeps
<1>4. CASE StartRemoteDrag \/ StopDrag
  BY <1>4, StartRemoteDragKeeps, StopDragKeeps
<1>5. CASE ServiceDies \/ ServiceLoads
  BY <1>5, ServiceDiesKeeps, ServiceLoadsKeeps
<1>6. ASSUME NEW p \in Pid, OnProcessDied(p) \/ Reconnect(p) PROVE IInv'
  BY <1>6, OnProcessDiedKeeps, ReconnectKeeps
<1>7. ASSUME NEW p \in Pid, NEW l \in Listener, AppAdds(p, l) \/ AppRemoves(p, l) PROVE IInv'
  BY <1>7, AppAddsKeeps, AppRemovesKeeps
<1>8. ASSUME NEW p \in Pid, AppSubscribesStyle(p) \/ AppUnsubscribesStyle(p) PROVE IInv'
  BY <1>8, StyleKeeps
<1>9. ASSUME NEW p \in Pid, StartDragCalls(p) \/ StartDragReaches(p) PROVE IInv'
  BY <1>9, StartDragCallsKeeps, StartDragReachesKeeps
<1>10. ASSUME NEW p \in Pid, OnPacket(p) \/ OnDisconnected(p) \/ OnConnected(p) PROVE IInv'
  BY <1>10, OnPacketKeeps, OnDisconnectedKeeps, OnConnectedKeeps
<1>11. ASSUME NEW p \in Pid, ProcessDies(p) \/ ProcessStarts(p) PROVE IInv'
  BY <1>11, ProcessDiesKeeps, ProcessStartsKeeps
<1> QED BY <1>1, <1>2, <1>3, <1>4, <1>5, <1>6, <1>7, <1>8, <1>9, <1>10, <1>11 DEF Next

\* The inductive invariant holds in every reachable state: the tables of the service
\* and the beliefs of the processes agree through every interleaving of
\* SocketSessionManager, DragManager and DragClient, and every death of either side.
THEOREM Invariance == Spec => []IInv
<1> QED BY InitIInv, NextIInv, PTL DEF Spec

\* The sessions, entries and the drag's session are always open SocketSession
\* objects (the references that sessions_, msgInfos_ and dragOutSession_ hold).
THEOREM TypeCorrect == Spec => []TypeOK
<1> QED BY Invariance, IInvType, PTL

\* An entry of DragManager's stateNotify_ goes with its session, unless its process
\* died, and its death was reported, while AddListener was at work for it.
THEOREM EntryLeavesWithSessionHolds == Spec => EntryLeavesWithSession
<1>1. IInv /\ [Next]_vars =>
        [\A f \in infos'.state \ sessions' :
            \/ f \in infos.state \ sessions
            \/ open[f] = adding.pid /\ ~cl[adding.pid].alive]_vars
  BY EntryLeavesNext
<1> QED BY <1>1, Invariance, PTL DEF Spec, EntryLeavesWithSession

\* AllocSocketFd and AddNotifyMsg keep one session and one state listener per
\* process, also when the id of a dead process is used again.
THEOREM NotifiedOnceHolds == Spec => []NotifiedOnce
<1>1. IInv => NotifiedOnce
  BY DEF IInv, ServerInv
<1> QED BY <1>1, Invariance, PTL

\* A process with hasRegistered_ whose session the service holds is among the
\* listeners of DragManager on that session, across reconnections and restarts.
THEOREM RegisteredListensHolds == Spec => []RegisteredListens
<1>1. IInv => RegisteredListens
  BY DEF IInv, LinkInv
<1> QED BY <1>1, Invariance, PTL

\* dragOutSession_ is a session of the process whose drag is running, whatever
\* calls of StartDrag are refused meanwhile.
THEOREM OutSessionKeptHolds == Spec => []OutSessionKept
<1>1. IInv => OutSessionKept
  BY DEF IInv, ServerInv
<1> QED BY <1>1, Invariance, PTL

=============================================================================
