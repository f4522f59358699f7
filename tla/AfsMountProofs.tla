--------------------------- MODULE AfsMountProofs ---------------------------
(***************************************************************************)
(* Theorems about the mounts and their server together, for any number of  *)
(* mounts, threads, channels and workers.  The invariants of the two parts *)
(* are those of AfsClientProofs and AfsServerProofs; Lines and Outcomes    *)
(* are what the composition adds.                                          *)
(***************************************************************************)
EXTENDS AfsMount, TLAPS

CP == INSTANCE AfsClientProofs
SP == INSTANCE AfsServerProofs WITH Calls <- Channels

-----------------------------------------------------------------------------
(* The two instances of the client are the same module, and so are the two  *)
(* instances of the server: the lemmas about one speak of the other.        *)
LEMMA SameClient ==
  ASSUME NEW t \in Threads
  PROVE  /\ \A o \in C!Ops : C!Request(t, o) => o \in CP!Ops /\ CP!Request(t, o)
         /\ C!Step(t) => CP!Step(t)
BY DEF C!Ops, CP!Ops, C!Split, CP!Split, C!Outcomes, CP!Outcomes,
       C!Request, CP!Request, C!Step, CP!Step, C!Goto, CP!Goto, C!Return, CP!Return,
       C!Disposes, CP!Disposes, C!GetConnection, CP!GetConnection, C!NewCall, CP!NewCall,
       C!Filler, CP!Filler, C!Throw, CP!Throw, C!RelConnection, CP!RelConnection,
       C!Transfer, CP!Transfer, C!Stub, CP!Stub, C!Start, CP!Start,
       C!XdrLength, CP!XdrLength, C!EndCall, CP!EndCall

ClientInv == C!TypeOK /\ C!MutualExclusion /\ C!ChannelsAccounted

LEMMA SameClientInv == ClientInv <=> CP!Inv
BY DEF ClientInv, CP!Inv, C!TypeOK, CP!TypeOK, C!MutualExclusion, CP!MutualExclusion,
       C!ChannelsAccounted, CP!ChannelsAccounted, C!Labels, CP!Labels, C!Holding,
       CP!Holding, C!InCall, CP!InCall, C!Ops, CP!Ops, C!Split, CP!Split,
       C!Results, CP!Results

LEMMA SameServerState ==
  /\ S!Fds = SP!Fds /\ S!Amounts = SP!Amounts /\ S!Ops = SP!Ops
  /\ S!Requests = SP!Requests /\ S!NoCall = SP!NoCall /\ S!InUse = SP!InUse
  /\ S!FreeFds = SP!FreeFds
  /\ \A n :
       /\ S!IsDir(n) <=> SP!IsDir(n)
       /\ S!IsLink(n) <=> SP!IsLink(n)
       /\ S!Target(n) = SP!Target(n)
       /\ S!FileAt(n) = SP!FileAt(n)
       /\ S!CanOpen(n) <=> SP!CanOpen(n)
  /\ \A k, ops : S!Serves(k, ops) <=> SP!Serves(k, ops)
  /\ \A k, r : S!Reply(k, r) <=> SP!Reply(k, r)
<1>1. /\ S!Fds = SP!Fds /\ S!Amounts = SP!Amounts /\ S!FileData = SP!FileData
      /\ S!Ops = SP!Ops /\ S!Requests = SP!Requests /\ S!NoCall = SP!NoCall
  BY DEF S!Fds, SP!Fds, S!Amounts, SP!Amounts, S!FileData, SP!FileData, S!Ops, SP!Ops,
         S!OnePath, SP!OnePath, S!TwoPaths, SP!TwoPaths, S!Requests, SP!Requests,
         S!NoCall, SP!NoCall
<1>2. S!InUse = SP!InUse /\ S!FreeFds = SP!FreeFds
  BY <1>1 DEF S!InUse, SP!InUse, S!FreeFds, SP!FreeFds
<1>3. S!Alive <=> SP!Alive
  BY <1>1 DEF S!Alive, SP!Alive
<1>4. \A n : (S!IsDir(n) <=> SP!IsDir(n)) /\ (S!IsLink(n) <=> SP!IsLink(n))
  BY DEF S!IsDir, SP!IsDir, S!IsLink, SP!IsLink
<1>5. \A n : S!Target(n) = SP!Target(n)
  BY <1>4 DEF S!Target, SP!Target
<1>6. \A n : S!FileAt(n) = SP!FileAt(n)
  BY <1>1, <1>5 DEF S!FileAt, SP!FileAt
<1>7. \A n : S!CanOpen(n) <=> SP!CanOpen(n)
  BY <1>2, <1>6 DEF S!CanOpen, SP!CanOpen
<1>8. ASSUME NEW k, NEW ops PROVE S!Serves(k, ops) <=> SP!Serves(k, ops)
  <2>1. \A X : S!Cardinality(X) = SP!Cardinality(X)
    BY DEF S!Cardinality, SP!Cardinality
  <2> QED BY <1>3, <2>1 DEF S!Serves, SP!Serves, S!Midway, SP!Midway
<1>9. ASSUME NEW k, NEW r PROVE S!Reply(k, r) <=> SP!Reply(k, r)
  BY <1>1 DEF S!Reply, SP!Reply
<1> QED BY <1>1, <1>2, <1>4, <1>5, <1>6, <1>7, <1>8, <1>9

LEMMA SameServer ==
  ASSUME NEW c \in Channels
  PROVE  /\ S!Handle(c) => SP!Handle(c)
         /\ \A q \in Asked : S!Arrive(c, q) => SP!Network(c)
         /\ \A n \in S!Amounts : S!DataIn(c, n) => SP!Network(c)
         /\ S!Finish(c) => SP!Network(c)
         /\ S!AwaitData(c) <=> SP!AwaitData(c)
         /\ \A r : SP!Reply(c, r) => S!Reply(c, r)
<1> USE SameServerState
<1>1. S!Fails(c) => SP!Fails(c)
  BY DEF S!Fails, SP!Fails
<1>2. S!Look(c) => SP!Look(c)
  BY DEF S!Look, SP!Look, S!GetAttr, SP!GetAttr, S!GetDir, SP!GetDir, S!SetAttr, SP!SetAttr,
         S!ReadLink, SP!ReadLink, S!Sync, SP!Sync
<1>3. S!Open(c) => SP!Open(c)
  BY DEF S!Open, SP!Open
<1>4. S!Release(c) => SP!Release(c)
  BY DEF S!Release, SP!Release
<1>5. (S!Read(c) => SP!Read(c)) /\ (S!AwaitData(c) <=> SP!AwaitData(c))
  BY DEF S!Read, SP!Read, S!AwaitData, SP!AwaitData
<1>6. S!WriteFails(c) => SP!WriteFails(c)
  BY DEF S!WriteFails, SP!WriteFails
<1>7. ASSUME NEW w PROVE S!Write(c, w) => SP!Write(c, w)
  BY DEF S!Write, SP!Write
<1>8. ASSUME NEW n, NEW x PROVE S!Create(c, n, x) => SP!Create(c, n, x)
  BY DEF S!Create, SP!Create
<1>9. /\ S!Mknod(c) => SP!Mknod(c)
      /\ S!Mkdir(c) => SP!Mkdir(c)
      /\ S!Symlink(c) => SP!Symlink(c)
  BY <1>8 DEF S!Mknod, SP!Mknod, S!Mkdir, SP!Mkdir, S!Symlink, SP!Symlink
<1>10. S!Link(c) => SP!Link(c)
  BY DEF S!Link, SP!Link
<1>11. S!Remove(c) => SP!Remove(c)
  BY DEF S!Remove, SP!Remove
<1>12. S!Rename(c) => SP!Rename(c)
  BY DEF S!Rename, SP!Rename
<1>13. S!Truncate(c) => SP!Truncate(c)
  BY DEF S!Truncate, SP!Truncate
<1>14. S!Handle(c) => SP!Handle(c)
  BY <1>1, <1>2, <1>3, <1>4, <1>5, <1>6, <1>7, <1>9, <1>10, <1>11, <1>12, <1>13
     DEF S!Handle, SP!Handle
<1>15. /\ \A q \in Asked : S!Arrive(c, q) => SP!Network(c)
       /\ \A n \in S!Amounts : S!DataIn(c, n) => SP!Network(c)
       /\ S!Finish(c) => SP!Network(c)
  BY DEF SP!Network, S!Arrive, SP!Arrive, S!DataIn, SP!DataIn, S!Finish, SP!Finish
<1> QED BY <1>5, <1>14, <1>15

ServerInv == S!TypeOK /\ SP!Asking

LEMMA SameServerInv == ServerInv <=> SP!Inv
BY DEF ServerInv, SP!Inv, S!TypeOK, SP!TypeOK, S!Contents, SP!Contents, S!FileData,
       SP!FileData, S!Fds, SP!Fds, S!States, SP!States, S!Ops, SP!Ops, S!OnePath,
       SP!OnePath, S!TwoPaths, SP!TwoPaths, S!Amounts, SP!Amounts

-----------------------------------------------------------------------------
(* The lemmas about the parts, for the instances here. *)
LEMMA Constants ==
  /\ MountOf \in [Threads -> Mounts] /\ ConnOf \in [Channels -> Mounts]
  /\ Free \notin Threads /\ Lost \notin Threads /\ Free # Lost
  /\ SP!IsFiniteSet(Channels)
  /\ Asked \subseteq SP!Requests
BY MountAssumption, SameServerState DEF IsFiniteSet, SP!IsFiniteSet

LEMMA ClientKept ==
  ASSUME ClientInv, NEW t \in Threads, C!Step(t) \/ \E o \in C!Ops : C!Request(t, o)
  PROVE  ClientInv'
<1>1. [CP!Next]_(CP!vars)
  BY SameClient DEF CP!Next
<1>2. CP!Inv'
  BY <1>1, SameClientInv, CP!InvStep, MountAssumption
<1>3. CP!Inv' => ClientInv'
  BY SameClientInv, PTL
<1> QED BY <1>2, <1>3

LEMMA HandleKept ==
  ASSUME ServerInv, NEW c \in Channels, S!Handle(c)
  PROVE  /\ ServerInv'
         /\ \A d \in Channels : d # c => call'[d] = call[d]
         /\ \/ /\ S!AwaitData(c)
               /\ call[c].st = "sent" /\ call' = [call EXCEPT ![c].st = "receiving"]
            \/ /\ call[c].st \in {"sent", "received"}
               /\ call'[c].st = "done" /\ call'[c].res \in {"ok", "error"}
<1>1. SP!Inv /\ SP!Handle(c)
  BY SameServerInv, SameServer
<1>2. SP!CallKept(c)
  BY <1>1, SP!HandleCalls, Constants, MountAssumption
<1>3. SP!Inv'
  <2>1. [SP!Next]_(SP!serverVars)
    BY <1>1 DEF SP!Next
  <2> QED BY <1>1, <2>1, SP!InvStep, Constants, MountAssumption
<1>4. /\ call[c].st \in {"sent", "received"}
      /\ SP!AwaitData(c) \/ \E r \in {"ok", "error"} : SP!Reply(c, r)
  BY <1>1, SP!HandleReplies, Constants, MountAssumption
<1>5. ASSUME NEW r \in {"ok", "error"}, SP!Reply(c, r)
      PROVE  call'[c].st = "done" /\ call'[c].res = r
  BY <1>1, <1>5, SP!ReplyCalls, Constants, MountAssumption
<1>6. ASSUME SP!AwaitData(c)
      PROVE  call[c].st = "sent" /\ call' = [call EXCEPT ![c].st = "receiving"]
  BY <1>6 DEF SP!AwaitData, SP!Serves
<1>7. SP!Inv' => ServerInv'
  BY SameServerInv, PTL
<1>8. \A d \in Channels : d # c => call'[d] = call[d]
  BY <1>2 DEF SP!CallKept
<1>9. SP!AwaitData(c) => S!AwaitData(c)
  BY SameServer
<1> QED BY <1>3, <1>4, <1>5, <1>6, <1>7, <1>8, <1>9

LEMMA NetworkKept ==
  ASSUME ServerInv, NEW c \in Channels, SP!Network(c)
  PROVE  ServerInv' /\ \A d \in Channels : d # c => call'[d] = call[d]
<1>1. SP!Inv /\ [SP!Next]_(SP!serverVars)
  BY SameServerInv DEF SP!Next
<1>2. SP!CallKept(c)
  BY <1>1, SP!NetworkCalls, Constants, MountAssumption
<1>3. SP!Inv'
  BY <1>1, SP!InvStep, Constants, MountAssumption
<1>4. SP!Inv' => ServerInv'
  BY SameServerInv, PTL
<1> QED BY <1>2, <1>3, <1>4 DEF SP!CallKept

-----------------------------------------------------------------------------
Line == [req : Asked \cup {None}, live : BOOLEAN, full : BOOLEAN]

Typed ==
  /\ args \in [Threads -> Asked \cup {None}]
  /\ line \in [Channels -> Line]
  /\ served \in [Threads -> {"none", "ok", "error"}]

Active(c) == call[c].st \in {"sent", "receiving", "received"}

(* A line carries one call at a time, and a live one the call of the thread *)
(* that has the channel, with the answer that thread is to be given.        *)
Lines ==
  \A c \in Channels :
    /\ line[c].req # None => call[c].st = "idle"
    /\ line[c].live =>
         /\ chan[c] \in Threads
         /\ line[c].req \in {None, args[chan[c]]}
         /\ Active(c) => call[c].op = args[chan[c]].op
         /\ call[c].st = "done" => served[chan[c]] = call[c].res

(* A thread's request is carried out only on a channel the thread has. *)
Unserved(t) ==
  /\ pc[t] \in {"idle", "lock", "newcall"} => served[t] = "none"
  /\ \A c \in Channels :
       chan[c] = t /\ ~(line[c].live /\ call[c].st = "done") => served[t] = "none"

(* What a callback can tell of the answer from where it has got to. *)
Told(t) ==
  /\ pc[t] # "idle" => args[t] \in Asked
  /\ pc[t] = "filler" => served[t] = "ok"
  /\ pc[t] \in {"data", "end"} /\ op[t] \notin {"read", "write"} => served[t] = "ok"
  /\ pc[t] = "end" /\ op[t] = "read" => ret[t] = "zero"
  /\ pc[t] = "release" => ret[t] \in {"ok", "zero", "error"}
  /\ pc[t] = "release" /\ ret[t] = "ok" => served[t] = "ok"
  /\ pc[t] \notin {"idle", "release"} /\ ~(pc[t] = "end" /\ op[t] = "read") =>
       ret[t] = "none"

Inv ==
  /\ ClientInv /\ ServerInv /\ Typed /\ Lines
  /\ \A t \in Threads : Unserved(t) /\ Told(t)

-----------------------------------------------------------------------------
(* A step of thread t within its callback: what it may do to the others, to *)
(* the channels, to the lines and to its own place.                         *)
Alone(t) ==
  /\ \A u \in Threads : u # t => pc'[u] = pc[u] /\ op'[u] = op[u] /\ ret'[u] = ret[u]
  /\ \A c \in Channels :
       \/ chan'[c] = chan[c]
       \/ chan[c] = t /\ chan'[c] \notin Threads
       \/ chan[c] = Free /\ chan'[c] = t /\ pc[t] = "newcall"

Fills(t) ==
  line' = [c \in Channels |->
             IF chan[c] = t /\ line[c].live THEN [line[c] EXCEPT !.full = TRUE] ELSE line[c]]

OnLine(t) ==
  \/ HangUp
  \/ line' = line /\ \A c \in Channels : chan'[c] = chan[c] \/ chan[c] = Free
  \/ chan' = chan /\ (Issue(t) \/ Fills(t))

Advances(t) ==
  /\ Alone(t) /\ OnLine(t) /\ UNCHANGED <<serverVars, args, served>>
  /\ pc[t] # "idle" /\ pc'[t] \notin {"idle", "lock"}
  /\ pc[t] = "lock" <=> pc'[t] = "newcall"
  /\ pc[t] = "newcall" => \E c \in Channels : chan'[c] = t

LEMMA StepAlone ==
  ASSUME ClientInv, NEW t \in Threads, C!Step(t) \/ \E o \in C!Ops : C!Request(t, o)
  PROVE  Alone(t)
<1> USE Constants DEF ClientInv, C!TypeOK, Alone, C!Goto, C!Return
<1>1. CASE \E o \in C!Ops : C!Request(t, o)
  BY <1>1 DEF C!Request
<1>2. CASE C!GetConnection(t) \/ C!Filler(t) \/ C!RelConnection(t)
  BY <1>2 DEF C!GetConnection, C!Filler, C!RelConnection
<1>3. CASE C!NewCall(t)
  BY <1>3 DEF C!NewCall
<1>4. CASE \E r \in C!Outcomes : C!Throw(t, r)
  BY <1>4 DEF C!Throw, C!Disposes
<1>5. CASE \E n \in {"ok", "zero"} : C!Transfer(t, n)
  BY <1>5 DEF C!Transfer
<1>6. CASE \E r \in C!Outcomes : C!Stub(t, r) \/ C!EndCall(t, r)
  BY <1>6 DEF C!Stub, C!EndCall, C!Disposes
<1>7. CASE \E r \in C!Outcomes : C!Start(t, r) \/ C!XdrLength(t, r)
  BY <1>7 DEF C!Start, C!XdrLength
<1> QED BY <1>1, <1>2, <1>3, <1>4, <1>5, <1>6, <1>7 DEF C!Step

LEMMA Cuts ==
  ASSUME NEW l \in Line
  PROVE  /\ [l EXCEPT !.live = FALSE] \in Line /\ [l EXCEPT !.full = TRUE] \in Line
         /\ [l EXCEPT !.live = FALSE].req = l.req /\ ~[l EXCEPT !.live = FALSE].live
         /\ [l EXCEPT !.full = TRUE].req = l.req /\ [l EXCEPT !.full = TRUE].live = l.live
BY DEF Line

(* What Advances keeps of the invariant. *)
LEMMA AdvanceKeeps ==
  ASSUME Inv, NEW t \in Threads, Advances(t)
  PROVE  Typed' /\ Lines' /\ \A u \in Threads : Unserved(u)' /\ (u # t => Told(u)')
<1> USE Constants DEF Inv, ClientInv, Typed, Advances, Alone, serverVars
<1>0. args[t] \in Asked
  BY DEF Told
<1>1. Typed' /\ Lines'
  <2> DEFINE Cut(c) == [line[c] EXCEPT !.live = FALSE]
             Filled(c) == [line[c] EXCEPT !.full = TRUE]
  <2>0. ASSUME NEW c \in Channels
        PROVE  /\ line[c] \in Line /\ Cut(c) \in Line /\ Filled(c) \in Line
               /\ Cut(c).req = line[c].req /\ ~Cut(c).live
               /\ Filled(c).req = line[c].req /\ Filled(c).live = line[c].live
    BY Cuts DEF Line
  <2> HIDE DEF Cut, Filled
  <2>1. CASE HangUp
    <3>1. /\ Typed'
          /\ \A c \in Channels :
               /\ line'[c].req = line[c].req
               /\ line'[c].live => line[c].live /\ chan'[c] = chan[c]
      <4>1. line' = [c \in Channels |-> IF chan'[c] = chan[c] THEN line[c] ELSE Cut(c)]
        BY <2>1 DEF HangUp, Cut
      <4>2. line' \in [Channels -> Line]
        BY <2>0, <4>1
      <4> QED BY <2>0, <4>1, <4>2 DEF Line
    <3> QED BY <3>1 DEF Lines, Active
  <2>2. CASE line' = line /\ \A c \in Channels : chan'[c] = chan[c] \/ chan[c] = Free
    BY <2>2 DEF Lines, Active
  <2>3. CASE chan' = chan /\ Issue(t)
    <3>1. PICK c \in Channels :
            /\ chan[c] = t
            /\ line' = IF Quiet(c) /\ ~line[c].live
                       THEN [line EXCEPT ![c] = [req |-> args[t], live |-> TRUE, full |-> FALSE]]
                       ELSE line
      BY <2>3 DEF Issue
    <3>2. [req |-> args[t], live |-> TRUE, full |-> FALSE] \in Line
      BY <1>0 DEF Line
    <3>3. Typed'
      BY <3>1, <3>2
    <3> QED BY <2>3, <3>1, <3>3 DEF Lines, Active, Quiet
  <2>4. CASE chan' = chan /\ Fills(t)
    <3>1. /\ Typed'
          /\ \A c \in Channels : line'[c].req = line[c].req /\ line'[c].live = line[c].live
      <4>1. line' = [c \in Channels |->
                       IF chan[c] = t /\ line[c].live THEN Filled(c) ELSE line[c]]
        BY <2>4 DEF Fills, Filled
      <4>2. line' \in [Channels -> Line]
        BY <2>0, <4>1
      <4> QED BY <2>0, <4>1, <4>2 DEF Line
    <3> QED BY <2>4, <3>1 DEF Lines, Active
  <2> QED BY <2>1, <2>2, <2>3, <2>4 DEF OnLine
<1>2. ASSUME NEW u \in Threads PROVE Unserved(u)'
  <2>1. pc'[u] \in {"idle", "lock", "newcall"} => pc[u] \in {"idle", "lock", "newcall"}
    OBVIOUS
  <2>2. ASSUME NEW c \in Channels, chan'[c] = u, ~(line'[c].live /\ call[c].st = "done")
        PROVE  served[u] = "none"
    <3>1. CASE chan[c] = u
      <4>1. line'[c].live = line[c].live \/ (call[c].st = "idle" /\ line'[c].live)
        BY <1>0, <2>2, <3>1 DEF OnLine, HangUp, Issue, Fills, Quiet, Line
      <4> QED BY <2>2, <3>1, <4>1 DEF Unserved
    <3>2. CASE chan[c] # u
      BY <2>2, <3>2 DEF Unserved
    <3> QED BY <3>1, <3>2
  <2> QED BY <2>1, <2>2 DEF Unserved
<1>3. ASSUME NEW u \in Threads, u # t PROVE Told(u)'
  BY <1>3 DEF Told
<1> QED BY <1>1, <1>2, <1>3

-----------------------------------------------------------------------------
(* The four kinds of step within a callback. *)
LEMMA SendAdvances ==
  ASSUME Inv, NEW t \in Threads, StubSends(t)
  PROVE  Advances(t) /\ Told(t)' /\ ClientInv'
<1> USE DEF StubSends, clientVars
<1>1. ClientInv'
  BY DEF Inv, ClientInv, C!TypeOK, C!MutualExclusion, C!ChannelsAccounted
<1>2. Advances(t)
  BY DEF Advances, Alone, OnLine
<1> QED BY <1>1, <1>2 DEF Inv, Told

LEMMA ProceedAdvances ==
  ASSUME Inv, NEW t \in Threads, Proceed(t)
  PROVE  Advances(t) /\ Told(t)' /\ ClientInv'
<1> USE Constants DEF Inv, ClientInv, C!TypeOK, C!Goto, C!Return
<1>1. C!Step(t)
  BY DEF Proceed, C!Step, C!Outcomes
<1>2. Alone(t) /\ ClientInv'
  BY <1>1, StepAlone, ClientKept
<1>3. UNCHANGED <<serverVars, args, served>>
  BY DEF Proceed
<1>4. CASE C!GetConnection(t) /\ UNCHANGED line
  BY <1>2, <1>3, <1>4 DEF C!GetConnection, Advances, OnLine, Told
<1>5. CASE C!NewCall(t) /\ UNCHANGED line
  BY <1>2, <1>3, <1>5 DEF C!NewCall, Advances, OnLine, Told
<1>6. CASE C!Start(t, "ok") /\ Issue(t)
  BY <1>2, <1>3, <1>6 DEF C!Start, Advances, OnLine, Told
<1>7. CASE C!Filler(t) /\ UNCHANGED line
  BY <1>2, <1>3, <1>7 DEF C!Filler, Advances, OnLine, Told
<1>8. CASE (C!Throw(t, "error") \/ (WriteEnded(t) /\ C!Throw(t, "ok"))) /\ HangUp
  BY <1>2, <1>3, <1>8 DEF C!Throw, WriteEnded, Advances, OnLine, Told
<1>9. CASE op[t] = "write" /\ C!XdrLength(t, "ok") /\ UNCHANGED line
  BY <1>2, <1>3, <1>9 DEF C!XdrLength, Advances, OnLine, Told
<1>10. CASE op[t] = "write" /\ C!Transfer(t, "ok") /\ Fills(t)
  BY <1>2, <1>3, <1>10 DEF C!Transfer, Advances, OnLine, Told
<1> QED BY <1>4, <1>5, <1>6, <1>7, <1>8, <1>9, <1>10 DEF Proceed, Fills

LEMMA AnswerAdvances ==
  ASSUME Inv, NEW t \in Threads, TakeAnswer(t)
  PROVE  Advances(t) /\ Told(t)' /\ ClientInv'
<1> USE Constants DEF Inv, ClientInv, C!TypeOK, C!Goto, C!Return
<1>0. served[t] = "ok"
  BY DEF TakeAnswer, Answered, Lines
<1>1. C!Step(t)
  BY DEF TakeAnswer, C!Step, C!Outcomes
<1>2. Alone(t) /\ ClientInv'
  BY <1>1, StepAlone, ClientKept
<1>3. HangUp /\ UNCHANGED <<serverVars, args, served>>
  BY DEF TakeAnswer
<1>4. CASE C!Stub(t, "ok")
  BY <1>0, <1>2, <1>3, <1>4 DEF C!Stub, Advances, OnLine, Told
<1>5. CASE C!EndCall(t, "ok")
  BY <1>0, <1>2, <1>3, <1>5 DEF C!EndCall, Advances, OnLine, Told
<1>6. CASE op[t] # "write" /\ C!XdrLength(t, "ok")
  BY <1>0, <1>2, <1>3, <1>6 DEF C!XdrLength, Advances, OnLine, Told
<1>7. CASE op[t] = "getattr" /\ C!Transfer(t, "ok")
  BY <1>0, <1>2, <1>3, <1>7 DEF C!Transfer, Advances, OnLine, Told
<1>8. CASE op[t] = "read" /\ C!Transfer(t, "zero")
  BY <1>0, <1>2, <1>3, <1>8 DEF C!Transfer, Advances, OnLine, Told
<1> QED BY <1>4, <1>5, <1>6, <1>7, <1>8 DEF TakeAnswer

LEMMA TimeOutAdvances ==
  ASSUME Inv, NEW t \in Threads, TimeOut(t)
  PROVE  Advances(t) /\ Told(t)' /\ ClientInv'
<1> USE Constants DEF Inv, ClientInv, C!TypeOK, C!Goto, C!Return
<1>1. C!Step(t)
  BY DEF TimeOut, C!Step, C!Outcomes
<1>2. Alone(t) /\ ClientInv'
  BY <1>1, StepAlone, ClientKept
<1>3. HangUp /\ UNCHANGED <<serverVars, args, served>>
  BY DEF TimeOut
<1>4. CASE C!Stub(t, "error")
  BY <1>2, <1>3, <1>4 DEF C!Stub, Advances, OnLine, Told
<1>5. CASE C!Start(t, "error") \/ C!XdrLength(t, "error")
  BY <1>2, <1>3, <1>5 DEF C!Start, C!XdrLength, Advances, OnLine, Told
<1>6. CASE C!Transfer(t, "zero")
  BY <1>2, <1>3, <1>6 DEF C!Transfer, Advances, OnLine, Told
<1>7. CASE C!EndCall(t, "error")
  BY <1>2, <1>3, <1>7 DEF C!EndCall, Advances, OnLine, Told
<1> QED BY <1>4, <1>5, <1>6, <1>7 DEF TimeOut

-----------------------------------------------------------------------------
LEMMA AdvanceStep ==
  ASSUME Inv, NEW t \in Threads, Advances(t), Told(t)', ClientInv'
  PROVE  Inv'
<1>1. ServerInv'
  BY DEF Inv, Advances, serverVars, ServerInv, S!TypeOK, SP!Asking, SP!Midway
<1> QED BY <1>1, AdvanceKeeps DEF Inv

(* The ends of a callback: no channel is the thread's then. *)
LEMMA RequestStep ==
  ASSUME Inv, NEW t \in Threads, NEW q \in Asked, Request(t, q)
  PROVE  Inv' /\ Alone(t)
<1> USE Constants DEF Inv, ClientInv, Typed, Request
<1>1. C!Request(t, CallbackFor(q)) /\ CallbackFor(q) \in C!Ops
  BY DEF CallbackFor, C!Ops
<1>2. ClientInv' /\ Alone(t)
  BY <1>1, ClientKept, StepAlone
<1>3. pc[t] = "idle" /\ pc'[t] = "lock" /\ ret'[t] = "none" /\ chan' = chan
  BY <1>1 DEF C!Request, C!Goto, C!Return, C!TypeOK
<1>4. \A c \in Channels : chan[c] # t
  BY <1>3 DEF C!ChannelsAccounted, C!InCall
<1>5. ServerInv'
  BY DEF serverVars, ServerInv, S!TypeOK, SP!Asking, SP!Midway
<1>6. Typed' /\ Lines'
  BY <1>3, <1>4 DEF serverVars, Lines, Active
<1>7. \A u \in Threads : Unserved(u)'
  BY <1>2, <1>3, <1>4 DEF serverVars, Unserved, Alone
<1>8. \A u \in Threads : Told(u)'
  BY <1>2, <1>3 DEF Told, Alone
<1> QED BY <1>2, <1>5, <1>6, <1>7, <1>8

LEMMA ReturnStep ==
  ASSUME Inv, NEW t \in Threads, Return(t)
  PROVE  Inv' /\ Alone(t)
<1> USE Constants DEF Inv, ClientInv, Typed, Return
<1>1. C!RelConnection(t) /\ C!Step(t)
  BY DEF C!Step
<1>2. ClientInv' /\ Alone(t)
  BY <1>1, ClientKept, StepAlone
<1>3. pc[t] = "release" /\ pc'[t] = "idle" /\ chan' = chan
  BY <1>1 DEF C!RelConnection, C!Goto, C!TypeOK
<1>4. \A c \in Channels : chan[c] # t
  BY <1>3 DEF C!ChannelsAccounted, C!InCall
<1>5. ServerInv'
  BY DEF serverVars, ServerInv, S!TypeOK, SP!Asking, SP!Midway
<1>6. Typed' /\ Lines'
  BY <1>3, <1>4 DEF serverVars, Lines, Active
<1>7. \A u \in Threads : Unserved(u)'
  BY <1>2, <1>3, <1>4 DEF serverVars, Unserved, Alone
<1>8. \A u \in Threads : Told(u)'
  BY <1>2, <1>3 DEF Told, Alone
<1> QED BY <1>2, <1>5, <1>6, <1>7, <1>8

-----------------------------------------------------------------------------
(* Steps of the network and the server leave the clients where they are. *)
LEMMA ClientsStay ==
  ASSUME Inv, UNCHANGED <<clientVars, args>>
  PROVE  ClientInv' /\ \A t \in Threads : (served'[t] = served[t] => Told(t)')
BY DEF Inv, clientVars, ClientInv, C!TypeOK, C!MutualExclusion, C!ChannelsAccounted, Told

LEMMA DeliverStep ==
  ASSUME Inv, NEW c \in Channels, Deliver(c)
  PROVE  Inv' /\ call[c].st = "idle" /\ call'[c].st = "sent"
<1> USE DEF Inv, Typed, Line, Deliver
<1>1. line[c].req \in Asked
  BY MountAssumption
<1>2. ServerInv' /\ \A d \in Channels : d # c => call'[d] = call[d]
  BY <1>1, NetworkKept, SameServer
<1>3. ClientInv' /\ \A t \in Threads : Told(t)'
  BY ClientsStay
<1>4. call[c].st = "idle" /\ call'[c].st = "sent" /\ call'[c].op = line[c].req.op
  BY DEF S!Arrive, ServerInv, S!TypeOK
<1>5. /\ Typed' /\ line'[c].req = None /\ line'[c].live = line[c].live
      /\ \A d \in Channels : d # c => line'[d] = line[d]
  OBVIOUS
<1>6. Lines'
  BY <1>2, <1>4, <1>5 DEF Lines, Active, clientVars
<1>7. \A t \in Threads : Unserved(t)'
  BY <1>2, <1>4, <1>5 DEF Unserved, clientVars
<1> QED BY <1>2, <1>3, <1>4, <1>5, <1>6, <1>7

LEMMA LoseStep ==
  ASSUME Inv, NEW c \in Channels, Lose(c)
  PROVE  Inv'
<1> USE DEF Inv, Typed, Line, Lose
<1>1. ServerInv'
  BY DEF serverVars, ServerInv, S!TypeOK, SP!Asking, SP!Midway
<1>2. ClientInv' /\ \A t \in Threads : Told(t)'
  BY ClientsStay
<1>3. /\ Typed' /\ line'[c].req = None /\ line'[c].live = line[c].live
      /\ \A d \in Channels : d # c => line'[d] = line[d]
  OBVIOUS
<1>4. Lines'
  BY <1>3 DEF Lines, Active, clientVars, serverVars
<1>5. \A t \in Threads : Unserved(t)'
  BY <1>3 DEF Unserved, clientVars, serverVars
<1> QED BY <1>1, <1>2, <1>3, <1>4, <1>5

LEMMA DataStep ==
  ASSUME Inv, NEW c \in Channels, DeliverData(c)
  PROVE  Inv' /\ call[c].st = "receiving" /\ call'[c].st = "received"
<1> USE DEF Inv, Typed, DeliverData
<1>1. ServerInv' /\ \A d \in Channels : d # c => call'[d] = call[d]
  BY NetworkKept, SameServer
<1>2. ClientInv' /\ \A t \in Threads : Told(t)'
  BY ClientsStay
<1>3. call[c].st = "receiving" /\ call'[c].st = "received" /\ call'[c].op = call[c].op
  BY DEF S!DataIn, ServerInv, S!TypeOK
<1>4. Lines'
  BY <1>1, <1>3 DEF Lines, Active, clientVars
<1>5. \A t \in Threads : Unserved(t)'
  BY <1>1, <1>3 DEF Unserved, clientVars
<1> QED BY <1>1, <1>2, <1>3, <1>4, <1>5

LEMMA ForgetStep ==
  ASSUME Inv, NEW c \in Channels, Forget(c)
  PROVE  /\ Inv' /\ call[c].st \in {"sent", "done"} /\ call'[c].st = "idle"
         /\ \A d \in Channels : d # c => call'[d] = call[d]
<1> USE DEF Inv, Typed, Forget
<1>1. ServerInv' /\ \A d \in Channels : d # c => call'[d] = call[d]
  BY NetworkKept, SameServer
<1>2. ClientInv' /\ \A t \in Threads : Told(t)'
  BY ClientsStay
<1>3. call[c].st \in {"sent", "done"} /\ call'[c].st = "idle"
  BY DEF S!Finish, S!NoCall, ServerInv, S!TypeOK
<1>4. Lines'
  BY <1>1, <1>3 DEF Lines, Active, clientVars
<1>5. \A t \in Threads : Unserved(t)'
  BY <1>1, <1>3 DEF Unserved, clientVars
<1> QED BY <1>1, <1>2, <1>3, <1>4, <1>5

LEMMA ServeStep ==
  ASSUME Inv, NEW c \in Channels, Serve(c)
  PROVE  Inv'
<1> USE DEF Inv, Typed, Serve
<1>1. /\ ServerInv' /\ \A d \in Channels : d # c => call'[d] = call[d]
      /\ \/ call[c].st = "sent" /\ call' = [call EXCEPT ![c].st = "receiving"]
         \/ /\ call[c].st \in {"sent", "received"}
            /\ call'[c].st = "done" /\ call'[c].res \in {"ok", "error"}
  BY HandleKept
<1>2. ClientInv' /\ \A t \in Threads : served'[t] = served[t] => Told(t)'
  BY ClientsStay
<1>3. CASE ~(line[c].live /\ call'[c].st = "done")
  <2>1. served' = served /\ Active(c)
    BY <1>1, <1>3 DEF Active
  <2>2. call'[c].st = "done" \/ (call'[c].st = "receiving" /\ call'[c].op = call[c].op)
    BY <1>1 DEF ServerInv, S!TypeOK
  <2>3. Lines'
    BY <1>1, <1>3, <2>1, <2>2 DEF Lines, Active, clientVars
  <2>4. \A t \in Threads : Unserved(t)'
    BY <1>1, <1>3, <2>1, <2>2 DEF Unserved, Active, clientVars
  <2> QED BY <1>1, <1>2, <2>1, <2>3, <2>4
<1>4. CASE line[c].live /\ call'[c].st = "done"
  <2>1. chan[c] \in Threads /\ Active(c)
    BY <1>1, <1>4 DEF Lines, Active, ServerInv, S!TypeOK
  <2>2. /\ served' = [served EXCEPT ![chan[c]] = call'[c].res]
        /\ call'[c].res \in {"ok", "error"}
    BY <1>1, <1>4, <2>1 DEF ServerInv, S!TypeOK, Active
  <2>3. served[chan[c]] = "none" /\ pc[chan[c]] \notin {"idle", "lock", "newcall"}
    BY <2>1 DEF Unserved, Active, ClientInv, C!ChannelsAccounted, C!InCall
  <2>4. \A d \in Channels : d # c => chan[d] # chan[c]
    BY <2>1 DEF ClientInv, C!ChannelsAccounted
  <2>5. Lines'
    BY <1>1, <1>4, <2>1, <2>2, <2>4 DEF Lines, Active, clientVars
  <2>6. \A t \in Threads : Unserved(t)'
    BY <1>1, <1>4, <2>1, <2>2, <2>3, <2>4 DEF Unserved, clientVars
  <2>7. ASSUME NEW t \in Threads, t = chan[c] PROVE Told(t)'
    BY <2>1, <2>2, <2>3, <2>7 DEF Told, clientVars
  <2>8. Typed'
    BY <2>1, <2>2
  <2>9. \A t \in Threads : t # chan[c] => served'[t] = served[t]
    BY <2>2
  <2>10. \A t \in Threads : Told(t)'
    <3> SUFFICES ASSUME NEW t \in Threads, t # chan[c] PROVE Told(t)'
      BY <2>7
    <3> QED BY <1>2, <2>9
  <2> QED BY <1>1, <1>2, <2>5, <2>6, <2>8, <2>10
<1> QED BY <1>3, <1>4

LEMMA InvInit == Init => Inv
<1> SUFFICES ASSUME Init PROVE Inv
  OBVIOUS
<1>1. ClientInv
  <2>1. CP!Init
    BY DEF Init, C!Init, CP!Init
  <2> QED BY <2>1, CP!InvInit, SameClientInv, MountAssumption
<1>2. ServerInv
  <2>1. SP!Init
    BY DEF Init, S!Init, SP!Init, S!NoCall, SP!NoCall, S!Fds, SP!Fds
  <2> QED BY <2>1, SP!InvInit, SameServerInv, Constants, MountAssumption
<1>3. /\ \A t \in Threads : pc[t] = "idle" /\ ret[t] = "none" /\ served[t] = "none"
      /\ \A c \in Channels : line[c].req = None /\ ~line[c].live
      /\ Typed
  BY DEF Init, C!Init, Silent, Typed, Line
<1> QED BY <1>1, <1>2, <1>3 DEF Inv, Lines, Unserved, Told

LEMMA InvStep == Inv /\ [Next]_mountVars => Inv'
<1> SUFFICES ASSUME Inv, [Next]_mountVars PROVE Inv'
  OBVIOUS
<1>1. CASE UNCHANGED mountVars
  <2> USE <1>1 DEF mountVars, clientVars, serverVars, Inv
  <2>1. ClientInv'
    BY DEF ClientInv, C!TypeOK, C!MutualExclusion, C!ChannelsAccounted
  <2>2. ServerInv'
    BY DEF ServerInv, S!TypeOK, SP!Asking, SP!Midway
  <2>3. Typed' /\ Lines' /\ \A t \in Threads : Unserved(t)' /\ Told(t)'
    BY DEF Typed, Lines, Active, Unserved, Told
  <2> QED BY <2>1, <2>2, <2>3
<1>2. ASSUME NEW t \in Threads,
             StubSends(t) \/ Proceed(t) \/ TakeAnswer(t) \/ TimeOut(t)
      PROVE  Inv'
  BY <1>2, SendAdvances, ProceedAdvances, AnswerAdvances, TimeOutAdvances, AdvanceStep
<1>3. ASSUME NEW t \in Threads, Return(t) \/ \E q \in Asked : Request(t, q) PROVE Inv'
  BY <1>3, RequestStep, ReturnStep
<1>4. ASSUME NEW c \in Channels,
             Deliver(c) \/ Lose(c) \/ DeliverData(c) \/ Forget(c) \/ Serve(c)
      PROVE  Inv'
  BY <1>4, DeliverStep, LoseStep, DataStep, ForgetStep, ServeStep
<1> QED BY <1>1, <1>2, <1>3, <1>4 DEF Next

LEMMA Invariance == Spec => []Inv
BY InvInit, InvStep, PTL DEF Spec

(* Clients, server, lines and answers keep their types together, for any    *)
(* number of mounts on any number of channels.                              *)
THEOREM TypeCorrect == Spec => []MountTypeOK
<1>1. Inv => MountTypeOK
  BY DEF Inv, ClientInv, ServerInv, Typed, Line, MountTypeOK
<1> QED BY <1>1, Invariance, PTL

(* Whatever calls were given up and are still under way, what the server    *)
(* works on for a waiting client is what that client's callback asked for,  *)
(* and one mount waits for one call at a time (afsfuse_client.c callbacks,  *)
(* getconnection).                                                          *)
THEOREM Matched == Spec => []CallsMatched
<1>1. Inv => CallsMatched
  <2> SUFFICES ASSUME Inv PROVE CallsMatched
    OBVIOUS
  <2>1. \A c \in Channels : line[c].live => chan[c] \in Threads
    BY DEF Inv, Lines
  <2>2. ASSUME NEW c \in Channels, NEW d \in Channels, line[c].live, line[d].live,
               ConnOf[c] = ConnOf[d]
        PROVE  c = d
    <3>1. /\ pc[chan[c]] \in C!Holding /\ pc[chan[d]] \in C!Holding
          /\ MountOf[chan[c]] = MountOf[chan[d]]
      BY <2>1, <2>2 DEF Inv, ClientInv, C!ChannelsAccounted, C!Holding
    <3>2. chan[c] = chan[d]
      BY <2>1, <2>2, <3>1 DEF Inv, ClientInv, C!MutualExclusion
    <3> QED BY <2>1, <2>2, <3>2 DEF Inv, ClientInv, C!ChannelsAccounted
  <2> QED BY <2>1, <2>2 DEF Inv, Lines, Active, CallsMatched
<1> QED BY <1>1, Invariance, PTL

-----------------------------------------------------------------------------
(* The refinement: how far a request is, as RemoteCalls sees it. *)
Stage(p, s, pending) ==
  IF p = "idle" THEN "idle" ELSE IF s = "ok" THEN "done" ELSE IF s = "error" THEN "refused"
  ELSE IF pending THEN "asked" ELSE "failed"

LEMMA Wants ==
  /\ Typed => Want = [t \in Threads |-> Stage(pc[t], served[t], Pending(t))]
  /\ Typed' => Want' = [t \in Threads |-> Stage(pc'[t], served'[t], Pending(t)')]
<1>1. Typed => Want = [t \in Threads |-> Stage(pc[t], served[t], Pending(t))]
  BY DEF Typed, Want, Stage
<1>2. Typed' => Want' = [t \in Threads |-> Stage(pc'[t], served'[t], Pending(t)')]
  BY DEF Typed, Want, Stage
<1> QED BY <1>1, <1>2

(* A thread whose place, answer and channels stay has its request as it was. *)
LEMMA WantStays ==
  ASSUME Typed, Typed', NEW t \in Threads, pc[t] = "idle" <=> pc'[t] = "idle",
         served'[t] = served[t],
         pc[t] # "idle" /\ served[t] = "none" => (Pending(t) <=> Pending(t)')
  PROVE  Want'[t] = Want[t]
BY Wants DEF Stage, Typed

(* A given up call may become late, and nothing else changes which are.     *)
LEMMA AdvanceLate ==
  ASSUME Inv, NEW t \in Threads, Advances(t), NEW c \in Channels
  PROVE  /\ c \in Late => c \in Late'
         /\ chan[c] # t \/ chan'[c] = t \/ served[t] # "none" => (c \in Late' => c \in Late)
<1> USE Constants DEF Inv, Advances, Alone, Typed, Line, Late, InFlight
<1>1. call' = call /\ Unserved(t)
  BY DEF serverVars
<1>2. CASE HangUp
  <2>1. /\ line'[c].req = line[c].req
        /\ line'[c].live = IF chan'[c] = chan[c] THEN line[c].live ELSE FALSE
    BY <1>2 DEF HangUp
  <2>2. line[c].live /\ ~line'[c].live => chan[c] = t /\ chan'[c] # t
    BY <2>1 DEF Lines
  <2>3. line[c].live /\ served[t] # "none" /\ chan[c] = t => ~InFlight(c)
    BY <1>1 DEF Unserved, Lines
  <2> QED BY <1>1, <2>1, <2>2, <2>3
<1>3. CASE line' = line
  BY <1>1, <1>3
<1>4. CASE Issue(t)
  BY <1>1, <1>4 DEF Issue, Quiet
<1>5. CASE Fills(t)
  BY <1>1, <1>5 DEF Fills
<1> QED BY <1>2, <1>3, <1>4, <1>5 DEF OnLine

LEMMA AdvanceRefines ==
  ASSUME Inv, Inv', NEW t \in Threads, Advances(t)
  PROVE  [Remote!Next]_(Remote!remoteVars)
<1> USE Constants DEF Advances, Alone
<1>1. \A u \in Threads : pc[u] = "idle" <=> pc'[u] = "idle"
  OBVIOUS
<1>2. <<dirent, data>>' = <<dirent, data>> /\ Answer' = Answer
  BY DEF serverVars, Answer
<1>3. \A u \in Threads : u # t => Want'[u] = Want[u]
  BY <1>1, WantStays DEF Inv, Pending
<1>4. Late \subseteq Channels /\ Late' \subseteq Channels
  BY DEF Late
<1>5. CASE Pending(t) /\ ~Pending(t)' /\ served[t] = "none"
  <2>1. PICK c \in Channels : chan[c] = t
    BY <1>5 DEF Pending
  <2>2. \A d \in Channels : d # c => chan[d] # t
    BY <2>1 DEF Inv, ClientInv, C!ChannelsAccounted
  <2>3. Late' \in {Late, Late \cup {c}}
    BY <1>4, <2>2, AdvanceLate
  <2>4. Want[t] = "asked" /\ Want' = [Want EXCEPT ![t] = "failed"]
    BY <1>3, <1>5, Wants DEF Stage, Inv, Typed
  <2>5. Remote!GiveUp(t, c)
    BY <1>2, <2>3, <2>4 DEF Remote!GiveUp
  <2> QED BY <2>5 DEF Remote!Next
<1>6. CASE ~(Pending(t) /\ ~Pending(t)' /\ served[t] = "none")
  <2>1. Pending(t)' => Pending(t)
    BY DEF Pending
  <2>2. Want' = Want
    BY <1>1, <1>3, <1>6, <2>1, WantStays, Wants DEF Inv
  <2>3. \A c \in Channels : chan[c] # t \/ chan'[c] = t \/ served[t] # "none"
    <3> SUFFICES ASSUME NEW c \in Channels, chan[c] = t, served[t] = "none"
                 PROVE  chan'[c] = t
      OBVIOUS
    <3>1. pc[t] \notin {"lock", "newcall"} /\ \A d \in Channels : chan[d] = t => c = d
      BY DEF Inv, ClientInv, C!ChannelsAccounted, C!InCall
    <3>2. Pending(t)'
      BY <1>6 DEF Pending
    <3> QED BY <3>1, <3>2 DEF Pending
  <2>4. Late' = Late
    BY <1>4, <2>3, AdvanceLate
  <2> QED BY <1>2, <2>2, <2>4 DEF Remote!remoteVars
<1> QED BY <1>5, <1>6

LEMMA RequestRefines ==
  ASSUME Inv, NEW t \in Threads, NEW q \in Asked, Request(t, q)
  PROVE  [Remote!Next]_(Remote!remoteVars)
<1> USE DEF Inv, Alone
<1>0. Inv' /\ Alone(t)
  BY RequestStep
<1>1. /\ pc[t] = "idle" /\ pc'[t] = "lock" /\ chan' = chan
      /\ UNCHANGED <<serverVars, line, served>>
  BY DEF Request, C!Request, C!Goto, ClientInv, C!TypeOK
<1>2. UNCHANGED <<dirent, data, call>> /\ Late' = Late
  BY <1>1 DEF serverVars, Late, InFlight
<1>3. Want[t] = "idle" /\ Want' = [Want EXCEPT ![t] = "asked"]
  <2>1. Want'[t] = "asked" /\ Want[t] = "idle"
    BY <1>0, <1>1, Wants DEF Stage, Pending, Unserved
  <2>2. \A u \in Threads : u # t => Want'[u] = Want[u]
    BY <1>0, <1>1, WantStays DEF Pending
  <2> QED BY <1>0, <2>1, <2>2, Wants
<1>4. Answer' = [Answer EXCEPT ![t] = "none"]
  BY <1>0, <1>1 DEF Answer
<1>5. Remote!Ask(t)
  BY <1>2, <1>3, <1>4 DEF Remote!Ask
<1> QED BY <1>5 DEF Remote!Next

LEMMA ReturnRefines ==
  ASSUME Inv, NEW t \in Threads, Return(t)
  PROVE  [Remote!Next]_(Remote!remoteVars)
<1> USE DEF Inv, Alone
<1>0. Inv' /\ Alone(t)
  BY ReturnStep
<1>1. /\ pc[t] = "release" /\ pc'[t] = "idle" /\ chan' = chan /\ ret' = ret
      /\ UNCHANGED <<serverVars, line>>
      /\ \A u \in Threads : u # t => served'[u] = served[u]
  BY DEF Return, C!RelConnection, C!Goto, ClientInv, C!TypeOK, Typed
<1>2. UNCHANGED <<dirent, data, call>> /\ Late' = Late
  BY <1>1 DEF serverVars, Late, InFlight
<1>3. /\ ret[t] \in {"ok", "zero", "error"} /\ (ret[t] = "ok" => served[t] = "ok")
      /\ ~Pending(t)
  BY <1>1 DEF Told, Pending, ClientInv, C!ChannelsAccounted, C!InCall
<1>4. /\ Want[t] \in {"done", "refused", "failed"} /\ (ret[t] = "ok" => Want[t] = "done")
      /\ Want' = [Want EXCEPT ![t] = "idle"]
  <2>1. /\ Want[t] \in {"done", "refused", "failed"} /\ (ret[t] = "ok" => Want[t] = "done")
        /\ Want'[t] = "idle"
    BY <1>0, <1>1, <1>3, Wants DEF Stage
  <2>2. \A u \in Threads : u # t => Want'[u] = Want[u]
    BY <1>0, <1>1, WantStays DEF Pending
  <2> QED BY <1>0, <2>1, <2>2, Wants
<1>5. Answer' = [Answer EXCEPT ![t] = ret[t]]
  BY <1>0, <1>1 DEF Answer
<1>6. Remote!Return(t, ret[t])
  BY <1>2, <1>3, <1>4, <1>5 DEF Remote!Return
<1> QED BY <1>3, <1>6 DEF Remote!Next

-----------------------------------------------------------------------------
(* A step on line c that tells no client anything: nothing, or the end of a *)
(* call nobody waits for.                                                   *)
LEMMA LineRefines ==
  ASSUME Inv, Inv', NEW c \in Channels, UNCHANGED <<clientVars, served>>,
         \A d \in Channels : d # c => line'[d] = line[d] /\ call'[d] = call[d],
         line'[c].live = line[c].live,
         InFlight(c)' => InFlight(c),
         UNCHANGED <<dirent, data>> \/ (c \in Late /\ c \notin Late')
  PROVE  [Remote!Next]_(Remote!remoteVars)
<1>1. Want' = Want /\ Answer' = Answer
  BY WantStays, Wants DEF clientVars, Pending, Answer, Inv
<1>2. Late' = Late \/ (c \in Late /\ Late' = Late \ {c})
  <2>1. \A d \in Channels : d # c => (d \in Late' <=> d \in Late)
    BY DEF Late, InFlight
  <2>2. c \in Late' => c \in Late
    BY DEF Late
  <2>3. Late \subseteq Channels /\ Late' \subseteq Channels
    BY DEF Late
  <2> QED BY <2>1, <2>2, <2>3
<1>3. CASE c \in Late /\ Late' = Late \ {c}
  <2>1. Remote!ServeLate(c)
    BY <1>1, <1>3 DEF Remote!ServeLate
  <2> QED BY <2>1 DEF Remote!Next
<1>4. CASE Late' = Late
  BY <1>1, <1>4 DEF Remote!remoteVars
<1> QED BY <1>2, <1>3, <1>4

LEMMA NetworkRefines ==
  ASSUME Inv, NEW c \in Channels, Deliver(c) \/ Lose(c) \/ DeliverData(c) \/ Forget(c)
  PROVE  [Remote!Next]_(Remote!remoteVars)
<1> USE DEF Inv, Typed, Line
<1>1. CASE Deliver(c)
  <2>1. Inv' /\ InFlight(c) /\ line'[c].live = line[c].live
    BY <1>1, DeliverStep DEF Deliver, InFlight
  <2>2. /\ \A d \in Channels : d # c => line'[d] = line[d] /\ call'[d] = call[d]
        /\ UNCHANGED <<clientVars, served, dirent, data>>
    BY <1>1 DEF Deliver, S!Arrive, ServerInv, S!TypeOK
  <2> QED BY <2>1, <2>2, LineRefines
<1>2. CASE Lose(c)
  <2>1. Inv' /\ InFlight(c) /\ line'[c].live = line[c].live
    BY <1>2, LoseStep DEF Lose, InFlight
  <2>2. /\ \A d \in Channels : d # c => line'[d] = line[d] /\ call'[d] = call[d]
        /\ UNCHANGED <<clientVars, served, dirent, data>>
    BY <1>2 DEF Lose, serverVars
  <2> QED BY <2>1, <2>2, LineRefines
<1>3. CASE DeliverData(c)
  <2>1. Inv' /\ InFlight(c) /\ line' = line
    BY <1>3, DataStep DEF DeliverData, InFlight
  <2>2. /\ \A d \in Channels : d # c => line'[d] = line[d] /\ call'[d] = call[d]
        /\ UNCHANGED <<clientVars, served, dirent, data>>
    BY <1>3 DEF DeliverData, S!DataIn, ServerInv, S!TypeOK
  <2> QED BY <2>1, <2>2, LineRefines
<1>4. CASE Forget(c)
  <2>1. /\ Inv' /\ (InFlight(c)' => InFlight(c)) /\ line' = line
        /\ \A d \in Channels : d # c => line'[d] = line[d] /\ call'[d] = call[d]
    BY <1>4, ForgetStep DEF Forget, InFlight
  <2>2. UNCHANGED <<clientVars, served, dirent, data>>
    BY <1>4 DEF Forget, S!Finish
  <2> QED BY <2>1, <2>2, LineRefines
<1> QED BY <1>1, <1>2, <1>3, <1>4

LEMMA ServeRefines ==
  ASSUME Inv, NEW c \in Channels, Serve(c)
  PROVE  [Remote!Next]_(Remote!remoteVars)
<1> USE DEF Inv, Typed
<1>1. /\ Inv' /\ \A d \in Channels : d # c => call'[d] = call[d]
      /\ line' = line /\ UNCHANGED <<clientVars, args>>
      /\ \/ /\ S!AwaitData(c) /\ call[c].st = "sent"
            /\ call' = [call EXCEPT ![c].st = "receiving"]
         \/ /\ call[c].st \in {"sent", "received"}
            /\ call'[c].st = "done" /\ call'[c].res \in {"ok", "error"}
  BY ServeStep, HandleKept DEF Serve
<1>2. InFlight(c)
  BY <1>1 DEF InFlight
<1>3. CASE call'[c].st # "done"
  <2>1. UNCHANGED <<dirent, data, served>>
    BY <1>1, <1>3 DEF Serve, S!AwaitData
  <2> QED BY <1>1, <1>2, <2>1, LineRefines
<1>4. CASE call'[c].st = "done" /\ ~line[c].live
  <2>1. served' = served
    BY <1>4 DEF Serve
  <2>2. c \in Late /\ c \notin Late'
    BY <1>1, <1>2, <1>4 DEF Late, InFlight, Lines
  <2> QED BY <1>1, <1>2, <2>1, <2>2, LineRefines
<1>5. CASE call'[c].st = "done" /\ line[c].live
  <2> DEFINE w == IF call'[c].res = "ok" THEN "done" ELSE "refused"
  <2>0. call'[c].res \in {"ok", "error"} /\ call[c].st # "done"
    BY <1>1, <1>5 DEF ServerInv, S!TypeOK
  <2>1. PICK t \in Threads : chan[c] = t
    BY <1>5 DEF Lines
  <2>2. /\ served' = [served EXCEPT ![t] = call'[c].res]
        /\ served[t] = "none" /\ Pending(t) /\ pc[t] # "idle"
    BY <1>5, <2>0, <2>1
    DEF Serve, Unserved, Pending, ClientInv, C!ChannelsAccounted, C!InCall
  <2>3. Want[t] = "asked" /\ Want'[t] = w
    BY <1>1, <2>0, <2>2, Wants DEF Stage, clientVars
  <2>4. \A u \in Threads : u # t => Want'[u] = Want[u]
    BY <1>1, <2>2, WantStays DEF clientVars, Pending
  <2>5. Want' = [Want EXCEPT ![t] = w]
    BY <1>1, <2>3, <2>4, Wants
  <2>6. Late' = Late
    BY <1>1, <1>5 DEF Late, InFlight
  <2>7. Answer' = Answer
    BY <1>1 DEF clientVars, Answer
  <2>8. Remote!Serve(t, w)
    BY <2>3, <2>5, <2>6, <2>7 DEF Remote!Serve
  <2> QED BY <2>8 DEF Remote!Next
<1> QED BY <1>3, <1>4, <1>5

LEMMA Refines == Inv /\ [Next]_mountVars => [Remote!Next]_(Remote!remoteVars)
<1> SUFFICES ASSUME Inv, [Next]_mountVars PROVE [Remote!Next]_(Remote!remoteVars)
  OBVIOUS
<1>1. CASE UNCHANGED mountVars
  BY <1>1 DEF mountVars, clientVars, serverVars, Remote!remoteVars, Want, Pending, Late,
       InFlight, Answer
<1>2. ASSUME NEW t \in Threads,
             StubSends(t) \/ Proceed(t) \/ TakeAnswer(t) \/ TimeOut(t)
      PROVE  [Remote!Next]_(Remote!remoteVars)
  <2>1. Advances(t) /\ Inv'
    BY <1>2, SendAdvances, ProceedAdvances, AnswerAdvances, TimeOutAdvances, AdvanceStep
  <2> QED BY <2>1, AdvanceRefines
<1>3. ASSUME NEW t \in Threads, Return(t) \/ \E q \in Asked : Request(t, q)
      PROVE  [Remote!Next]_(Remote!remoteVars)
  BY <1>3, RequestRefines, ReturnRefines
<1>4. ASSUME NEW c \in Channels,
             Deliver(c) \/ Lose(c) \/ DeliverData(c) \/ Forget(c) \/ Serve(c)
      PROVE  [Remote!Next]_(Remote!remoteVars)
  BY <1>4, NetworkRefines, ServeRefines
<1> QED BY <1>1, <1>2, <1>3, <1>4 DEF Next

(* What a program sees of a mount is what RemoteCalls promises: a request   *)
(* is carried out at most once, and one that reports success was carried    *)
(* out while it waited, whatever calls were given up, lost or late          *)
(* (afsfuse_client.c callbacks with afsfuse_server.c handlers).             *)
THEOREM ImplementsRemote == Spec => MountSpec
<1>1. Init => Remote!Init
  <2> SUFFICES ASSUME Init PROVE Remote!Init
    OBVIOUS
  <2>1. Want = [t \in Threads |-> "idle"] /\ Answer = [t \in Threads |-> "none"]
    BY DEF Init, C!Init, Want, Answer
  <2>2. Late = {}
    BY DEF Init, Late, InFlight, Silent, S!Init, S!NoCall
  <2> QED BY <2>1, <2>2 DEF Remote!Init
<1> QED BY <1>1, Refines, Invariance, PTL DEF Spec, MountSpec, Remote!Spec

-----------------------------------------------------------------------------
LEMMA StepOfClients == Inv /\ [Next]_mountVars => [C!Next]_(C!vars)
<1> SUFFICES ASSUME Inv, [Next]_mountVars PROVE [C!Next]_(C!vars)
  OBVIOUS
<1> USE DEF C!vars, clientVars
<1>1. CASE UNCHANGED mountVars
  BY <1>1 DEF mountVars
<1>2. ASSUME NEW t \in Threads, NEW q \in Asked, Request(t, q) PROVE [C!Next]_(C!vars)
  <2>1. CallbackFor(q) \in C!Ops
    BY DEF CallbackFor, C!Ops
  <2> QED BY <1>2, <2>1 DEF Request, C!Next
<1>3. ASSUME NEW t \in Threads, Proceed(t) \/ TakeAnswer(t) \/ TimeOut(t) \/ Return(t)
      PROVE  [C!Next]_(C!vars)
  <2>1. C!Step(t)
    BY <1>3 DEF Proceed, TakeAnswer, TimeOut, Return, C!Step, C!Outcomes
  <2> QED BY <2>1 DEF C!Next
<1>4. ASSUME NEW t \in Threads, StubSends(t) PROVE [C!Next]_(C!vars)
  BY <1>4 DEF StubSends
<1>5. ASSUME NEW c \in Channels,
             Deliver(c) \/ Lose(c) \/ DeliverData(c) \/ Forget(c) \/ Serve(c)
      PROVE  [C!Next]_(C!vars)
  BY <1>5 DEF Deliver, Lose, DeliverData, Forget, Serve
<1> QED BY <1>1, <1>2, <1>3, <1>4, <1>5 DEF Next

LEMMA StepOfServer == Inv /\ [Next]_mountVars => [S!Next]_(S!serverVars)
<1> SUFFICES ASSUME Inv, [Next]_mountVars PROVE [S!Next]_(S!serverVars)
  OBVIOUS
<1> USE DEF S!serverVars, serverVars
<1>1. CASE UNCHANGED mountVars
  BY <1>1 DEF mountVars
<1>2. ASSUME NEW t \in Threads,
             \/ \E q \in Asked : Request(t, q)
             \/ StubSends(t) \/ Proceed(t) \/ TakeAnswer(t) \/ TimeOut(t) \/ Return(t)
      PROVE  [S!Next]_(S!serverVars)
  BY <1>2 DEF Request, StubSends, Proceed, TakeAnswer, TimeOut, Return
<1>3. ASSUME NEW c \in Channels, Deliver(c) PROVE [S!Next]_(S!serverVars)
  <2>1. line[c].req \in Asked
    BY <1>3, MountAssumption DEF Inv, Typed, Line, Deliver
  <2> QED BY <1>3, <2>1 DEF Deliver, S!Next, S!Network
<1>4. ASSUME NEW c \in Channels, Lose(c) PROVE [S!Next]_(S!serverVars)
  BY <1>4 DEF Lose
<1>5. ASSUME NEW c \in Channels, DeliverData(c) \/ Forget(c) \/ Serve(c)
      PROVE  [S!Next]_(S!serverVars)
  BY <1>5 DEF DeliverData, Forget, Serve, S!Next, S!Network
<1> QED BY <1>1, <1>2, <1>3, <1>4, <1>5 DEF Next

(* The mount is its parts: however lines and answers tie them together, its *)
(* callbacks behave as afsfuse_client.c alone allows and its handlers as    *)
(* afsfuse_server.c alone allows, so that what is proved of either carries  *)
(* over to the mount.                                                       *)
THEOREM RunsItsParts == Spec => C!Spec /\ S!Spec
<1>1. Init => C!Init /\ S!Init
  BY DEF Init
<1> QED BY <1>1, StepOfClients, StepOfServer, Invariance, PTL DEF Spec, C!Spec, S!Spec
=============================================================================
