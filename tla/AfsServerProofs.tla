--------------------------- MODULE AfsServerProofs ---------------------------
(***************************************************************************)
(* Theorems about the server, for any number of calls, names, nodes and    *)
(* descriptors.  A request keeps its fields while it is under way, and a   *)
(* handler waits for data only for a write; beyond the types, that is all  *)
(* the invariant says.                                                     *)
(***************************************************************************)
EXTENDS AfsServer, TLAPS

Asking ==
  \A k \in Calls :
    /\ call[k].st \in {"sent", "receiving", "received"} =>
         call[k].name \in Names /\ (call[k].op = "write" => call[k].tag \in Tags)
    /\ Midway(k) => call[k].op = "write"

Inv == TypeOK /\ Asking

LEMMA FileAtType ==
  ASSUME TypeOK, NEW n \in Names
  PROVE  /\ FileAt(n) \in Nodes \cup {None}
         /\ FileAt(n) # None => FileAt(n) \in Nodes /\ data[FileAt(n)] \in FileData
<1>1. Target(n) \in Names
  BY DEF TypeOK, Target, IsLink
<1> QED BY <1>1 DEF TypeOK, FileAt

(* What a handler does to its call: it waits for the data or replies. *)
LEMMA HandleReplies ==
  ASSUME NEW k \in Calls, Handle(k)
  PROVE  /\ call[k].st \in {"sent", "received"}
         /\ AwaitData(k) \/ \E r \in {"ok", "error"} : Reply(k, r)
BY DEF Handle, Fails, Look, Open, Release, Read, WriteFails, Write, Mknod, Mkdir, Symlink,
       Create, Link, Remove, Rename, Truncate, Serves, AwaitData, GetAttr, GetDir, SetAttr,
       ReadLink, Sync

(* What a step of call k makes of the calls. *)
CallKept(k) ==
  /\ Asking'
  /\ call' \in [Calls -> [st : States, op : Ops, name : Names \cup {None},
                         to : Names \cup {None}, tag : Tags \cup {None},
                         got : Amounts, res : {"ok", "error"}]]
  /\ \A j \in Calls : j # k => call'[j] = call[j]

LEMMA ReplyCalls ==
  ASSUME Inv, NEW k \in Calls, NEW r \in {"ok", "error"}, Reply(k, r)
  PROVE  CallKept(k) /\ call'[k].st = "done" /\ call'[k].res = r
<1> USE DEF Inv, TypeOK, Asking, Midway, CallKept
<1>1. [NoCall EXCEPT !.st = "done", !.res = r] \in
        [st : States, op : Ops, name : Names \cup {None}, to : Names \cup {None},
         tag : Tags \cup {None}, got : Amounts, res : {"ok", "error"}]
  BY DEF NoCall, States, Ops, OnePath, Amounts
<1>2. call'[k] = [NoCall EXCEPT !.st = "done", !.res = r]
  BY DEF Reply
<1> QED BY <1>1, <1>2 DEF Reply, NoCall

LEMMA HandleCalls ==
  ASSUME Inv, NEW k \in Calls, Handle(k)
  PROVE  CallKept(k)
<1>1. CASE AwaitData(k)
  BY <1>1 DEF Inv, TypeOK, Asking, Midway, CallKept, AwaitData, Serves, States
<1> QED BY <1>1, HandleReplies, ReplyCalls

LEMMA NetworkCalls ==
  ASSUME Inv, NEW k \in Calls, Network(k)
  PROVE  CallKept(k) /\ UNCHANGED <<dirent, data, fdUse>>
<1> USE DEF Inv, TypeOK, Asking, Midway, CallKept
<1>1. ASSUME NEW q \in Asked, Arrive(k, q) PROVE CallKept(k)
  <2>1. /\ q.op \in Ops /\ q.name \in Names /\ q.to \in Names \cup {None}
        /\ q.tag \in Tags \cup {None} /\ (q.op = "write" => q.tag \in Tags)
    BY AskedAssumption DEF Requests, Ops, OnePath, TwoPaths
  <2> QED BY <1>1, <2>1 DEF Arrive, States, Amounts
<1>2. ASSUME NEW n \in Amounts, DataIn(k, n) PROVE CallKept(k)
  <2>1. call' = [call EXCEPT ![k] = [call[k] EXCEPT !.st = "received", !.got = n]]
    BY <1>2 DEF DataIn
  <2>2. [call[k] EXCEPT !.st = "received", !.got = n] \in
          [st : States, op : Ops, name : Names \cup {None}, to : Names \cup {None},
           tag : Tags \cup {None}, got : Amounts, res : {"ok", "error"}]
    BY DEF States
  <2> QED BY <1>2, <2>1, <2>2 DEF DataIn
<1>3. CASE Finish(k)
  BY <1>3 DEF Finish, NoCall, States, Ops, OnePath, Amounts
<1> QED BY <1>1, <1>2, <1>3 DEF Network, Arrive, DataIn, Finish

LEMMA HandleFiles ==
  ASSUME Inv, NEW k \in Calls, Handle(k)
  PROVE  /\ dirent' \in [Names -> Nodes \cup {None}]
         /\ data' \in [Nodes -> Contents]
         /\ fdUse' \in [Fds -> Nodes \cup {Socket, Free}]
<1> USE DEF Inv, TypeOK
<1>0. call[k].name \in Names /\ (Midway(k) => call[k].tag \in Tags)
  BY HandleReplies DEF Asking, Midway
<1>1. CASE Fails(k) \/ Look(k) \/ Read(k) \/ AwaitData(k) \/ WriteFails(k)
  BY <1>1 DEF Fails, Look, Read, AwaitData, WriteFails
<1>2. CASE Open(k)
  BY <1>0, <1>2, FileAtType DEF Open, CanOpen
<1>3. CASE Release(k)
  BY <1>3 DEF Release
<1>4. ASSUME NEW wrote \in Amounts, Write(k, wrote)
      PROVE  data' \in [Nodes -> Contents] /\ UNCHANGED <<dirent, fdUse>>
  <2>1. call[k].tag \in Contents /\ "torn" \in Contents
    BY <1>0, <1>4 DEF Write, Midway, Contents, FileData
  <2>2. FileAt(call[k].name) \in Nodes
    BY <1>0, <1>4, FileAtType DEF Write, CanOpen
  <2> QED BY <1>4, <2>1, <2>2 DEF Write
<1>5. ASSUME NEW name, NEW content \in Contents, Create(k, name, content)
      PROVE  /\ dirent' \in [Names -> Nodes \cup {None}]
             /\ data' \in [Nodes -> Contents] /\ UNCHANGED fdUse
  BY <1>5 DEF Create
<1>6. CASE Mknod(k) \/ Mkdir(k)
  BY <1>0, <1>5, <1>6 DEF Mknod, Mkdir, Contents, FileData
<1>7. CASE Symlink(k)
  BY <1>0, <1>5, <1>7 DEF Symlink, Contents
<1>8. CASE Link(k) \/ Remove(k) \/ Rename(k)
  BY <1>0, <1>8 DEF Link, Remove, Rename
<1>9. CASE Truncate(k)
  BY <1>0, <1>9, FileAtType DEF Truncate, Contents, FileData
<1> QED BY <1>1, <1>2, <1>3, <1>4, <1>6, <1>7, <1>8, <1>9 DEF Handle

LEMMA InvInit == Init => Inv
<1>1. NoCall \in [st : States, op : Ops, name : Names \cup {None}, to : Names \cup {None},
                  tag : Tags \cup {None}, got : Amounts, res : {"ok", "error"}]
  BY DEF NoCall, States, Ops, OnePath, Amounts
<1>2. NoCall.st = "idle"
  BY DEF NoCall
<1> QED BY <1>1, <1>2 DEF Init, Inv, TypeOK, Asking, Midway, Contents, FileData

LEMMA InvStep == Inv /\ [Next]_serverVars => Inv'
<1>1. ASSUME Inv, UNCHANGED serverVars PROVE Inv'
  BY <1>1 DEF serverVars, Inv, TypeOK, Asking, Midway
<1>2. ASSUME Inv, NEW k \in Calls, Handle(k) PROVE Inv'
  BY <1>2, HandleCalls, HandleFiles DEF Inv, TypeOK, CallKept
<1>3. ASSUME Inv, NEW k \in Calls, Network(k) PROVE Inv'
  BY <1>3, NetworkCalls DEF Inv, TypeOK, CallKept
<1> QED BY <1>1, <1>2, <1>3 DEF Next

LEMMA Invariance == Spec => []Inv
BY InvInit, InvStep, PTL DEF Spec

(* The server keeps its types for any number of calls, names, nodes and     *)
(* descriptors: whatever the handlers do, a name stands for a node of the   *)
(* server's file system or for none, and a descriptor that is open is open  *)
(* on one (the rxc_rxc_* handlers).                                         *)
THEOREM TypeCorrect == Spec => []TypeOK
BY Invariance, PTL DEF Inv

-----------------------------------------------------------------------------
(* The handlers that report an error have changed no name, no descriptor    *)
(* but the one a release closed, and no file but that of a write whose data *)
(* came in only in part.                                                    *)
ErrorKeeps(k) ==
  call[k].st # "done" /\ call'[k].st = "done" /\ call'[k].res = "error" =>
    /\ UNCHANGED dirent
    /\ fdUse' # fdUse => call[k].op = "release"
    /\ \A d \in Nodes : data'[d] # data[d] =>
         /\ call[k].op = "write" /\ call[k].got = "part"
         /\ d = FileAt(call[k].name) /\ data'[d] = "torn"

LEMMA HandlerErrs ==
  ASSUME Inv, NEW k \in Calls, Handle(k)
  PROVE  ErrorKeeps(k)
<1> SUFFICES ASSUME call[k].st # "done", call'[k].st = "done", call'[k].res = "error"
             PROVE  ErrorKeeps(k)
  BY DEF ErrorKeeps
<1>1. ~Reply(k, "ok")
  BY ReplyCalls
<1>2. ASSUME NEW wrote \in Amounts, Write(k, wrote) PROVE ErrorKeeps(k)
  <2>1. call[k].got # "all" /\ call[k].op = "write" /\ call[k].got \in Amounts
    BY <1>1, <1>2 DEF Write, Inv, TypeOK, Asking, Midway
  <2>2. CASE wrote = "part"
    BY <1>2, <2>1, <2>2 DEF Write, ErrorKeeps, Amounts, Inv, TypeOK
  <2>3. CASE wrote = "none"
    BY <1>2, <2>1, <2>3 DEF Write, ErrorKeeps, Amounts, Inv, TypeOK
  <2> QED BY <1>2, <2>1, <2>2, <2>3 DEF Amounts, Write
<1>3. CASE Fails(k) \/ Release(k) \/ WriteFails(k)
  BY <1>1, <1>3 DEF Fails, Release, Serves, WriteFails, ErrorKeeps
<1>4. ~AwaitData(k)
  BY DEF AwaitData, Inv, TypeOK
<1> QED BY <1>1, <1>2, <1>3, <1>4
        DEF Handle, Look, Open, Read, Mknod, Mkdir, Symlink, Create, Link, Remove, Rename,
            Truncate

(* For every mix of calls, a call that ends in an error has left names,     *)
(* descriptors and files as they were, but for the descriptor of a release  *)
(* and the file of a write whose data came in only in part (the rxc_rxc_*   *)
(* handlers).                                                               *)
THEOREM ErrorsHarmless == Spec => ErrorsLeaveFiles
<1>1. ASSUME Inv, NEW k \in Calls, Handle(k) \/ Network(k), NEW j \in Calls
      PROVE  ErrorKeeps(j)
  <2>1. CallKept(k)
    BY <1>1, HandleCalls, NetworkCalls
  <2>2. CASE j = k
    BY <1>1, <2>2, HandlerErrs, NetworkCalls DEF ErrorKeeps
  <2>3. CASE j # k
    BY <2>1, <2>3 DEF CallKept, ErrorKeeps
  <2> QED BY <2>2, <2>3
<1>2. Inv /\ [Next]_serverVars => [\A k \in Calls : ErrorKeeps(k)]_serverVars
  BY <1>1 DEF Next
<1> QED BY <1>2, Invariance, PTL DEF Spec, ErrorsLeaveFiles, ErrorKeeps
=============================================================================
