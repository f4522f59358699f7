------------------------------ MODULE AfsServer ------------------------------
(***************************************************************************)
(* The server of the remote file system in src/fuse/examples/l-fuse: the   *)
(* rxc_rxc_* handlers over the server's own file system and descriptor     *)
(* table.  The server's Rx threads are cooperative (liblwp), so a handler  *)
(* runs without interruption except where it waits for the client's data   *)
(* (rx_Read in the write handler).  Files are one block at offset 0; the   *)
(* system calls are external and modelled by what they do to names, nodes  *)
(* and descriptors.                                                        *)
(***************************************************************************)
EXTENDS Naturals, FiniteSets

CONSTANTS
  Calls,     \* slots for the calls clients have in progress
  Names,     \* the paths under /afs
  Nodes,     \* inodes of the server's file system
  Tags,      \* contents a write can give a file
  MaxFd,     \* the server's descriptor limit
  Workers,   \* Rx threads of the server; rx_StartServer(1) makes it one
  Visible,   \* the names IsAllowedPath lets getattr see
  None,      \* no node, no argument
  Socket,    \* what the descriptor of the Rx socket is open on
  Free,      \* a descriptor that is not open
  Asked      \* bound: the requests clients make

Fds == 1..MaxFd

ASSUME ServerAssumption ==
  /\ IsFiniteSet(Calls)
  /\ MaxFd \in Nat \ {0}
  /\ Workers \in Nat \ {0}
  /\ Visible \subseteq Names
  /\ {None, Socket, Free} \cap Nodes = {}
  /\ None # Free /\ Socket # Free /\ None # Socket
  /\ {"dir", "empty", "torn"} \cap (Names \cup Tags) = {}
  /\ Names \cap Tags = {}

VARIABLES
  dirent,  \* the node a name stands for
  data,    \* what a node holds: "dir", a link's target, or a file's content
  fdUse,   \* what a descriptor of the server is open on
  call     \* the calls: request, progress, reply

serverVars == <<dirent, data, fdUse, call>>

-----------------------------------------------------------------------------
(* "attr" stands for chmod, utime and statfs, "sync" for flush and fsync.   *)
OnePath == {"getattr", "attr", "chown", "readlink", "getdir", "open", "release",
            "read", "sync", "mknod", "mkdir", "unlink", "rmdir", "truncate"}
TwoPaths == {"symlink", "link", "rename"}
Ops == OnePath \cup TwoPaths \cup {"write"}

Requests == [op : OnePath, name : Names, to : {None}, tag : {None}]
       \cup [op : TwoPaths, name : Names, to : Names, tag : {None}]
       \cup [op : {"write"}, name : Names, to : {None}, tag : Tags]

ASSUME AskedAssumption == Asked \subseteq Requests

FileData == {"empty", "torn"} \cup Tags
Contents == {"dir"} \cup Names \cup FileData
(* What rx_Read got of a write's data; what pwrite wrote; what a read sent. *)
Amounts == {"none", "part", "all"}
States == {"idle", "sent", "receiving", "received", "done"}

IsDir(n) == dirent[n] \in Nodes /\ data[dirent[n]] = "dir"
IsLink(n) == dirent[n] \in Nodes /\ data[dirent[n]] \in Names

(* System calls follow a link, here through one link at most. *)
Target(n) == IF IsLink(n) THEN data[dirent[n]] ELSE n
FileAt(n) ==
  LET node == dirent[Target(n)]
  IN IF node \in Nodes /\ data[node] \in FileData THEN node ELSE None

InUse == {dirent[n] : n \in Names} \cup {fdUse[f] : f \in Fds}
FreeFds == {f \in Fds : fdUse[f] = Free}
Alive == \E f \in Fds : fdUse[f] = Socket
CanOpen(n) == FileAt(n) # None /\ FreeFds # {}

Midway(k) == call[k].st \in {"receiving", "received"}

(* A worker takes up call k: the server hears its socket and has a thread   *)
(* that is not waiting for a client's data.                                 *)
Serves(k, ops) ==
  /\ call[k].st = "sent" /\ call[k].op \in ops
  /\ Alive
  /\ Cardinality({j \in Calls : Midway(j)}) < Workers

NoCall == [st |-> "idle", op |-> "sync", name |-> None, to |-> None, tag |-> None,
           got |-> "none", res |-> "ok"]

(* The handler returns r; the request is over. *)
Reply(k, r) == call' = [call EXCEPT ![k] = [NoCall EXCEPT !.st = "done", !.res = r]]

Init ==
  /\ dirent = [n \in Names |-> None]
  /\ data = [d \in Nodes |-> "empty"]
  /\ fdUse = [f \in Fds |-> IF f = 1 THEN Socket ELSE Free]
  /\ call = [k \in Calls |-> NoCall]

-----------------------------------------------------------------------------
(* The network's side of a call: its request arrives, or is lost; a write's *)
(* data comes in, as far as it does; its end.                               *)
Arrive(k, q) ==
  /\ call[k].st = "idle"
  /\ call' = [call EXCEPT ![k] = [st |-> "sent", op |-> q.op, name |-> q.name, to |-> q.to,
                                  tag |-> q.tag, got |-> "none", res |-> "ok"]]
  /\ UNCHANGED <<dirent, data, fdUse>>

DataIn(k, n) ==
  /\ call[k].st = "receiving"
  /\ call' = [call EXCEPT ![k].st = "received", ![k].got = n]
  /\ UNCHANGED <<dirent, data, fdUse>>

(* The client has its reply, or the call died on the way. *)
Finish(k) ==
  /\ call[k].st \in {"sent", "done"}
  /\ call' = [call EXCEPT ![k] = NoCall]
  /\ UNCHANGED <<dirent, data, fdUse>>

-----------------------------------------------------------------------------
(* The handler's system call fails: permissions, a missing or existing      *)
(* name, no space, an I/O error.  The handlers of flush and fsync make no   *)
(* system call and always return 0.                                         *)
Fails(k) ==
  /\ Serves(k, Ops \ {"write", "release", "sync"})
  /\ Reply(k, "error")
  /\ UNCHANGED <<dirent, data, fdUse>>

(* The handlers that only look at the files, or at attributes the model     *)
(* leaves out, and when their system call can succeed.                      *)
GetAttr(k) ==
  Serves(k, {"getattr"}) /\ call[k].name \in Visible /\ dirent[call[k].name] # None
GetDir(k) == Serves(k, {"getdir"}) /\ IsDir(Target(call[k].name))
SetAttr(k) ==
  \/ Serves(k, {"attr"}) /\ dirent[Target(call[k].name)] # None
  \/ Serves(k, {"chown"}) /\ dirent[call[k].name] # None
ReadLink(k) == Serves(k, {"readlink"}) /\ IsLink(call[k].name)
Sync(k) == Serves(k, {"sync"})

Look(k) ==
  /\ GetAttr(k) \/ GetDir(k) \/ SetAttr(k) \/ ReadLink(k) \/ Sync(k)
  /\ Reply(k, "ok")
  /\ UNCHANGED <<dirent, data, fdUse>>

(* rxc_rxc_open: the descriptor stays open in the server. *)
Open(k) ==
  /\ Serves(k, {"open"})
  /\ CanOpen(call[k].name)
  /\ LET fd == CHOOSE f \in FreeFds : \A g \in FreeFds : f <= g
     IN fdUse' = [fdUse EXCEPT ![fd] = FileAt(call[k].name)]
  /\ Reply(k, "ok")
  /\ UNCHANGED <<dirent, data>>

(* A fault: release closes its handle without the test for 0. *)
ReleaseUnchecked(k) ==
  /\ Serves(k, {"release"})
  /\ \E fh \in {0} \cup (Fds \ FreeFds) :
       fdUse' = [f \in Fds \cup {fh} |-> IF f = fh THEN Free ELSE fdUse[f]]
  /\ Reply(k, "ok")
  /\ UNCHANGED <<dirent, data>>

(* rxc_rxc_release: fi->fh is what the client's uninitialised my_file_info  *)
(* happened to hold (afsfuse_client.c:381-388), so any value.  A close that *)
(* fails on an open descriptor has given it up all the same.                *)
Release(k) ==
  /\ Serves(k, {"release"})
  /\ \E fh \in 0..MaxFd + 1 :
       \/ fh = 0 /\ Reply(k, "ok") /\ UNCHANGED fdUse
       \/ /\ fh \in Fds \ FreeFds
          /\ fdUse' = [fdUse EXCEPT ![fh] = Free]
          /\ \E r \in {"ok", "error"} : Reply(k, r)
       \/ fh \notin {0} \cup (Fds \ FreeFds) /\ Reply(k, "error") /\ UNCHANGED fdUse
  /\ UNCHANGED <<dirent, data>>

(* rxc_rxc_read opens the path anew, preads, and closes.  Its count is      *)
(* "nbytes = pread(...) == -1", 0 when pread succeeds, so a successful read *)
(* sends the length 0 and no data.  A failed open shows up at pread.        *)
Read(k) ==
  /\ Serves(k, {"read"})
  /\ CanOpen(call[k].name)
  /\ Reply(k, "ok")
  /\ UNCHANGED <<dirent, data, fdUse>>

(* rxc_rxc_write: a thread waits for the data ... *)
AwaitData(k) ==
  /\ Serves(k, {"write"})
  /\ call' = [call EXCEPT ![k].st = "receiving"]
  /\ UNCHANGED <<dirent, data, fdUse>>

(* A fault: pwrite(fd, buffer, length, offset), whatever rx_Read got. *)
WriteWholeBuffer(k, wrote) ==
  /\ call[k].st = "received"
  /\ CanOpen(call[k].name)
  /\ data' = [data EXCEPT ![FileAt(call[k].name)] = call[k].tag]
  /\ Reply(k, IF call[k].got = "all" THEN "ok" ELSE "error")
  /\ UNCHANGED <<dirent, fdUse>>

(* A fault: the handler waits for good when its open failed. *)
WriteHangs(k) == call[k].st = "received" /\ UNCHANGED serverVars

(* ... then opens the path, writes what it got, even of a call that failed, *)
(* and closes.  Only a negative pwrite is an error: a short one is not.     *)
Write(k, wrote) ==
  /\ call[k].st = "received"
  /\ CanOpen(call[k].name)
  /\ wrote = "all" => call[k].got = "all"
  /\ wrote = "none" <=> call[k].got = "none"
  /\ data' = [data EXCEPT ![FileAt(call[k].name)] =
                CASE wrote = "all"  -> call[k].tag
                  [] wrote = "part" -> "torn"
                  [] OTHER          -> @]
  /\ Reply(k, IF call[k].got = "all" THEN "ok" ELSE "error")
  /\ UNCHANGED <<dirent, fdUse>>

WriteFails(k) ==
  /\ call[k].st = "received"
  /\ Reply(k, "error")
  /\ UNCHANGED <<dirent, data, fdUse>>

-----------------------------------------------------------------------------
(* mknod, mkdir, symlink: a new node under an unused name.  symlink keeps   *)
(* the translated path of its first argument as the link's target.          *)
Create(k, name, content) ==
  /\ dirent[name] = None
  /\ \E d \in Nodes \ InUse :
       /\ dirent' = [dirent EXCEPT ![name] = d]
       /\ data' = [data EXCEPT ![d] = content]
  /\ Reply(k, "ok")
  /\ UNCHANGED fdUse

Mknod(k)   == Serves(k, {"mknod"})   /\ Create(k, call[k].name, "empty")
Mkdir(k)   == Serves(k, {"mkdir"})   /\ Create(k, call[k].name, "dir")
Symlink(k) == Serves(k, {"symlink"}) /\ Create(k, call[k].to, call[k].name)

Link(k) ==
  LET from == call[k].name
      to == call[k].to
  IN /\ Serves(k, {"link"})
     /\ dirent[from] # None /\ ~IsDir(from) /\ dirent[to] = None
     /\ dirent' = [dirent EXCEPT ![to] = dirent[from]]
     /\ Reply(k, "ok")
     /\ UNCHANGED <<data, fdUse>>

(* unlink takes files and links, rmdir directories. *)
Remove(k) ==
  LET n == call[k].name
  IN /\ Serves(k, {"unlink", "rmdir"})
     /\ dirent[n] # None
     /\ IsDir(n) <=> call[k].op = "rmdir"
     /\ dirent' = [dirent EXCEPT ![n] = None]
     /\ Reply(k, "ok")
     /\ UNCHANGED <<data, fdUse>>

Rename(k) ==
  LET from == call[k].name
      to == call[k].to
  IN /\ Serves(k, {"rename"})
     /\ dirent[from] # None
     /\ dirent[to] # None => (IsDir(from) <=> IsDir(to))
     /\ dirent' = IF dirent[from] = dirent[to] THEN dirent
                  ELSE [dirent EXCEPT ![to] = dirent[from], ![from] = None]
     /\ Reply(k, "ok")
     /\ UNCHANGED <<data, fdUse>>

Truncate(k) ==
  /\ Serves(k, {"truncate"})
  /\ FileAt(call[k].name) # None
  /\ data' = [data EXCEPT ![FileAt(call[k].name)] = "empty"]
  /\ Reply(k, "ok")
  /\ UNCHANGED <<dirent, fdUse>>

-----------------------------------------------------------------------------
Handle(k) ==
  \/ Fails(k) \/ Look(k) \/ Open(k) \/ Release(k) \/ Read(k)
  \/ AwaitData(k) \/ WriteFails(k) \/ \E wrote \in Amounts : Write(k, wrote)
  \/ Mknod(k) \/ Mkdir(k) \/ Symlink(k) \/ Link(k)
  \/ Remove(k) \/ Rename(k) \/ Truncate(k)

Network(k) ==
  \/ \E q \in Asked : Arrive(k, q)
  \/ \E n \in Amounts : DataIn(k, n)
  \/ Finish(k)

Next == \E k \in Calls : Handle(k) \/ Network(k)

Spec == Init /\ [][Next]_serverVars

(* Rx queues its calls, so a call that can be served again and again is     *)
(* served; the wait for a write's data ends with the data or with the       *)
(* connection's dead time.                                                  *)
FairSpec ==
  Spec /\ \A k \in Calls : /\ SF_serverVars(Handle(k))
                           /\ WF_serverVars(\E n \in Amounts : DataIn(k, n))
-----------------------------------------------------------------------------
TypeOK ==
  /\ dirent \in [Names -> Nodes \cup {None}]
  /\ data \in [Nodes -> Contents]
  /\ fdUse \in [Fds -> Nodes \cup {Socket, Free}]
  /\ call \in [Calls -> [st : States, op : Ops, name : Names \cup {None},
                         to : Names \cup {None}, tag : Tags \cup {None},
                         got : Amounts, res : {"ok", "error"}]]

(* An error reply means the call changed no name and no file, but for a     *)
(* write whose data came in only in part: that file is left torn.  Only a   *)
(* release that failed has changed the descriptors.                         *)
ErrorsLeaveFiles ==
  [][\A k \in Calls :
       call[k].st # "done" /\ call'[k].st = "done" /\ call'[k].res = "error" =>
         /\ UNCHANGED dirent
         /\ fdUse' # fdUse => call[k].op = "release"
         /\ \A d \in Nodes : data'[d] # data[d] =>
              /\ call[k].op = "write" /\ call[k].got = "part"
              /\ d = FileAt(call[k].name) /\ data'[d] = "torn"]_serverVars

(* Every call the server is asked is answered or given up, however the      *)
(* writes' data trickle in, as long as the server hears its socket.         *)
CallsAnswered ==
  \A k \in Calls :
    call[k].st \in {"sent", "receiving"} ~> (call[k].st \in {"done", "idle"} \/ ~Alive)

(* afsfuse.xg:16-18 guarantees that SAMPLE_MAX requests are executed in     *)
(* parallel: a request that arrives while fewer are being handled can be    *)
(* taken up at once, whatever the others wait for.                          *)
SampleMax == 2
RequestsInParallel ==
  \A k \in Calls :
    /\ call[k].st = "sent" /\ Alive
    /\ Cardinality({j \in Calls : Midway(j)}) < SampleMax
    => ENABLED Handle(k)

(* afsfuse_client.c:191 takes a read without data and without an error for  *)
(* the end of the file: a successful read of a file with data sends some.   *)
EofMeansEmpty ==
  [][\A k \in Calls :
       /\ call[k].st = "sent" /\ call'[k].st = "done"
       /\ call[k].op = "read" /\ call'[k].res = "ok"
       /\ data[FileAt(call[k].name)] \in Tags
       => call'[k].got # "none"]_serverVars
=============================================================================
