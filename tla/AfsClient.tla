------------------------------ MODULE AfsClient ------------------------------
(***************************************************************************)
(* The client of the remote file system in src/fuse/examples/l-fuse.  FUSE *)
(* runs the xmp_* callbacks on several threads; every callback takes the   *)
(* one Rx connection of its process with a semaphore, makes one call on it *)
(* and gives the connection back.  Rx (external) lets a connection carry a *)
(* fixed number of calls: rx_NewCall takes a free channel or sleeps,       *)
(* rx_EndCall frees it.  What the network and the server do to a call is a *)
(* parameter of the actions: "ok" or "error".                              *)
(***************************************************************************)
EXTENDS Naturals

CONSTANTS
  Mounts,     \* client processes, one mounted file system each
  Threads,    \* FUSE threads of all the processes
  Channels,   \* Rx call channels of all the connections
  MountOf,    \* the process a thread runs in
  ConnOf,     \* the process whose connection a channel belongs to
  Free,       \* a channel without a call
  Lost        \* a channel whose call nobody will ever end

ASSUME ClientAssumption ==
  /\ MountOf \in [Threads -> Mounts]
  /\ ConnOf \in [Channels -> Mounts]
  /\ Free \notin Threads
  /\ Lost \notin Threads
  /\ Free # Lost

VARIABLES
  pc,    \* where each thread is in its callback
  op,    \* the callback it runs
  sem,   \* semlock of each process
  chan,  \* the thread whose call a channel carries
  ret    \* what the callback hands back to FUSE

vars == <<pc, op, sem, chan, ret>>

-----------------------------------------------------------------------------
(* The callbacks of xmp_oper.  "rpc" stands for the seventeen that make one *)
(* call through a generated stub and return what the stub returns.          *)
Split == {"getattr", "read", "write"}
Ops == Split \cup {"getdir", "rpc"}

InCall  == {"stub", "start", "length", "data", "end"}
Holding == InCall \cup {"newcall", "filler", "fail", "release"}
Labels  == Holding \cup {"idle", "lock"}
Outcomes == {"ok", "error"}
(* 0 is success for most callbacks ("ok"), but it tells FUSE "no byte" when *)
(* read or write return it ("zero"); "ok" is then a positive byte count.    *)
Results == {"none", "ok", "zero", "error"}

Goto(t, l)   == pc' = [pc EXCEPT ![t] = l]
Return(t, r) == ret' = [ret EXCEPT ![t] = r]
Disposes(t, x) == chan' = [c \in Channels |-> IF chan[c] = t THEN x ELSE chan[c]]

Init ==
  /\ pc = [t \in Threads |-> "idle"]
  /\ op = [t \in Threads |-> "rpc"]
  /\ sem = [m \in Mounts |-> 1]
  /\ chan = [c \in Channels |-> Free]
  /\ ret = [t \in Threads |-> "none"]

-----------------------------------------------------------------------------
(* Faults: callbacks as a plausible slip would have left them.  Each stands *)
(* in for the action it is named after when a property is tried out.        *)

(* sem_wait failed and the callback goes on all the same. *)
GetConnectionUnlocked(t) ==
  /\ pc[t] = "lock"
  /\ Goto(t, "newcall")
  /\ UNCHANGED <<op, sem, chan, ret>>

(* xmp_getdir gives the connection back before it fills the directory in. *)
StubReleasesEarly(t, r) ==
  /\ pc[t] = "stub"
  /\ Disposes(t, Free)
  /\ sem' = [sem EXCEPT ![MountOf[t]] = @ + 1]
  /\ Goto(t, IF op[t] = "getdir" THEN "filler" ELSE "idle")
  /\ Return(t, r)
  /\ UNCHANGED op

(* The callback returns from its normal path without rx_EndCall. *)
EndCallForgotten(t, r) ==
  /\ pc[t] = "end"
  /\ Goto(t, "release")
  /\ Return(t, r)
  /\ UNCHANGED <<op, sem, chan>>

(* xmp_write does not look at the result of rx_EndCall, like xmp_read. *)
EndCallUnchecked(t, r) ==
  /\ pc[t] = "end"
  /\ Goto(t, "release")
  /\ Disposes(t, Free)
  /\ IF op[t] = "read" THEN UNCHANGED ret ELSE Return(t, "ok")
  /\ UNCHANGED <<op, sem>>

(* throwerror calls relconnection and falls through to a second one. *)
ThrowReleasesTwice(t, r) ==
  /\ pc[t] = "fail"
  /\ Goto(t, "release")
  /\ Disposes(t, Free)
  /\ sem' = [sem EXCEPT ![MountOf[t]] = @ + 1]
  /\ Return(t, r)
  /\ UNCHANGED op

-----------------------------------------------------------------------------
(* FUSE dispatches a file system request to a thread. *)
Request(t, o) ==
  /\ pc[t] = "idle"
  /\ Goto(t, "lock")
  /\ op' = [op EXCEPT ![t] = o]
  /\ Return(t, "none")
  /\ UNCHANGED <<sem, chan>>

(* getconnection: sem_wait, again when a signal interrupts it.  No other    *)
(* error can come back: main has initialised semlock.                       *)
GetConnection(t) ==
  /\ pc[t] = "lock"
  /\ sem[MountOf[t]] > 0
  /\ sem' = [sem EXCEPT ![MountOf[t]] = @ - 1]
  /\ Goto(t, "newcall")
  /\ UNCHANGED <<op, chan, ret>>

(* rx_NewCall sleeps, with the semaphore held, until a channel is free. *)
NewCall(t) ==
  /\ pc[t] = "newcall"
  /\ \E c \in Channels :
       /\ ConnOf[c] = MountOf[t]
       /\ chan[c] = Free
       /\ chan' = [chan EXCEPT ![c] = t]
  /\ Goto(t, IF op[t] \in Split THEN "start" ELSE "stub")
  /\ UNCHANGED <<op, sem, ret>>

(* A generated stub makes the whole call and ends it. *)
Stub(t, r) ==
  /\ pc[t] = "stub"
  /\ Disposes(t, Free)
  /\ IF op[t] = "getdir" /\ r = "ok"
     THEN Goto(t, "filler") /\ UNCHANGED ret
     ELSE Goto(t, "release") /\ Return(t, r)
  /\ UNCHANGED <<op, sem>>

(* xmp_getdir hands the entries to FUSE with the semaphore still held. *)
Filler(t) ==
  /\ pc[t] = "filler"
  /\ Goto(t, "release")
  /\ Return(t, "ok")
  /\ UNCHANGED <<op, sem, chan>>

(* The answer held no entry: the loop reads through the null pointer of the *)
(* empty array, and the whole process dies, every callback in it.  The file *)
(* system is mounted again with a new semaphore and a new connection.       *)
FillerCrashes(t) ==
  /\ pc[t] = "filler"
  /\ pc' = [u \in Threads |-> IF MountOf[u] = MountOf[t] THEN "idle" ELSE pc[u]]
  /\ ret' = [u \in Threads |-> IF MountOf[u] = MountOf[t] THEN "none" ELSE ret[u]]
  /\ sem' = [sem EXCEPT ![MountOf[t]] = 1]
  /\ chan' = [c \in Channels |-> IF ConnOf[c] = MountOf[t] THEN Free ELSE chan[c]]
  /\ UNCHANGED op

(* Startrxc_*: the request is marshalled into the call. *)
Start(t, r) ==
  /\ pc[t] = "start"
  /\ Goto(t, IF r = "ok" THEN "length" ELSE "fail")
  /\ UNCHANGED <<op, sem, chan, ret>>

(* xdr_long: the length is decoded (getattr, read) or encoded (write). *)
XdrLength(t, r) ==
  /\ pc[t] = "length"
  /\ Goto(t, IF r = "ok" THEN "data" ELSE "fail")
  /\ UNCHANGED <<op, sem, chan, ret>>

(* rx_Read or rx_Write moves n = "ok" (some) or "zero" (no) bytes; xmp_read *)
(* goes on to rx_EndCall in either case.                                    *)
Transfer(t, n) ==
  /\ pc[t] = "data"
  /\ IF op[t] = "read"
     THEN Goto(t, "end") /\ Return(t, n)
     ELSE /\ Goto(t, IF n = "ok" THEN "end" ELSE "fail")
          /\ UNCHANGED ret
  /\ UNCHANGED <<op, sem, chan>>

(* rx_EndCall frees the channel.  xmp_read ignores its result; xmp_write    *)
(* goes to throwerror when it is an error, with the call already ended.     *)
EndCall(t, r) ==
  /\ pc[t] = "end"
  /\ Disposes(t, Free)
  /\ IF op[t] = "write" /\ r = "error"
     THEN Goto(t, "fail") /\ UNCHANGED ret
     ELSE /\ Goto(t, "release")
          /\ IF op[t] = "read" THEN UNCHANGED ret ELSE Return(t, "ok")
  /\ UNCHANGED <<op, sem>>

(* throwerror, when rx_Error(call) says r.  It says "ok" for a call that Rx *)
(* has nothing against, such as one whose request did not fit into the      *)
(* stub's encoding, and may for one that was ended.  xmp_getattr ends the   *)
(* call and answers r; xmp_read and xmp_write do not end it: a call they    *)
(* still have is never ended.  xmp_read answers 0, xmp_write rx_Error.      *)
Throw(t, r) ==
  /\ pc[t] = "fail"
  /\ Goto(t, "release")
  /\ \/ op[t] = "getattr" /\ Disposes(t, Free) /\ Return(t, r)
     \/ op[t] = "read"    /\ Disposes(t, Lost) /\ Return(t, "zero")
     \/ /\ op[t] = "write"
        /\ Disposes(t, Lost)
        /\ Return(t, IF r = "error" THEN "error" ELSE "zero")
  /\ UNCHANGED <<op, sem>>

(* relconnection: sem_post; the callback returns. *)
RelConnection(t) ==
  /\ pc[t] = "release"
  /\ sem' = [sem EXCEPT ![MountOf[t]] = @ + 1]
  /\ Goto(t, "idle")
  /\ UNCHANGED <<op, chan, ret>>

-----------------------------------------------------------------------------
(* The steps of a callback once FUSE has called it. *)
Step(t) ==
  \/ GetConnection(t) \/ NewCall(t) \/ Filler(t) \/ RelConnection(t)
  \/ \E n \in {"ok", "zero"} : Transfer(t, n)
  \/ \E r \in Outcomes :
       \/ Stub(t, r) \/ Start(t, r) \/ XdrLength(t, r) \/ EndCall(t, r) \/ Throw(t, r)

Next == \E t \in Threads :
  Step(t) \/ FillerCrashes(t) \/ \E o \in Ops : Request(t, o)

Spec == Init /\ [][Next]_vars

(* A thread that can run runs; an Rx call ends, with an error after the     *)
(* dead time at the latest.  Nothing makes sem_wait first come, first       *)
(* served, so a waiting thread has no strong fairness; a process need not   *)
(* crash.                                                                   *)
FairSpec == Spec /\ \A t \in Threads : WF_vars(Step(t))
-----------------------------------------------------------------------------
TypeOK ==
  /\ pc \in [Threads -> Labels]
  /\ op \in [Threads -> Ops]
  /\ sem \in [Mounts -> {0, 1}]
  /\ chan \in [Channels -> Threads \cup {Free, Lost}]
  /\ ret \in [Threads -> Results]

(* Between getconnection and relconnection a thread is alone on its         *)
(* process's connection, on every path through every callback, and the      *)
(* semaphore is up exactly when nobody is.                                  *)
MutualExclusion ==
  /\ \A t, u \in Threads :
       pc[t] \in Holding /\ pc[u] \in Holding /\ MountOf[t] = MountOf[u] => t = u
  /\ \A m \in Mounts :
       sem[m] = 0 <=> \E t \in Threads : MountOf[t] = m /\ pc[t] \in Holding

(* A channel that carries a thread's call is of that thread's connection,   *)
(* carries it only while the thread is between rx_NewCall and the end of    *)
(* the call (or at throwerror, which may have to end it), and no thread has *)
(* two: a call never outlives its callback unnoticed.                       *)
ChannelsAccounted ==
  /\ \A c \in Channels : chan[c] \in Threads =>
       ConnOf[c] = MountOf[chan[c]] /\ pc[chan[c]] \in InCall \cup {"fail"}
  /\ \A c, d \in Channels : chan[c] \in Threads /\ chan[c] = chan[d] => c = d
  /\ \A t \in Threads : pc[t] \in InCall => \E c \in Channels : chan[c] = t

Wedged(m) == \A c \in Channels : ConnOf[c] = m => chan[c] = Lost

(* A callback that asks for a call finds a channel free at once, or none    *)
(* will ever be: rx_NewCall sleeps, with the semaphore held, only on a      *)
(* connection all of whose channels failed reads and writes have lost.      *)
NewCallNeverWaits ==
  \A t \in Threads : pc[t] = "newcall" /\ ~Wedged(MountOf[t]) =>
    \E c \in Channels : ConnOf[c] = MountOf[t] /\ chan[c] = Free

(* A thread that got the connection returns from its callback or its        *)
(* process dies, unless every channel of the connection has been lost to    *)
(* failed reads and writes.                                                 *)
HolderReturns ==
  \A t \in Threads :
    pc[t] \in Holding ~> (pc[t] = "idle" \/ Wedged(MountOf[t]))

(* The semaphore implements the connection lock: getconnection and          *)
(* relconnection are Take and Drop of module ConnectionLock, and a crash of *)
(* the process is its Die.                                                  *)
Lock == INSTANCE ConnectionLock
          WITH waiting <- {t \in Threads : pc[t] = "lock"},
               holders <- {t \in Threads : pc[t] \in Holding}
LockSpec == Lock!Spec

(* afsfuse.xg:19 promises at least one request that is handled immediately, *)
(* so a callback that reached rx_NewCall, alone on its connection, gets its *)
(* call sooner or later.                                                    *)
RequestsHandled ==
  \A t \in Threads : pc[t] = "newcall" ~> pc[t] # "newcall"
=============================================================================
