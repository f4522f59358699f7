------------------------------ MODULE AfsMount ------------------------------
(***************************************************************************)
(* Client and server of the remote file system together: the callbacks of  *)
(* module AfsClient make the calls that module AfsServer handles.  Between *)
(* them is Rx (external), one line per channel: it carries a request and a *)
(* write's data, late or never, and an answer only to the call that asked. *)
(* A client gives a call up when it likes (the dead time); the server may  *)
(* carry it out all the same.                                              *)
(***************************************************************************)
EXTENDS Naturals, FiniteSets

CONSTANTS
  Mounts, Threads, Channels, MountOf, ConnOf, Free, Lost,       \* AfsClient
  Names, Nodes, Tags, MaxFd, Workers, Visible, None, Socket,    \* AfsServer
  Asked        \* bound: the requests programs make, of AfsServer too

VARIABLES
  pc, op, sem, chan, ret,     \* the clients, see AfsClient
  dirent, data, fdUse, call,  \* the server, see AfsServer; a call per channel
  args,    \* the request each thread's callback is for
  line,    \* what is under way on each channel, and for whom
  served   \* history: what the server made of the call each thread waits for

C == INSTANCE AfsClient
S == INSTANCE AfsServer WITH Calls <- Channels

(* The assumptions of both modules, which INSTANCE leaves behind, and that   *)
(* programs make only requests the server knows.                            *)
ASSUME MountAssumption ==
  /\ Asked \subseteq S!Requests /\ None \notin S!Requests
  /\ MountOf \in [Threads -> Mounts]
  /\ ConnOf \in [Channels -> Mounts]
  /\ Free \notin Threads /\ Lost \notin Threads /\ Free # Lost
  /\ IsFiniteSet(Channels)
  /\ MaxFd \in Nat \ {0} /\ Workers \in Nat \ {0}
  /\ Visible \subseteq Names
  /\ {None, Socket, Free} \cap Nodes = {}
  /\ None # Free /\ Socket # Free /\ None # Socket
  /\ {"dir", "empty", "torn"} \cap (Names \cup Tags) = {}
  /\ Names \cap Tags = {}

clientVars == <<pc, op, sem, chan, ret>>
serverVars == <<dirent, data, fdUse, call>>
mountVars == <<clientVars, serverVars, args, line, served>>

-----------------------------------------------------------------------------
(* req: a request that has not reached the server; live: the client still   *)
(* waits for this call; full: it has given Rx all of a write's data.        *)
Silent == [req |-> None, live |-> FALSE, full |-> FALSE]
Quiet(c) == line[c].req = None /\ call[c].st = "idle"

CallbackFor(q) == IF q.op \in C!Split \cup {"getdir"} THEN q.op ELSE "rpc"

(* The server's answer r to the call thread t waits for. *)
Answered(t, r) ==
  \E c \in Channels :
    chan[c] = t /\ line[c].live /\ call[c].st = "done" /\ call[c].res = r

(* A line is live until its thread ends the call or leaves it behind. *)
HangUp ==
  line' = [c \in Channels |-> IF chan'[c] = chan[c] THEN line[c]
                              ELSE [line[c] EXCEPT !.live = FALSE]]

Init ==
  /\ C!Init
  /\ S!Init
  /\ args = [t \in Threads |-> None]
  /\ line = [c \in Channels |-> Silent]
  /\ served = [t \in Threads |-> "none"]

-----------------------------------------------------------------------------
(* The clients. *)
Request(t, q) ==
  /\ C!Request(t, CallbackFor(q))
  /\ args' = [args EXCEPT ![t] = q]
  /\ UNCHANGED <<serverVars, line, served>>

Return(t) ==
  /\ C!RelConnection(t)
  /\ args' = [args EXCEPT ![t] = None]
  /\ served' = [served EXCEPT ![t] = "none"]
  /\ UNCHANGED <<serverVars, line>>

(* The request is given to Rx.  The server refuses a new call on a channel  *)
(* where it has not done with an earlier one (BUSY).                        *)
Issue(t) ==
  \E c \in Channels :
    /\ chan[c] = t
    /\ line' = IF Quiet(c) /\ ~line[c].live
               THEN [line EXCEPT ![c] = [req |-> args[t], live |-> TRUE, full |-> FALSE]]
               ELSE line

StubSends(t) ==
  /\ pc[t] = "stub"
  /\ Issue(t)
  /\ UNCHANGED <<clientVars, serverVars, args, served>>

(* At throwerror Rx has something against the call: the server refused it   *)
(* or the dead time is over.  Only of a write's call that was ended may     *)
(* rx_Error say otherwise.                                                  *)
WriteEnded(t) == op[t] = "write" /\ \A c \in Channels : chan[c] # t

(* Steps of a callback that need nothing of the server. *)
Proceed(t) ==
  /\ \/ C!GetConnection(t) /\ UNCHANGED line
     \/ C!NewCall(t) /\ UNCHANGED line
     \/ C!Start(t, "ok") /\ Issue(t)
     \/ C!Filler(t) /\ UNCHANGED line
     \/ (C!Throw(t, "error") \/ (WriteEnded(t) /\ C!Throw(t, "ok"))) /\ HangUp
     \/ /\ op[t] = "write"
        /\ \/ C!XdrLength(t, "ok") /\ UNCHANGED line
           \/ /\ C!Transfer(t, "ok")
              /\ line' = [c \in Channels |->
                            IF chan[c] = t /\ line[c].live THEN [line[c] EXCEPT !.full = TRUE]
                            ELSE line[c]]
  /\ UNCHANGED <<serverVars, args, served>>

(* Steps that take in the server's answer.  A read is answered with no data *)
(* (see Read in AfsServer).                                                 *)
TakeAnswer(t) ==
  /\ Answered(t, "ok")
  /\ \/ C!Stub(t, "ok") \/ C!EndCall(t, "ok")
     \/ op[t] # "write" /\ C!XdrLength(t, "ok")
     \/ op[t] = "getattr" /\ C!Transfer(t, "ok")
     \/ op[t] = "read" /\ C!Transfer(t, "zero")
  /\ HangUp
  /\ UNCHANGED <<serverVars, args, served>>

(* Steps of a call that fails: the server refused it, or the dead time is   *)
(* over, with the server's answer lost, to come, or never to come.          *)
TimeOut(t) ==
  /\ \/ C!Stub(t, "error") \/ C!Start(t, "error") \/ C!XdrLength(t, "error")
     \/ C!Transfer(t, "zero") \/ C!EndCall(t, "error")
  /\ HangUp
  /\ UNCHANGED <<serverVars, args, served>>

-----------------------------------------------------------------------------
(* The network and the server. *)
Deliver(c) ==
  /\ line[c].req # None
  /\ S!Arrive(c, line[c].req)
  /\ line' = [line EXCEPT ![c].req = None]
  /\ UNCHANGED <<clientVars, args, served>>

Lose(c) ==
  /\ line[c].req # None
  /\ line' = [line EXCEPT ![c].req = None]
  /\ UNCHANGED <<clientVars, serverVars, args, served>>

DeliverData(c) ==
  /\ \E n \in S!Amounts : S!DataIn(c, n) /\ (n = "all" => line[c].full)
  /\ UNCHANGED <<clientVars, args, line, served>>

(* The server forgets a call: its client has the answer or hung up, or the  *)
(* call died before a worker took it up.                                    *)
Forget(c) ==
  /\ ~(line[c].live /\ call[c].st = "done")
  /\ S!Finish(c)
  /\ UNCHANGED <<clientVars, args, line, served>>

Serve(c) ==
  /\ S!Handle(c)
  /\ served' = IF line[c].live /\ call'[c].st = "done"
               THEN [served EXCEPT ![chan[c]] = call'[c].res] ELSE served
  /\ UNCHANGED <<clientVars, args, line>>

-----------------------------------------------------------------------------
Next ==
  \/ \E t \in Threads :
       \/ \E q \in Asked : Request(t, q)
       \/ StubSends(t) \/ Proceed(t) \/ TakeAnswer(t) \/ TimeOut(t) \/ Return(t)
  \/ \E c \in Channels : Deliver(c) \/ Lose(c) \/ DeliverData(c) \/ Forget(c) \/ Serve(c)

Spec == Init /\ [][Next]_mountVars

-----------------------------------------------------------------------------
MountTypeOK ==
  /\ C!TypeOK
  /\ S!TypeOK
  /\ args \in [Threads -> Asked \cup {None}]
  /\ line \in [Channels -> [req : Asked \cup {None}, live : BOOLEAN, full : BOOLEAN]]
  /\ served \in [Threads -> {"none", "ok", "error"}]

InFlight(c) ==
  line[c].req # None \/ call[c].st \in {"sent", "receiving", "received"}

(* What is under way for a waiting client is what that client's callback    *)
(* asked for, and a mount waits for one call at a time.                     *)
CallsMatched ==
  /\ \A c \in Channels : line[c].live =>
       /\ chan[c] \in Threads
       /\ line[c].req \in {None, args[chan[c]]}
       /\ call[c].st \in {"sent", "receiving", "received"} =>
            call[c].op = args[chan[c]].op
  /\ \A c, d \in Channels :
       line[c].live /\ line[d].live /\ ConnOf[c] = ConnOf[d] => c = d

(* A mount carries each request out at most once, and one it reports as     *)
(* done exactly once: xmp_write and the stubs report success only with the  *)
(* server's answer to their own call, whatever calls were given up before.  *)
Pending(t) == pc[t] \in {"lock", "newcall"} \/ \E c \in Channels : chan[c] = t
Want == [t \in Threads |->
           CASE pc[t] = "idle" -> "idle"
             [] pc[t] # "idle" /\ served[t] = "ok" -> "done"
             [] pc[t] # "idle" /\ served[t] = "error" -> "refused"
             [] pc[t] # "idle" /\ served[t] = "none" /\ Pending(t) -> "asked"
             [] OTHER -> "failed"]
Late == {c \in Channels : ~line[c].live /\ InFlight(c)}
Answer == [t \in Threads |-> IF pc[t] = "idle" THEN ret[t] ELSE "none"]
Remote == INSTANCE RemoteCalls
            WITH Tickets <- Channels, files <- <<dirent, data>>,
                 want <- Want, late <- Late, answer <- Answer
MountSpec == Remote!Spec
=============================================================================
