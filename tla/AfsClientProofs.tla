--------------------------- MODULE AfsClientProofs ---------------------------
(***************************************************************************)
(* Theorems about the client, for any number of mounts, threads and        *)
(* channels.  The inductive invariant is the conjunction of the three      *)
(* invariants of module AfsClient: that sem never exceeds 1 needs mutual   *)
(* exclusion, and mutual exclusion needs that sem is 0 while a thread      *)
(* holds the connection.                                                   *)
(***************************************************************************)
EXTENDS AfsClient, TLAPS

(* The actions of one thread, as a case split. *)
LEMMA Steps ==
  ASSUME NEW t \in Threads, Step(t) \/ \E o \in Ops : Request(t, o)
  PROVE  \/ \E o \in Ops : Request(t, o)
         \/ GetConnection(t) \/ NewCall(t) \/ Filler(t) \/ RelConnection(t)
         \/ \E n \in {"ok", "zero"} : Transfer(t, n)
         \/ \E r \in Outcomes : Stub(t, r)
         \/ \E r \in Outcomes : Start(t, r)
         \/ \E r \in Outcomes : XdrLength(t, r)
         \/ \E r \in Outcomes : EndCall(t, r)
         \/ \E r \in Outcomes : Throw(t, r)
BY DEF Step

(* What a step of t may do to the locations: only t's own changes, within   *)
(* Holding unless the step takes or releases the connection.                *)
Moves(t) ==
  /\ \E l \in Labels : pc' = [pc EXCEPT ![t] = l]
  /\ \/ pc[t] = "idle" /\ pc'[t] = "lock" /\ sem' = sem
     \/ /\ pc[t] = "lock" /\ pc'[t] = "newcall"
        /\ sem[MountOf[t]] > 0 /\ sem' = [sem EXCEPT ![MountOf[t]] = @ - 1]
     \/ /\ pc[t] = "release" /\ pc'[t] = "idle"
        /\ sem' = [sem EXCEPT ![MountOf[t]] = @ + 1]
     \/ pc[t] \in Holding /\ pc'[t] \in Holding /\ sem' = sem

(* Every step of a thread moves it in one of the four ways of Moves. *)
LEMMA StepMoves ==
  ASSUME TypeOK, NEW t \in Threads, Step(t) \/ \E o \in Ops : Request(t, o)
  PROVE  Moves(t)
<1> USE DEF TypeOK, Moves, Goto, Labels, Holding, InCall
<1>1. CASE \E o \in Ops : Request(t, o)        BY <1>1 DEF Request
<1>2. CASE GetConnection(t)                    BY <1>2 DEF GetConnection
<1>3. CASE NewCall(t)                          BY <1>3 DEF NewCall
<1>4. CASE Filler(t)                           BY <1>4 DEF Filler
<1>5. CASE \E r \in Outcomes : Throw(t, r)     BY <1>5 DEF Throw
<1>6. CASE RelConnection(t)                    BY <1>6 DEF RelConnection
<1>7. CASE \E n \in {"ok", "zero"} : Transfer(t, n)  BY <1>7 DEF Transfer
<1>8. CASE \E r \in Outcomes : Stub(t, r)      BY <1>8 DEF Stub
<1>9. CASE \E r \in Outcomes : Start(t, r)     BY <1>9 DEF Start
<1>10. CASE \E r \in Outcomes : XdrLength(t, r) BY <1>10 DEF XdrLength
<1>11. CASE \E r \in Outcomes : EndCall(t, r)  BY <1>11 DEF EndCall
<1> QED BY <1>1, <1>2, <1>3, <1>4, <1>5, <1>6, <1>7, <1>8, <1>9, <1>10, <1>11, Steps

-----------------------------------------------------------------------------
(* What a step of t does to the channels: it takes a free one of its own    *)
(* connection, it gives up the ones it has and stops using them, or it      *)
(* leaves them alone while it moves between the steps of one call or        *)
(* outside any call.                                                        *)
Uses(t) ==
  \/ /\ pc[t] = "newcall" /\ pc'[t] \in {"start", "stub"}
     /\ \E c \in Channels : /\ ConnOf[c] = MountOf[t] /\ chan[c] = Free
                            /\ chan' = [chan EXCEPT ![c] = t]
  \/ /\ pc[t] \in InCall \cup {"fail"} /\ pc'[t] \notin InCall
     /\ \E x \in {Free, Lost} : Disposes(t, x)
  \/ /\ chan' = chan
     /\ \/ pc[t] \in InCall /\ pc'[t] \in InCall \cup {"fail"}
        \/ pc[t] \notin InCall \cup {"fail"} /\ pc'[t] \notin InCall

(* Every step of a thread uses the channels in one of those ways. *)
LEMMA StepUses ==
  ASSUME TypeOK, NEW t \in Threads, Step(t) \/ \E o \in Ops : Request(t, o)
  PROVE  Uses(t)
<1> USE DEF TypeOK, Uses, Goto, InCall
<1>1. CASE \E o \in Ops : Request(t, o)        BY <1>1 DEF Request
<1>2. CASE GetConnection(t)                    BY <1>2 DEF GetConnection
<1>3. CASE NewCall(t)                          BY <1>3 DEF NewCall
<1>4. CASE Filler(t)                           BY <1>4 DEF Filler
<1>5. CASE \E r \in Outcomes : Throw(t, r)     BY <1>5 DEF Throw
<1>6. CASE RelConnection(t)                    BY <1>6 DEF RelConnection
<1>7. CASE \E n \in {"ok", "zero"} : Transfer(t, n)  BY <1>7 DEF Transfer
<1>8. CASE \E r \in Outcomes : Stub(t, r)      BY <1>8 DEF Stub
<1>9. CASE \E r \in Outcomes : Start(t, r)     BY <1>9 DEF Start
<1>10. CASE \E r \in Outcomes : XdrLength(t, r) BY <1>10 DEF XdrLength
<1>11. CASE \E r \in Outcomes : EndCall(t, r)  BY <1>11 DEF EndCall
<1> QED BY <1>1, <1>2, <1>3, <1>4, <1>5, <1>6, <1>7, <1>8, <1>9, <1>10, <1>11, Steps

(* Every step leaves the current callback and the result well typed. *)
LEMMA StepAnswers ==
  ASSUME TypeOK, NEW t \in Threads, Step(t) \/ \E o \in Ops : Request(t, o)
  PROVE  op' \in [Threads -> Ops] /\ ret' \in [Threads -> Results]
<1> USE DEF TypeOK, Return, Results, Outcomes
<1>1. CASE \E o \in Ops : Request(t, o)        BY <1>1 DEF Request
<1>2. CASE GetConnection(t)                    BY <1>2 DEF GetConnection
<1>3. CASE NewCall(t)                          BY <1>3 DEF NewCall
<1>4. CASE Filler(t)                           BY <1>4 DEF Filler
<1>5. CASE \E r \in Outcomes : Throw(t, r)     BY <1>5 DEF Throw
<1>6. CASE RelConnection(t)                    BY <1>6 DEF RelConnection
<1>7. CASE \E n \in {"ok", "zero"} : Transfer(t, n)  BY <1>7 DEF Transfer
<1>8. CASE \E r \in Outcomes : Stub(t, r)      BY <1>8 DEF Stub
<1>9. CASE \E r \in Outcomes : Start(t, r)     BY <1>9 DEF Start
<1>10. CASE \E r \in Outcomes : XdrLength(t, r) BY <1>10 DEF XdrLength
<1>11. CASE \E r \in Outcomes : EndCall(t, r)  BY <1>11 DEF EndCall
<1> QED BY <1>1, <1>2, <1>3, <1>4, <1>5, <1>6, <1>7, <1>8, <1>9, <1>10, <1>11, Steps

-----------------------------------------------------------------------------
Inv == TypeOK /\ MutualExclusion /\ ChannelsAccounted

(* The semaphore and the holders agree after every step. *)
LEMMA MutexStep ==
  ASSUME Inv, NEW t \in Threads, Moves(t)
  PROVE  MutualExclusion' /\ pc' \in [Threads -> Labels] /\ sem' \in [Mounts -> {0, 1}]
<1> USE ClientAssumption DEF Inv, TypeOK, MutualExclusion, Moves
<1>0. /\ \A u \in Threads \ {t} : pc'[u] = pc[u]
      /\ pc' \in [Threads -> Labels]
  OBVIOUS
<1>m. MountOf[t] \in Mounts /\ sem[MountOf[t]] \in {0, 1}
  OBVIOUS
<1>1. CASE pc[t] \in Holding <=> pc'[t] \in Holding
  <2>1. sem' = sem
    BY <1>1 DEF Holding, InCall
  <2> QED BY <1>0, <1>1, <2>1
<1>2. CASE pc[t] \notin Holding /\ pc'[t] \in Holding
  <2>1. /\ pc[t] = "lock"
        /\ sem[MountOf[t]] > 0
        /\ sem' = [sem EXCEPT ![MountOf[t]] = @ - 1]
    BY <1>2 DEF Holding, InCall
  <2>2. sem[MountOf[t]] = 1
    BY <1>m, <2>1
  <2>3. sem' = [sem EXCEPT ![MountOf[t]] = 0]
    BY <2>1, <2>2
  <2>4. \A u \in Threads : MountOf[u] = MountOf[t] => pc[u] \notin Holding
    BY <1>m, <2>2
  <2> QED BY <1>0, <1>m, <1>2, <2>3, <2>4
<1>3. CASE pc[t] \in Holding /\ pc'[t] \notin Holding
  <2>1. pc[t] = "release" /\ sem' = [sem EXCEPT ![MountOf[t]] = @ + 1]
    BY <1>3 DEF Holding, InCall
  <2>2. sem[MountOf[t]] = 0
    BY <1>m, <1>3
  <2>3. sem' = [sem EXCEPT ![MountOf[t]] = 1]
    BY <2>1, <2>2
  <2>4. \A u \in Threads \ {t} : MountOf[u] = MountOf[t] => pc[u] \notin Holding
    BY <1>3
  <2> QED BY <1>0, <1>m, <1>3, <2>3, <2>4
<1> QED BY <1>1, <1>2, <1>3

(* The channels stay accounted for after every step. *)
LEMMA ChannelStep ==
  ASSUME Inv, NEW t \in Threads, Moves(t), Uses(t)
  PROVE  ChannelsAccounted' /\ chan' \in [Channels -> Threads \cup {Free, Lost}]
<1> USE ClientAssumption DEF Inv, TypeOK, ChannelsAccounted
<1>0. \A u \in Threads \ {t} : pc'[u] = pc[u]
  BY DEF Moves
<1>1. CASE pc[t] = "newcall" /\ pc'[t] \in {"start", "stub"}
           /\ \E c \in Channels : /\ ConnOf[c] = MountOf[t] /\ chan[c] = Free
                                  /\ chan' = [chan EXCEPT ![c] = t]
  <2>1. \A c \in Channels : chan[c] # t
    BY <1>1 DEF InCall
  <2>2. PICK c \in Channels : /\ ConnOf[c] = MountOf[t] /\ chan[c] = Free
                              /\ chan' = [chan EXCEPT ![c] = t]
    BY <1>1
  <2>3. pc'[t] \in InCall
    BY <1>1 DEF InCall
  <2>4. \A d \in Channels : chan'[d] \in Threads =>
          ConnOf[d] = MountOf[chan'[d]] /\ pc'[chan'[d]] \in InCall \cup {"fail"}
    BY <1>0, <2>2, <2>3
  <2>5. \A d, e \in Channels : chan'[d] \in Threads /\ chan'[d] = chan'[e] => d = e
    BY <2>1, <2>2
  <2>6. \A u \in Threads : pc'[u] \in InCall => \E d \in Channels : chan'[d] = u
    BY <1>0, <2>2
  <2> QED BY <2>2, <2>4, <2>5, <2>6
<1>2. CASE pc[t] \in InCall \cup {"fail"} /\ pc'[t] \notin InCall
           /\ \E x \in {Free, Lost} : Disposes(t, x)
  <2>1. /\ chan' \in [Channels -> Threads \cup {Free, Lost}]
        /\ \A c \in Channels : chan'[c] \in Threads => chan'[c] = chan[c] /\ chan[c] # t
        /\ \A c \in Channels : chan[c] # t => chan'[c] = chan[c]
    BY <1>2 DEF Disposes
  <2> QED BY <1>0, <1>2, <2>1
<1>3. CASE /\ chan' = chan
           /\ \/ pc[t] \in InCall /\ pc'[t] \in InCall \cup {"fail"}
              \/ pc[t] \notin InCall \cup {"fail"} /\ pc'[t] \notin InCall
  BY <1>0, <1>3
<1> QED BY <1>1, <1>2, <1>3 DEF Uses

(* A process that dies leaves nobody on its connection and nothing on its   *)
(* channels.                                                                *)
LEMMA CrashStep ==
  ASSUME Inv, NEW t \in Threads, FillerCrashes(t)
  PROVE  Inv'
<1> USE ClientAssumption DEF Inv, FillerCrashes
<1>1. TypeOK'
  BY DEF TypeOK, Labels, Results
<1>2. MutualExclusion'
  BY DEF TypeOK, MutualExclusion, Holding, InCall
<1>3. ChannelsAccounted'
  <2>1. \A c \in Channels : chan'[c] \in Threads =>
          /\ chan'[c] = chan[c]
          /\ ConnOf[c] = MountOf[chan[c]]
          /\ pc'[chan[c]] = pc[chan[c]]
    BY DEF TypeOK, ChannelsAccounted
  <2>2. \A u \in Threads : pc'[u] \in InCall =>
          /\ pc[u] \in InCall
          /\ MountOf[u] # MountOf[t]
    BY DEF TypeOK, InCall
  <2> QED BY <2>1, <2>2 DEF TypeOK, ChannelsAccounted
<1> QED BY <1>1, <1>2, <1>3

(* Inv holds initially. *)
LEMMA InvInit == Init => Inv
BY ClientAssumption
   DEF Init, Inv, TypeOK, MutualExclusion, ChannelsAccounted, Labels, Holding, InCall,
       Ops, Split, Results

(* Inv is inductive. *)
LEMMA InvStep == Inv /\ [Next]_vars => Inv'
<1> SUFFICES ASSUME Inv, [Next]_vars PROVE Inv'
  OBVIOUS
<1>1. CASE UNCHANGED vars
  BY <1>1 DEF vars, Inv, TypeOK, MutualExclusion, ChannelsAccounted
<1>2. CASE Next
  <2>1. CASE \E t \in Threads : FillerCrashes(t)
    BY <2>1, CrashStep
  <2>2. CASE \E t \in Threads : Step(t) \/ \E o \in Ops : Request(t, o)
    <3>1. PICK t \in Threads : Step(t) \/ \E o \in Ops : Request(t, o)
      BY <2>2
    <3>2. Moves(t) /\ Uses(t)
      BY <3>1, StepMoves, StepUses DEF Inv
    <3>3. op' \in [Threads -> Ops] /\ ret' \in [Threads -> Results]
      BY <3>1, StepAnswers DEF Inv
    <3> QED BY <3>2, <3>3, MutexStep, ChannelStep DEF Inv, TypeOK
  <2> QED BY <1>2, <2>1, <2>2 DEF Next
<1> QED BY <1>1, <1>2

LEMMA Invariance == Spec => []Inv
BY InvInit, InvStep, PTL DEF Spec

(* Every variable keeps its type: in particular sem_post never takes the    *)
(* semaphore of a mount above 1, whatever path the callbacks take.          *)
THEOREM TypeCorrect == Spec => []TypeOK
BY Invariance, PTL DEF Inv

(* One thread at a time is between getconnection and relconnection of a     *)
(* mount.                                                                   *)
THEOREM Exclusive == Spec => []MutualExclusion
BY Invariance, PTL DEF Inv

(* A call on a channel belongs to a callback that is still at work on it.   *)
THEOREM CallsAccounted == Spec => []ChannelsAccounted
BY Invariance, PTL DEF Inv

(* The safety half of HolderReturns: a callback past getconnection that     *)
(* asks rx_NewCall for a call finds a channel free at once, unless all of   *)
(* its connection's are lost.  No other callback of the process has one.    *)
THEOREM HolderFindsChannel == Spec => []NewCallNeverWaits
<1>1. ASSUME Inv, NEW t \in Threads, pc[t] = "newcall", NEW c \in Channels,
             ConnOf[c] = MountOf[t], chan[c] # Lost
      PROVE  chan[c] = Free
  <2> SUFFICES ASSUME chan[c] \in Threads PROVE FALSE
    BY <1>1 DEF Inv, TypeOK
  <2>1. /\ MountOf[chan[c]] = MountOf[t]
        /\ pc[chan[c]] \in InCall \cup {"fail"}
    BY <1>1 DEF Inv, ChannelsAccounted
  <2>2. chan[c] = t
    BY <1>1, <2>1 DEF Inv, MutualExclusion, Holding, InCall
  <2> QED BY <1>1, <2>1, <2>2 DEF InCall
<1>2. Inv => NewCallNeverWaits
  BY <1>1 DEF NewCallNeverWaits, Wedged
<1> QED BY <1>2, Invariance, PTL

-----------------------------------------------------------------------------
(* A step of the client is a step of the connection lock, or none at all.   *)
LEMMA LockStep == Inv /\ [Next]_vars => [Lock!Next]_(Lock!lockVars)
<1> SUFFICES ASSUME Inv, [Next]_vars PROVE [Lock!Next]_(Lock!lockVars)
  OBVIOUS
<1> USE ClientAssumption DEF Inv, TypeOK, Lock!lockVars
<1>1. CASE UNCHANGED vars
  BY <1>1 DEF vars
<1>2. CASE \E t \in Threads : FillerCrashes(t)
  <2>1. PICK t \in Threads : FillerCrashes(t)
    BY <1>2
  <2>2. Lock!Die(MountOf[t])
    BY <2>1 DEF FillerCrashes, Lock!Die, Holding, InCall
  <2> QED BY <2>2 DEF Lock!Next
<1>3. CASE \E t \in Threads : Step(t) \/ \E o \in Ops : Request(t, o)
  <2>1. PICK t \in Threads : Moves(t)
    BY <1>3, StepMoves
  <2>2. \A u \in Threads \ {t} : pc'[u] = pc[u]
    BY <2>1 DEF Moves
  <2>3. CASE pc[t] = "idle" /\ pc'[t] = "lock"
    <3>1. Lock!Ask(t)
      BY <2>2, <2>3 DEF Lock!Ask, Holding, InCall
    <3> QED BY <3>1 DEF Lock!Next
  <2>4. CASE pc[t] = "lock" /\ pc'[t] = "newcall" /\ sem[MountOf[t]] > 0
    <3>1. \A u \in Threads : pc[u] \in Holding => MountOf[u] # MountOf[t]
      BY <2>4 DEF MutualExclusion
    <3>2. Lock!Take(t)
      BY <2>2, <2>4, <3>1 DEF Lock!Take, Holding, InCall
    <3> QED BY <3>2 DEF Lock!Next
  <2>5. CASE pc[t] = "release" /\ pc'[t] = "idle"
    <3>1. Lock!Drop(t)
      BY <2>2, <2>5 DEF Lock!Drop, Holding, InCall
    <3> QED BY <3>1 DEF Lock!Next
  <2>6. CASE pc[t] \in Holding /\ pc'[t] \in Holding
    BY <2>2, <2>6 DEF Holding, InCall
  <2> QED BY <2>1, <2>3, <2>4, <2>5, <2>6 DEF Moves
<1> QED BY <1>1, <1>2, <1>3 DEF Next

(* The client's semaphore implements the abstract connection lock.          *)
THEOREM ImplementsLock == Spec => LockSpec
<1>1. Init => Lock!Init
  BY DEF Init, Lock!Init, Holding, InCall
<1> QED BY <1>1, LockStep, Invariance, PTL DEF Spec, LockSpec, Lock!Spec
=============================================================================
