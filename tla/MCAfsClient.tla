----------------------------- MODULE MCAfsClient -----------------------------
(***************************************************************************)
(* One mount with two FUSE threads and two channels: contention for the    *)
(* semaphore, a channel to lose and one left.  A second mount has a        *)
(* channel and no thread: nobody may lose that one.                        *)
(***************************************************************************)
EXTENDS AfsClient, TLC

CONSTANTS m1, m2, t1, t2, c1, c2, c3

MCMountOf == t1 :> m1 @@ t2 :> m1
MCConnOf == c1 :> m1 @@ c2 :> m1 @@ c3 :> m2
=============================================================================
