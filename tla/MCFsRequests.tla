---------------------------- MODULE MCFsRequests ----------------------------
(* Model of FsRequests: two threads, two servers, one slot less than they  *)
(* may need.                                                               *)
EXTENDS FsRequests, TLC

Alike == Permutations(Thread) \cup Permutations(Server) \cup Permutations(Slot)
=============================================================================
