--------------------------- MODULE MCHybridInvoke ---------------------------
(* Instances of HybridInvoke for TLC.                                      *)
EXTENDS HybridInvoke, TLC

CONSTANTS c1, c2, c3, t1, t2, s1

\* All threads on one session.
OneSession == t1 :> s1 @@ t2 :> s1
OneThread == t1 :> s1

\* Handle classes the callers use.
SyncUser == {<<"user", FALSE>>}
AnyUser == {<<"user", FALSE>>, <<"user", TRUE>>}
Sync == {<<"kernel", FALSE>>, <<"user", FALSE>>}
AllCalls == Sync \cup AnyUser
Mixed == {<<"static", FALSE>>, <<"user", TRUE>>}

Addresses == Permutations(Ctx)

\* The threads of one session are interchangeable as well.
Alike == Permutations(Ctx) \cup Permutations(Threads)
====
