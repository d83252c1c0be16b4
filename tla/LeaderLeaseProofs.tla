-------------------------- MODULE LeaderLeaseProofs --------------------------
(***************************************************************************)
(* What holds of LeaderLease for any number of tabs and calls.  Within a   *)
(* tab the process lock alone keeps the leaders apart; among tabs it takes *)
(* the second look after the pause, and each lease that lapses under a     *)
(* live run costs one more leader at most.                                 *)
(***************************************************************************)
EXTENDS LeaderLease, FiniteSetTheorems, TLAPS

-----------------------------------------------------------------------------
(* The inductive invariant within a tab. *)

\* One task of a tab runs at a time.
OneTask == \A r, s \in Runs :
  Tab[r] = Tab[s] /\ pc[r] \in Section /\ pc[s] \in Section => r = s

\* The process lock tells whether the tab has a leader, and it has one at most.
LockTells ==
  /\ \A r \in Runs : pc[r] \in {"working", "renew"} => held[Tab[r]]
  /\ \A t \in Tabs : held[t] => \E r \in Runs : Tab[r] = t /\ pc[r] \in {"working", "renew"}
  /\ \A r, s \in Runs :
       pc[r] \in {"working", "renew"} /\ pc[s] \in {"working", "renew"} /\ Tab[r] = Tab[s] => r = s

\* A lease is written by a tab without a leader, and removed for its owner.
TabAgrees ==
  /\ \A r \in Runs : pc[r] = "write" => ~held[Tab[r]]
  /\ \A r, s \in Runs : pc[s] = "remove" /\ Tab[r] = Tab[s] /\ Owns(r) => r = s

IInv == TypeOK /\ OneTask /\ LockTells /\ TabAgrees /\ NoLeaseLeftBehind

-----------------------------------------------------------------------------
LEMMA InitInv == Init => IInv
<1> SUFFICES ASSUME Init PROVE IInv
  OBVIOUS
<1>1. TypeOK
  BY LeaderLeaseAssumption DEF Init, TypeOK, PCs
<1>2. OneTask
  BY DEF Init, OneTask, Section
<1>3. LockTells
  <2>1. \A r \in Runs : pc[r] = "idle"
    BY DEF Init
  <2>2. \A t \in Tabs : ~held[t]
    BY DEF Init
  <2> QED BY <2>1, <2>2 DEF LockTells
<1>4. TabAgrees /\ NoLeaseLeftBehind
  BY DEF Init, TabAgrees, NoLeaseLeftBehind, Owns
<1> QED BY <1>1, <1>2, <1>3, <1>4 DEF IInv

LEMMA LeaseType ==
  ASSUME NEW r \in Runs
  PROVE  /\ [by |-> r, live |-> TRUE] \in Lease
         /\ [by |-> r, live |-> TRUE] # NoLease
<1>1. [by |-> r, live |-> TRUE] \in Lease
  BY DEF Lease
<1>2. NoLease \notin Lease
  BY LeaderLeaseAssumption DEF Lease
<1> QED BY <1>1, <1>2

\* A step that only one run takes.
LEMMA StartInv == ASSUME IInv, NEW r \in Runs, Start(r) PROVE IInv'
<1>1. TypeOK'
  BY DEF IInv, TypeOK, Start, Goto, PCs, Section
<1>2. OneTask'
  BY DEF IInv, TypeOK, OneTask, Start, TabIsFree, Goto, Section
<1>3. LockTells'
  BY DEF IInv, TypeOK, LockTells, Start, Goto
<1>4. TabAgrees'
  BY DEF IInv, TypeOK, TabAgrees, Start, Goto, Owns
<1>5. NoLeaseLeftBehind'
  BY DEF IInv, TypeOK, NoLeaseLeftBehind, Start, Goto
<1> QED BY <1>1, <1>2, <1>3, <1>4, <1>5 DEF IInv

LEMMA WriteInv == ASSUME IInv, NEW r \in Runs, WriteLease(r) PROVE IInv'
<1>1. TypeOK'
  BY LeaseType DEF IInv, TypeOK, WriteLease, Goto, PCs, Section
<1>2. OneTask'
  BY DEF IInv, TypeOK, OneTask, WriteLease, Goto, Section
<1>3. LockTells'
  BY DEF IInv, TypeOK, LockTells, WriteLease, Goto
<1>4. TabAgrees'
  BY DEF IInv, TypeOK, TabAgrees, OneTask, WriteLease, Goto, Owns, Section
<1>5. NoLeaseLeftBehind'
  BY DEF IInv, TypeOK, NoLeaseLeftBehind, WriteLease, Goto
<1> QED BY <1>1, <1>2, <1>3, <1>4, <1>5 DEF IInv

LEMMA ConfirmInv == ASSUME IInv, NEW r \in Runs, Confirm(r) PROVE IInv'
<1>1. TypeOK'
  BY DEF IInv, TypeOK, Confirm, Goto, PCs, Section
<1>2. OneTask'
  BY DEF IInv, TypeOK, OneTask, Confirm, Goto, Section
<1>3. LockTells'
  BY DEF IInv, TypeOK, LockTells, Confirm, Goto
<1>4. TabAgrees'
  BY DEF IInv, TypeOK, TabAgrees, Confirm, Goto, Owns
<1>5. NoLeaseLeftBehind'
  BY DEF IInv, TypeOK, NoLeaseLeftBehind, Confirm, Goto, Owns
<1> QED BY <1>1, <1>2, <1>3, <1>4, <1>5 DEF IInv

LEMMA SettleInv == ASSUME IInv, NEW r \in Runs, Settle(r) PROVE IInv'
<1>1. TypeOK'
  BY DEF IInv, TypeOK, Settle, Settled, Goto, PCs, Section
<1>2. OneTask'
  BY DEF IInv, TypeOK, OneTask, Settle, Settled, TabIsFree, Goto, Section
<1>3. LockTells'
  BY DEF IInv, TypeOK, LockTells, Settle, Settled, Goto
<1>4. TabAgrees'
  BY DEF IInv, TypeOK, TabAgrees, Settle, Settled, Goto, Owns
<1>5. NoLeaseLeftBehind'
  BY DEF IInv, TypeOK, NoLeaseLeftBehind, Settle, Settled, Goto, Owns
<1> QED BY <1>1, <1>2, <1>3, <1>4, <1>5 DEF IInv

LEMMA EnterInv == ASSUME IInv, NEW r \in Runs, Enter(r) PROVE IInv'
<1>0. Tab[r] \in Tabs
  BY LeaderLeaseAssumption
<1>1. TypeOK'
  BY DEF IInv, TypeOK, Enter, Goto, PCs, Section
<1>2. OneTask'
  BY DEF IInv, TypeOK, OneTask, Enter, Goto, Section
<1>3. LockTells'
  <2>1. CASE held[Tab[r]]
    BY <2>1 DEF IInv, TypeOK, LockTells, Enter, Goto
  <2>2. CASE ~held[Tab[r]]
    <3>1. /\ pc'[r] = "working" /\ \A s \in Runs : s # r => pc'[s] = pc[s]
          /\ held'[Tab[r]] /\ \A t \in Tabs : t # Tab[r] => held'[t] = held[t]
      BY <1>0, <2>2 DEF IInv, TypeOK, Enter, Goto
    <3>2. \A s \in Runs : Tab[s] \in Tabs
      BY LeaderLeaseAssumption
    <3>3. \A s \in Runs : pc[s] \in {"working", "renew"} => Tab[s] # Tab[r]
      BY <2>2 DEF IInv, LockTells
    <3> QED BY <1>0, <3>1, <3>2, <3>3 DEF IInv, LockTells
  <2> QED BY <2>1, <2>2
<1>4. TabAgrees'
  <2>1. /\ UNCHANGED store /\ pc[r] = "granted" /\ pc'[r] \in {"release", "working"}
        /\ \A s \in Runs : s # r => pc'[s] = pc[s]
        /\ \A t \in Tabs : t # Tab[r] => held'[t] = held[t]
    BY <1>0 DEF IInv, TypeOK, Enter, Goto
  <2>2. \A s \in Runs : pc[s] = "write" => Tab[s] # Tab[r] /\ Tab[s] \in Tabs
    BY <2>1, LeaderLeaseAssumption DEF IInv, OneTask, Section
  <2> QED BY <2>1, <2>2 DEF IInv, TabAgrees, Owns
<1>5. NoLeaseLeftBehind'
  BY DEF IInv, TypeOK, NoLeaseLeftBehind, Enter, Goto
<1> QED BY <1>1, <1>2, <1>3, <1>4, <1>5 DEF IInv

LEMMA RenewReadInv == ASSUME IInv, NEW r \in Runs, RenewRead(r) PROVE IInv'
<1>1. TypeOK'
  BY DEF IInv, TypeOK, RenewRead, Goto, PCs, Section
<1>2. OneTask'
  BY DEF IInv, TypeOK, OneTask, RenewRead, TabIsFree, Goto, Section
<1>3. LockTells'
  BY DEF IInv, TypeOK, LockTells, RenewRead, Goto
<1>4. TabAgrees'
  BY DEF IInv, TypeOK, TabAgrees, RenewRead, Goto, Owns
<1>5. NoLeaseLeftBehind'
  BY DEF IInv, TypeOK, NoLeaseLeftBehind, RenewRead, Goto
<1> QED BY <1>1, <1>2, <1>3, <1>4, <1>5 DEF IInv

LEMMA RenewWriteInv == ASSUME IInv, NEW r \in Runs, RenewWrite(r) PROVE IInv'
<1>1. TypeOK'
  BY LeaseType DEF IInv, TypeOK, RenewWrite, Goto, PCs, Section
<1>2. OneTask'
  BY DEF IInv, TypeOK, OneTask, RenewWrite, Goto, Section
<1>3. LockTells'
  BY DEF IInv, TypeOK, LockTells, RenewWrite, Goto
<1>4. TabAgrees'
  BY DEF IInv, TypeOK, TabAgrees, OneTask, RenewWrite, Goto, Owns, Section
<1>5. NoLeaseLeftBehind'
  BY DEF IInv, TypeOK, NoLeaseLeftBehind, RenewWrite, Goto
<1> QED BY <1>1, <1>2, <1>3, <1>4, <1>5 DEF IInv

LEMMA FinishInv == ASSUME IInv, NEW r \in Runs, Finish(r) PROVE IInv'
<1>0. Tab[r] \in Tabs
  BY LeaderLeaseAssumption
<1>1. TypeOK'
  BY DEF IInv, TypeOK, Finish, Goto, PCs, Section
<1>2. OneTask'
  BY DEF IInv, TypeOK, OneTask, Finish, TabIsFree, Goto, Section
<1>3. LockTells'
  <2>1. /\ pc[r] = "working" /\ pc'[r] = "release"
        /\ \A s \in Runs : s # r => pc'[s] = pc[s]
        /\ ~held'[Tab[r]] /\ \A t \in Tabs : t # Tab[r] => held'[t] = held[t]
    BY <1>0 DEF IInv, TypeOK, Finish, Goto
  <2>2. \A s \in Runs : Tab[s] \in Tabs
    BY LeaderLeaseAssumption
  <2>3. \A s \in Runs : pc'[s] \in {"working", "renew"} => held'[Tab[s]]
    BY <1>0, <2>1, <2>2 DEF IInv, LockTells
  <2>4. \A u \in Tabs : held'[u] => \E s \in Runs : Tab[s] = u /\ pc'[s] \in {"working", "renew"}
    BY <1>0, <2>1, <2>2 DEF IInv, LockTells
  <2>5. \A s, q \in Runs :
          pc'[s] \in {"working", "renew"} /\ pc'[q] \in {"working", "renew"} /\ Tab[s] = Tab[q]
            => s = q
    BY <1>0, <2>1, <2>2 DEF IInv, LockTells
  <2> QED BY <2>3, <2>4, <2>5 DEF LockTells
<1>4. TabAgrees'
  BY <1>0 DEF IInv, TypeOK, TabAgrees, Finish, Goto, Owns
<1>5. NoLeaseLeftBehind'
  BY DEF IInv, TypeOK, NoLeaseLeftBehind, Finish, Goto
<1> QED BY <1>1, <1>2, <1>3, <1>4, <1>5 DEF IInv

LEMMA ReleaseInv == ASSUME IInv, NEW r \in Runs, Release(r) PROVE IInv'
<1>1. TypeOK'
  BY DEF IInv, TypeOK, Release, Goto, PCs, Section
<1>2. OneTask'
  BY DEF IInv, TypeOK, OneTask, Release, Goto, Section
<1>3. LockTells'
  BY DEF IInv, TypeOK, LockTells, Release, Goto
<1>4. TabAgrees'
  BY DEF IInv, TypeOK, TabAgrees, Release, Goto, Owns
<1>5. NoLeaseLeftBehind'
  BY DEF IInv, TypeOK, NoLeaseLeftBehind, Release, Goto, Owns
<1> QED BY <1>1, <1>2, <1>3, <1>4, <1>5 DEF IInv

LEMMA RemoveInv == ASSUME IInv, NEW r \in Runs, Remove(r) PROVE IInv'
<1>1. TypeOK'
  BY DEF IInv, TypeOK, Remove, Goto, PCs, Section
<1>2. OneTask'
  BY DEF IInv, TypeOK, OneTask, Remove, Goto, Section
<1>3. LockTells'
  BY DEF IInv, TypeOK, LockTells, Remove, Goto
<1>4. TabAgrees'
  BY DEF IInv, TypeOK, TabAgrees, Remove, Goto, Owns
<1>5. NoLeaseLeftBehind'
  BY DEF IInv, TypeOK, NoLeaseLeftBehind, Remove, Goto
<1> QED BY <1>1, <1>2, <1>3, <1>4, <1>5 DEF IInv

LEMMA LapseInv == ASSUME IInv, Lapse PROVE IInv'
<1>1. /\ store \in Lease /\ store' = [store EXCEPT !.live = FALSE]
      /\ store' \in Lease /\ store'.by = store.by /\ store' # NoLease
  BY LeaderLeaseAssumption DEF IInv, TypeOK, Lapse, Lease
<1>2. TypeOK'
  <2>1. stalls' \in 0 .. MaxStalls
    BY LeaderLeaseAssumption DEF IInv, TypeOK, Lapse
  <2> QED BY <1>1, <2>1 DEF IInv, TypeOK, Lapse
<1>3. OneTask' /\ LockTells'
  BY DEF IInv, OneTask, LockTells, Lapse
<1>4. TabAgrees' /\ NoLeaseLeftBehind'
  BY <1>1 DEF IInv, TabAgrees, NoLeaseLeftBehind, Lapse, Owns
<1> QED BY <1>2, <1>3, <1>4 DEF IInv

LEMMA CrashEffect ==
  ASSUME IInv, NEW t \in Tabs, Crash(t)
  PROVE  /\ store' \in Lease \cup {NoLease}
         /\ store' = NoLease <=> store = NoLease
         /\ store # NoLease => store'.live = store.live
         /\ store # NoLease /\ store'.by \in Runs => store'.by = store.by /\ Tab[store.by] # t
<1>1. CASE \E r \in Runs : Tab[r] = t /\ Owns(r)
  <2>1. store # NoLease /\ store.by \in Runs /\ Tab[store.by] = t /\ store \in Lease
    BY <1>1 DEF Owns, IInv, TypeOK
  <2>2. store' = [store EXCEPT !.by = Gone]
    BY <1>1 DEF Crash
  <2> QED BY <2>1, <2>2, LeaderLeaseAssumption DEF Lease
<1>2. CASE ~ \E r \in Runs : Tab[r] = t /\ Owns(r)
  BY <1>2 DEF Crash, Owns, IInv, TypeOK
<1> QED BY <1>1, <1>2

LEMMA CrashInv == ASSUME IInv, NEW t \in Tabs, Crash(t) PROVE IInv'
<1>1. /\ crashes' \in 0 .. MaxCrashes /\ stalls' = stalls
      /\ pc' = [r \in Runs |-> IF Tab[r] = t THEN "idle" ELSE pc[r]]
      /\ held' = [held EXCEPT ![t] = FALSE]
  BY LeaderLeaseAssumption DEF IInv, TypeOK, Crash
<1>2. TypeOK'
  BY <1>1, CrashEffect DEF IInv, TypeOK, PCs
<1>3. OneTask'
  BY <1>1 DEF IInv, OneTask, Section
<1>4. LockTells'
  <2>1. /\ ~held'[t] /\ \A u \in Tabs : u # t => held'[u] = held[u]
        /\ \A r \in Runs : pc'[r] = IF Tab[r] = t THEN "idle" ELSE pc[r]
    BY <1>1 DEF IInv, TypeOK
  <2>2. \A s \in Runs : Tab[s] \in Tabs
    BY LeaderLeaseAssumption
  <2>3. \A s \in Runs : pc'[s] \in {"working", "renew"} => held'[Tab[s]]
    BY <2>1, <2>2 DEF IInv, LockTells
  <2>4. \A u \in Tabs : held'[u] => \E s \in Runs : Tab[s] = u /\ pc'[s] \in {"working", "renew"}
    BY <2>1, <2>2 DEF IInv, LockTells
  <2>5. \A s, q \in Runs :
          pc'[s] \in {"working", "renew"} /\ pc'[q] \in {"working", "renew"} /\ Tab[s] = Tab[q]
            => s = q
    BY <2>1, <2>2 DEF IInv, LockTells
  <2> QED BY <2>3, <2>4, <2>5 DEF LockTells
<1>5. TabAgrees'
  BY <1>1, CrashEffect, LeaderLeaseAssumption DEF IInv, TypeOK, TabAgrees, Owns
<1>6. NoLeaseLeftBehind'
  BY <1>1, CrashEffect DEF IInv, NoLeaseLeftBehind
<1> QED BY <1>2, <1>3, <1>4, <1>5, <1>6 DEF IInv

LEMMA NextInv == IInv /\ [Next]_vars => IInv'
<1> SUFFICES ASSUME IInv, [Next]_vars PROVE IInv'
  OBVIOUS
<1>1. CASE UNCHANGED vars
  BY <1>1 DEF vars, IInv, TypeOK, OneTask, LockTells, TabAgrees, NoLeaseLeftBehind, Owns
<1> QED BY <1>1, StartInv, WriteInv, ConfirmInv, SettleInv, EnterInv, RenewReadInv, RenewWriteInv,
           FinishInv, ReleaseInv, RemoveInv, LapseInv, CrashInv DEF Next, Acquire, Leave

THEOREM Invariance == Spec => []IInv
BY InitInv, NextInv, PTL DEF Spec

\* The lease, the tasks and the process locks keep their types.
THEOREM LeaseTyped == Spec => []TypeOK
<1>1. IInv => TypeOK
  BY DEF IInv
<1> QED BY <1>1, Invariance, PTL

\* A tab has one leader while it holds its process lock and none otherwise,
\* whatever the other tabs do to the lease (runWithStorageLease).
THEOREM OnePerTab == Spec => []OneLeaderPerTab
<1>1. IInv => OneLeaderPerTab
  <2> SUFFICES ASSUME IInv, NEW t \in Tabs
               PROVE  Cardinality({r \in Leading : Tab[r] = t}) = IF held[t] THEN 1 ELSE 0
    BY DEF OneLeaderPerTab
  <2> DEFINE L == {r \in Leading : Tab[r] = t}
  <2>1. CASE held[t]
    <3>1. PICK r \in Runs : Tab[r] = t /\ pc[r] \in {"working", "renew"}
      BY <2>1 DEF IInv, LockTells
    <3>2. L = {r}
      BY <3>1 DEF IInv, LockTells, Leading
    <3>3. Cardinality({r}) = 1
      BY FS_Singleton
    <3> QED BY <2>1, <3>2, <3>3
  <2>2. CASE ~held[t]
    <3>1. L = {}
      BY <2>2 DEF IInv, LockTells, Leading
    <3> QED BY <2>2, <3>1, FS_EmptySet
  <2> QED BY <2>1, <2>2
<1> QED BY <1>1, Invariance, PTL

\* A call that is over, in a tab that lives, leaves no lease that locks the
\* others out (releaseStorageLease).
THEOREM NoOrphanLease == Spec => []NoLeaseLeftBehind
<1>1. IInv => NoLeaseLeftBehind
  BY DEF IInv
<1> QED BY <1>1, Invariance, PTL

-----------------------------------------------------------------------------
(* One leader among all tabs, when the pause outlasts the other tabs. *)

\* Access to the lease that an earlier look at it allowed.
Access == {"write", "renew", "remove"}

\* The lease of r is live, and no other tab is about to touch it.
Safe(r) == /\ Owns(r) /\ store.live
           /\ \A s \in Runs : Tab[s] # Tab[r] => pc[s] \notin Access

\* Calls that lead, or will, without a safe lease.
Lost == {r \in Runs : \/ pc[r] \in {"granted", "working", "renew"} /\ ~Safe(r)
                      \/ pc[r] \in {"confirm", "settle"} /\ Owns(r) /\ ~store.live}

\* Each of them lost its lease to a lapse of its own.
LossesCounted == IsFiniteSet(Lost) /\ Cardinality(Lost) <= stalls

LInv == IInv /\ LossesCounted

LEMMA LostShrinks ==
  ASSUME LInv, Lost' \subseteq Lost, stalls' = stalls
  PROVE  LossesCounted'
<1>1. IsFiniteSet(Lost') /\ Cardinality(Lost') <= Cardinality(Lost)
  BY FS_Subset DEF LInv, LossesCounted
<1>2. Cardinality(Lost') \in Nat /\ Cardinality(Lost) \in Nat /\ stalls \in Nat
  BY <1>1, FS_CardinalityType DEF LInv, LossesCounted, IInv, TypeOK
<1>3. Cardinality(Lost') <= stalls'
  BY <1>1, <1>2 DEF LInv, LossesCounted
<1> QED BY <1>1, <1>3 DEF LossesCounted

\* A lease that lapses costs its owner, and nobody else.
LEMMA LapseCounted ==
  ASSUME LInv, Lapse
  PROVE  LossesCounted'
<1>1. /\ store \in Lease /\ store'.by = store.by /\ ~store'.live
      /\ store # NoLease /\ store' # NoLease /\ UNCHANGED pc
  BY LeaderLeaseAssumption DEF LInv, IInv, TypeOK, Lapse, Lease
<1>2. \A r \in Runs : Owns(r)' <=> Owns(r)
  BY <1>1 DEF Owns
<1>3. CASE store.by = Gone
  <2>1. Lost' \subseteq Lost
    BY <1>1, <1>2, <1>3, LeaderLeaseAssumption DEF Lost, Safe, Owns
  <2> QED BY <1>3, <2>1, LostShrinks DEF Lapse
<1>4. CASE store.by # Gone
  <2>1. Lost' \subseteq Lost \cup {store.by}
    BY <1>1, <1>2 DEF Lost, Safe, Owns
  <2>2. IsFiniteSet(Lost \cup {store.by}) /\ Cardinality(Lost \cup {store.by}) <= Cardinality(Lost) + 1
    <3>1. IsFiniteSet(Lost)
      BY DEF LInv, LossesCounted
    <3>2. Cardinality(Lost \cup {store.by}) =
            IF store.by \in Lost THEN Cardinality(Lost) ELSE Cardinality(Lost) + 1
      BY <3>1, FS_AddElement
    <3> QED BY <3>1, <3>2, FS_AddElement, FS_CardinalityType
  <2>3. IsFiniteSet(Lost') /\ Cardinality(Lost') <= Cardinality(Lost \cup {store.by})
    BY <2>1, <2>2, FS_Subset
  <2>4. /\ Cardinality(Lost') \in Nat /\ Cardinality(Lost) \in Nat
        /\ Cardinality(Lost \cup {store.by}) \in Nat /\ stalls \in Nat
    BY <2>2, <2>3, FS_CardinalityType DEF LInv, LossesCounted, IInv, TypeOK
  <2>5. stalls' = stalls + 1
    BY <1>4 DEF Lapse
  <2>6. Cardinality(Lost') <= stalls'
    BY <2>2, <2>3, <2>4, <2>5 DEF LInv, LossesCounted
  <2> QED BY <2>3, <2>6 DEF LossesCounted
<1> QED BY <1>3, <1>4

\* A call that owned the lease for sure still does: it was live, and nobody
\* had been allowed to touch it.
LEMMA LostStep ==
  ASSUME Timely, LInv, NEW r \in Runs,
         \/ Start(r) \/ Acquire(r) \/ Leave(r) \/ RenewRead(r) \/ RenewWrite(r)
  PROVE  Lost' \subseteq Lost
<1>1. \A q \in Runs : q # r => pc'[q] = pc[q]
  BY DEF LInv, IInv, TypeOK, Start, Acquire, Leave, RenewRead, RenewWrite, WriteLease, Confirm,
         Settle, Settled, Enter, Finish, Release, Remove, Goto
<1> SUFFICES ASSUME NEW q \in Lost' PROVE q \in Lost
  OBVIOUS
<1>2. q \in Runs
  BY DEF Lost
<1>3. CASE Start(r)
  <2>1. UNCHANGED store /\ pc'[r] = "write" /\ pc[r] = "idle" /\ ~Blocked(r)
    BY <1>3 DEF Start, Goto, LInv, IInv, TypeOK
  <2>2. q # r
    BY <2>1 DEF Lost
  <2>3. Safe(q) => Safe(q)'
    BY <1>1, <1>2, <2>1 DEF Safe, Owns, Blocked, Access
  <2> QED BY <1>1, <1>2, <2>1, <2>2, <2>3 DEF Lost, Owns
<1>4. CASE WriteLease(r)
  <2>1. /\ store' = [by |-> r, live |-> TRUE] /\ pc'[r] = "confirm" /\ pc[r] = "write"
        /\ store' # NoLease
    BY <1>4, LeaseType DEF WriteLease, Goto, LInv, IInv, TypeOK
  <2>2. q # r
    BY <2>1 DEF Lost
  <2>3. pc[q] \in {"granted", "working", "renew"} /\ pc'[q] = pc[q]
    BY <1>1, <1>2, <2>1, <2>2 DEF Lost, Owns
  <2>4. Tab[q] # Tab[r]
    BY <1>2, <2>1, <2>2, <2>3 DEF LInv, IInv, OneTask, LockTells, TabAgrees, Section
  <2> QED BY <1>2, <2>1, <2>3, <2>4 DEF Lost, Safe, Access
<1>5. CASE Confirm(r)
  <2>1. /\ UNCHANGED store /\ pc[r] = "confirm"
        /\ pc'[r] = "settle" \/ pc'[r] = "idle"
    BY <1>5 DEF Confirm, Goto, LInv, IInv, TypeOK
  <2>2. Safe(q)' <=> Safe(q)
    BY <1>1, <1>2, <2>1 DEF Safe, Owns, Access
  <2> QED BY <1>1, <1>2, <2>1, <2>2 DEF Lost, Owns
<1>6. CASE Settle(r)
  <2>1. /\ UNCHANGED store /\ pc[r] = "settle"
        /\ pc'[r] = IF Owns(r) THEN "granted" ELSE "idle"
        /\ \A s \in Runs : Tab[s] # Tab[r] => pc[s] \notin Access
    BY <1>6 DEF Settle, Settled, Goto, LInv, IInv, TypeOK, Access
  <2>2. Safe(q)' <=> Safe(q)
    BY <1>1, <1>2, <2>1 DEF Safe, Owns, Access
  <2>3. CASE q = r
    BY <2>1, <2>2, <2>3 DEF Lost, Safe
  <2>4. CASE q # r
    BY <1>1, <1>2, <2>1, <2>2, <2>4 DEF Lost, Owns
  <2> QED BY <2>3, <2>4
<1>7. CASE Enter(r) \/ Finish(r)
  <2>1. /\ UNCHANGED store
        /\ \/ pc[r] = "granted" /\ pc'[r] \in {"release", "working"}
           \/ pc[r] = "working" /\ pc'[r] = "release"
    BY <1>7 DEF Enter, Finish, Goto, LInv, IInv, TypeOK
  <2>2. Safe(q)' <=> Safe(q)
    BY <1>1, <1>2, <2>1 DEF Safe, Owns, Access
  <2> QED BY <1>1, <1>2, <2>1, <2>2 DEF Lost, Owns
<1>8. CASE RenewRead(r)
  <2>1. UNCHANGED store /\ pc[r] = "working" /\ pc'[r] = "renew" /\ Owns(r)
    BY <1>8 DEF RenewRead, Goto, LInv, IInv, TypeOK
  <2>2. Safe(q) => Safe(q)'
    BY <1>1, <1>2, <2>1 DEF Safe, Owns, Access
  <2> QED BY <1>1, <1>2, <2>1, <2>2 DEF Lost, Owns
<1>9. CASE RenewWrite(r)
  <2>1. /\ store' = [by |-> r, live |-> TRUE] /\ pc'[r] = "working" /\ pc[r] = "renew"
        /\ store' # NoLease
    BY <1>9, LeaseType DEF RenewWrite, Goto, LInv, IInv, TypeOK
  <2>2. CASE q = r
    BY <1>1, <2>1, <2>2 DEF Lost, Safe, Owns, Access
  <2>3. CASE q # r
    <3>1. pc[q] \in {"granted", "working", "renew"} /\ pc'[q] = pc[q]
      BY <1>1, <1>2, <2>1, <2>3 DEF Lost, Owns
    <3>2. Tab[q] # Tab[r]
      BY <1>2, <2>1, <2>3, <3>1 DEF LInv, IInv, OneTask, LockTells, Section
    <3> QED BY <1>2, <2>1, <3>1, <3>2 DEF Lost, Safe, Access
  <2> QED BY <2>2, <2>3
<1>10. CASE Release(r)
  <2>1. /\ UNCHANGED store /\ pc[r] = "release"
        /\ pc'[r] = IF Owns(r) THEN "remove" ELSE "idle"
    BY <1>10 DEF Release, Goto, LInv, IInv, TypeOK
  <2>2. q # r
    BY <2>1 DEF Lost
  <2>3. Safe(q) => Safe(q)'
    BY <1>1, <1>2, <2>1, <2>2 DEF Safe, Owns, Access
  <2> QED BY <1>1, <1>2, <2>1, <2>2, <2>3 DEF Lost, Owns
<1>11. CASE Remove(r)
  <2>1. store' = NoLease /\ pc[r] = "remove" /\ pc'[r] = "idle"
    BY <1>11 DEF Remove, Goto, LInv, IInv, TypeOK
  <2>2. q # r /\ pc[q] \in {"granted", "working", "renew"}
    BY <1>1, <1>2, <2>1 DEF Lost, Owns
  <2>3. ~Safe(q)
    BY <1>2, <2>1, <2>2 DEF Safe, Access, LInv, IInv, TabAgrees
  <2> QED BY <1>2, <2>2, <2>3 DEF Lost
<1> QED BY <1>3, <1>4, <1>5, <1>6, <1>7, <1>8, <1>9, <1>10, <1>11 DEF Acquire, Leave

LEMMA NextCounted == Timely /\ LInv /\ [Next]_vars => LInv'
<1> SUFFICES ASSUME Timely, LInv, [Next]_vars PROVE LInv'
  OBVIOUS
<1>1. IInv'
  BY NextInv DEF LInv
<1>2. CASE Lapse
  BY <1>1, <1>2, LapseCounted DEF LInv
<1>3. ASSUME NEW t \in Tabs, Crash(t) PROVE LossesCounted'
  <2>1. /\ pc' = [r \in Runs |-> IF Tab[r] = t THEN "idle" ELSE pc[r]] /\ stalls' = stalls
        /\ store' = IF \E r \in Runs : Tab[r] = t /\ Owns(r)
                      THEN [store EXCEPT !.by = Gone] ELSE store
    BY <1>3 DEF Crash
  <2>2. ASSUME NEW r \in Lost' PROVE r \in Lost
    <3>1. r \in Runs /\ Tab[r] # t /\ pc'[r] = pc[r]
      BY <2>1 DEF Lost
    <3>2. Owns(r) => UNCHANGED store
      BY <2>1, <3>1 DEF Owns
    <3>3. Owns(r)' => Owns(r)
      BY <1>3, <3>1, CrashEffect DEF Owns, LInv
    <3>4. Safe(r) => Safe(r)'
      BY <2>1, <3>1, <3>2 DEF Safe, Owns, Access
    <3> QED BY <3>1, <3>2, <3>3, <3>4 DEF Lost
  <2> QED BY <2>1, <2>2, LostShrinks
<1>4. ASSUME NEW r \in Runs, Start(r) \/ Acquire(r) \/ Leave(r) \/ RenewRead(r) \/ RenewWrite(r)
      PROVE  LossesCounted'
  <2>1. stalls' = stalls
    BY <1>4 DEF Start, Acquire, Leave, RenewRead, RenewWrite, WriteLease, Confirm,
                Settle, Enter, Finish, Release, Remove
  <2> QED BY <1>4, <2>1, LostStep, LostShrinks
<1>5. CASE UNCHANGED vars
  <2>1. Lost' \subseteq Lost /\ stalls' = stalls
    BY <1>5 DEF vars, Lost, Safe, Owns
  <2> QED BY <1>1, <2>1, LostShrinks DEF LInv
<1> QED BY <1>1, <1>2, <1>3, <1>4, <1>5 DEF LInv, Next

\* When the pause after writing a lease outlasts the sections of other tabs,
\* there is one leader among all tabs, and one more at most for each lease
\* that lapsed under a live run (tryAcquireStorageLease, waitForSettle).
THEOREM OneLeaderIfTimely == ASSUME Timely PROVE Spec => []OneLeader
<1>1. Init => LInv
  <2> SUFFICES ASSUME Init PROVE LInv
    OBVIOUS
  <2>1. Lost = {} /\ stalls = 0
    BY DEF Init, Lost
  <2>2. LossesCounted
    BY <2>1, FS_EmptySet DEF LossesCounted
  <2> QED BY <2>2, InitInv DEF LInv
<1>2. LInv => OneLeader
  <2> SUFFICES ASSUME LInv PROVE OneLeader
    OBVIOUS
  <2>1. IsFiniteSet(Lost) /\ Cardinality(Lost) \in Nat /\ Cardinality(Lost) <= stalls /\ stalls \in Nat
    BY FS_CardinalityType DEF LInv, LossesCounted, IInv, TypeOK
  <2>2. Leading \subseteq Lost \cup {store.by}
    BY DEF Leading, Lost, Safe, Owns
  <2>3. /\ IsFiniteSet(Lost \cup {store.by})
        /\ Cardinality(Lost \cup {store.by}) =
             IF store.by \in Lost THEN Cardinality(Lost) ELSE Cardinality(Lost) + 1
    BY <2>1, FS_AddElement
  <2>4. IsFiniteSet(Leading) /\ Cardinality(Leading) <= Cardinality(Lost \cup {store.by})
    BY <2>2, <2>3, FS_Subset
  <2>5. Cardinality(Leading) \in Nat
    BY <2>4, FS_CardinalityType
  <2> QED BY <2>1, <2>3, <2>4, <2>5 DEF OneLeader
<1>3. LInv /\ [Next]_vars => LInv'
  BY NextCounted
<1> QED BY <1>1, <1>2, <1>3, PTL DEF Spec
=============================================================================
