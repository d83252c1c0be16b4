---------------------------- MODULE LeaderLease ----------------------------
(***************************************************************************)
(* Leader election over localStorage (apps/pos/src/offline/                *)
(* outbox-leader.ts), used where the browser has no navigator.locks: a tab *)
(* drains the outbox while a lease in localStorage is its own.             *)
(*                                                                         *)
(* Tabs are processes: the getItem and the setItem of one synchronous      *)
(* section interleave with those of another tab, never with other code of  *)
(* the same tab.  After writing its lease a call waits for one task        *)
(* (settle) and looks again.                                               *)
(*                                                                         *)
(* A run is one call of runIfLeader at a time.  The ownership token, fresh *)
(* per acquisition, is named by the run: NoLeaseLeftBehind says that a run *)
(* never meets the token of an acquisition of its own that is over.        *)
(* expires_at is abstracted to whether it is ahead.                        *)
(***************************************************************************)
EXTENDS Naturals, FiniteSets

CONSTANTS
  Runs,        \* calls of runIfLeader that may be under way
  Tabs,
  Tab,         \* the tab of each run
  Gone,        \* the owner of a lease whose tab was closed
  NoLease,     \* the key is not in localStorage
  Timely,      \* TRUE: settle outlasts the sections other tabs are in
  MaxStalls,   \* bound on the leases that lapse under a live run
  MaxCrashes   \* bound on the tabs that are closed

ASSUME LeaderLeaseAssumption ==
  /\ Tab \in [Runs -> Tabs]
  /\ Gone \notin Runs
  /\ NoLease \notin [by : Runs \cup {Gone}, live : BOOLEAN]
  /\ Timely \in BOOLEAN
  /\ MaxStalls \in Nat /\ MaxCrashes \in Nat

VARIABLES
  store,    \* the lease in localStorage
  pc,       \* where each run stands
  held,     \* heldInProcessLocks of each tab
  stalls,   \* leases that lapsed under a live run
  crashes   \* tabs that were closed

vars == <<store, pc, held, stalls, crashes>>

-----------------------------------------------------------------------------
Lease == [by : Runs \cup {Gone}, live : BOOLEAN]

\* Inside one task of the event loop, which other tasks of the tab wait for:
\* between two accesses to localStorage, or between the promise of settle and
\* the two continuations it runs in the same task.
Section == {"write", "confirm", "granted", "renew", "release", "remove"}
PCs == Section \cup {"idle", "settle", "working"}

TabIsFree(r) == \A s \in Runs : Tab[s] = Tab[r] /\ pc[s] \in Section => s = r

Owns(r) == store # NoLease /\ store.by = r

Goto(r, where) == pc' = [pc EXCEPT ![r] = where]

\* Mutated form of Blocked: expires_at is not compared with now.
BlockedForGood(r) ==
  store # NoLease /\ (store.by \in Runs => Tab[store.by] # Tab[r])

\* A lease of another owner that has not expired.
Blocked(r) == /\ store # NoLease /\ store.live
              /\ store.by \in Runs => Tab[store.by] # Tab[r]

-----------------------------------------------------------------------------
Init == /\ store = NoLease
        /\ pc = [r \in Runs |-> "idle"]
        /\ held = [t \in Tabs |-> FALSE]
        /\ stalls = 0 /\ crashes = 0

(* tryAcquireStorageLease. *)

\* The tab has no leader and the lease that is read does not block: go on to
\* write one.  A call that is turned away changes nothing.
Start(r) == /\ pc[r] = "idle" /\ TabIsFree(r)
            /\ ~held[Tab[r]] /\ ~Blocked(r)
            /\ Goto(r, "write")
            /\ UNCHANGED <<store, held, stalls, crashes>>

\* Mutated form of WriteLease: the lease names the tab, without a token.
WriteOwner(r) == /\ pc[r] = "write"
                 /\ store' = [by |-> Tab[r], live |-> TRUE]
                 /\ Goto(r, "confirm")
                 /\ UNCHANGED <<held, stalls, crashes>>

WriteLease(r) == /\ pc[r] = "write"
                 /\ store' = [by |-> r, live |-> TRUE]
                 /\ Goto(r, "confirm")
                 /\ UNCHANGED <<held, stalls, crashes>>

Confirm(r) == /\ pc[r] = "confirm"
              /\ Goto(r, IF Owns(r) THEN "settle" ELSE "idle")
              /\ UNCHANGED <<store, held, stalls, crashes>>

\* Under Timely a tab that was about to access the lease when it was written
\* has done so by now.
Settled(r) == /\ pc[r] = "settle" /\ TabIsFree(r)
              /\ Timely => \A s \in Runs : Tab[s] # Tab[r] =>
                             pc[s] \notin {"write", "renew", "remove"}

\* Mutated form of Settle: the lease is not read again.
SettleBlindly(r) == /\ Settled(r)
                    /\ Goto(r, "granted")
                    /\ UNCHANGED <<store, held, stalls, crashes>>

Settle(r) == /\ Settled(r)
             /\ Goto(r, IF Owns(r) THEN "granted" ELSE "idle")
             /\ UNCHANGED <<store, held, stalls, crashes>>

-----------------------------------------------------------------------------
(* runWithStorageLease. *)

\* If another call of the same tab became leader meanwhile the lease is given
\* back, otherwise the operation starts.
Enter(r) == /\ pc[r] = "granted"
            /\ IF held[Tab[r]]
                 THEN Goto(r, "release") /\ UNCHANGED held
                 ELSE /\ held' = [held EXCEPT ![Tab[r]] = TRUE]
                      /\ Goto(r, "working")
            /\ UNCHANGED <<store, stalls, crashes>>

\* The interval timer: renewStorageLease, for the owner only.
RenewRead(r) == /\ pc[r] = "working" /\ TabIsFree(r)
                /\ Owns(r)
                /\ Goto(r, "renew")
                /\ UNCHANGED <<store, held, stalls, crashes>>

RenewWrite(r) == /\ pc[r] = "renew"
                 /\ store' = [by |-> r, live |-> TRUE]
                 /\ Goto(r, "working")
                 /\ UNCHANGED <<held, stalls, crashes>>

\* Mutated forms of Finish: the process lock is kept; the lease is.
FinishLocked(r) == /\ pc[r] = "working" /\ TabIsFree(r)
                   /\ Goto(r, "release")
                   /\ UNCHANGED <<store, held, stalls, crashes>>
FinishLeased(r) == /\ pc[r] = "working" /\ TabIsFree(r)
                   /\ held' = [held EXCEPT ![Tab[r]] = FALSE]
                   /\ Goto(r, "idle")
                   /\ UNCHANGED <<store, stalls, crashes>>

\* The operation is over, well or not: the finally block, which goes on to
\* releaseStorageLease.
Finish(r) == /\ pc[r] = "working" /\ TabIsFree(r)
             /\ held' = [held EXCEPT ![Tab[r]] = FALSE]
             /\ Goto(r, "release")
             /\ UNCHANGED <<store, stalls, crashes>>

Release(r) == /\ pc[r] = "release"
              /\ Goto(r, IF Owns(r) THEN "remove" ELSE "idle")
              /\ UNCHANGED <<store, held, stalls, crashes>>

Remove(r) == /\ pc[r] = "remove"
             /\ store' = NoLease
             /\ Goto(r, "idle")
             /\ UNCHANGED <<held, stalls, crashes>>

-----------------------------------------------------------------------------
(* Time and faults. *)

\* Fifteen seconds without a renewal: the tab of the lease is gone, or its
\* timers are throttled.
Lapse == /\ store # NoLease /\ store.live
         /\ IF store.by = Gone THEN UNCHANGED stalls
                               ELSE stalls < MaxStalls /\ stalls' = stalls + 1
         /\ store' = [store EXCEPT !.live = FALSE]
         /\ UNCHANGED <<pc, held, crashes>>

\* The tab is closed; its lease stays.
Crash(t) == /\ crashes < MaxCrashes /\ crashes' = crashes + 1
            /\ \E r \in Runs : Tab[r] = t /\ pc[r] # "idle"
            /\ pc' = [r \in Runs |-> IF Tab[r] = t THEN "idle" ELSE pc[r]]
            /\ held' = [held EXCEPT ![t] = FALSE]
            /\ store' = IF \E r \in Runs : Tab[r] = t /\ Owns(r)
                          THEN [store EXCEPT !.by = Gone] ELSE store
            /\ UNCHANGED stalls

-----------------------------------------------------------------------------
Acquire(r) == WriteLease(r) \/ Confirm(r) \/ Settle(r) \/ Enter(r)
Leave(r)   == Finish(r) \/ Release(r) \/ Remove(r)

Next == \/ \E r \in Runs : \/ Start(r) \/ Acquire(r) \/ Leave(r)
                           \/ RenewRead(r) \/ RenewWrite(r)
        \/ Lapse
        \/ \E t \in Tabs : Crash(t)

Spec == Init /\ [][Next]_vars

\* A call goes on by itself, an operation ends although its timer fires in
\* between, time passes, and a push is asked for again and again.
Fairness == /\ \A r \in Runs : /\ WF_vars(Acquire(r) \/ RenewWrite(r))
                               /\ SF_vars(Leave(r))
            /\ WF_vars(Lapse)
            /\ WF_vars(\E r \in Runs : Start(r))

FairSpec == Spec /\ Fairness

-----------------------------------------------------------------------------
(* Properties. *)

TypeOK == /\ store \in Lease \cup {NoLease}
          /\ pc \in [Runs -> PCs]
          /\ held \in [Tabs -> BOOLEAN]
          /\ stalls \in 0 .. MaxStalls
          /\ crashes \in 0 .. MaxCrashes

Leading == {r \in Runs : pc[r] \in {"working", "renew"}}

\* One leader among all tabs, and one more at most for each lease that lapsed
\* under a live run, since a drain is not stopped when its lease is lost.
OneLeader == Cardinality(Leading) <= 1 + stalls

\* Within a tab there is one leader whatever happens to the lease, and the
\* process lock tells whether there is: never lost, never left behind.
OneLeaderPerTab ==
  \A t \in Tabs : Cardinality({r \in Leading : Tab[r] = t}) = IF held[t] THEN 1 ELSE 0

\* A call that is over leaves no lease: no tab waits for a leader that does
\* not exist, unless it was closed.
NoLeaseLeftBehind ==
  store # NoLease /\ store.by \in Runs => pc[store.by] \notin {"idle", "write"}

\* The lease of a tab that was closed does not lock the others out.
OrphanIsReclaimed ==
  store # NoLease /\ store.by = Gone ~> store = NoLease \/ store.by # Gone
=============================================================================
