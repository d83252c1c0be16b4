------------------------------ MODULE SyncPull ------------------------------
(***************************************************************************)
(* The pull of master data: executePull of a till (apps/pos/src/services/  *)
(* sync-orchestrator.ts) and handlePullSync of the server (packages/       *)
(* pos-sync/src/pull/index.ts), with the triggers of the database that     *)
(* raise the version the two go by.                                        *)
(*                                                                         *)
(* The till reads its metadata and its active products, asks, and writes   *)
(* what it got table by table, each in a transaction of its own.  The      *)
(* server reads the version and the tables on several connections at a     *)
(* time.  Products and variants are sets; tables and reservations, which   *)
(* the version does not guard at the till, are one revision number, called *)
(* floor.  The orders of the response are always empty, and the tax        *)
(* configuration, written like the floor, is left out.                     *)
(***************************************************************************)
EXTENDS Integers, FiniteSets

CONSTANTS
  Tabs,        \* tabs of the till, over one IndexedDB
  Items,
  Variants,
  MaxVersion   \* bound on sync_versions.current_version

VARIABLES
  server,   \* what the server has: version, items and variants on sale, floor
  active,   \* products_cache: the active items
  options,  \* variants_cache: the rows with is_active
  floor,    \* outlet_tables and reservations
  metadata, \* sync_metadata.last_data_version, 0 for no row
  pull      \* pullInFlight and the local variables of executePull

vars == <<server, active, options, floor, metadata, pull>>

-----------------------------------------------------------------------------
Parts == {"version", "items", "variants", "floor"}

NoAnswer == [version |-> 0, items |-> {}, variants |-> {}, floor |-> 0]

Idle == [pc |-> "idle", since |-> 0, stored |-> 0, known |-> {},
         todo |-> {}, ans |-> NoAnswer, steady |-> TRUE]

Goto(t, where) == pull' = [pull EXCEPT ![t].pc = where]

Init == /\ server = NoAnswer
        /\ active = {} /\ options = {} /\ floor = 0 /\ metadata = 0
        /\ pull = [t \in Tabs |-> Idle]

-----------------------------------------------------------------------------
(* The server. *)

\* BumpSyncTiers, in the statement of the trigger that calls it: one version
\* for the items and prices, the tax rates, the tables and the reservations.
Change(items, variants, moved) ==
  /\ server.version < MaxVersion
  /\ server' = [version |-> server.version + 1, items |-> items, variants |-> variants,
                floor |-> IF moved THEN server.floor + 1 ELSE server.floor]
  /\ pull' = [t \in Tabs |-> [pull[t] EXCEPT !.steady = @ /\ items = server.items]]
  /\ UNCHANGED <<active, options, floor, metadata>>

ChangeItems == \E items \in SUBSET Items \ {server.items} :
                 Change(items, server.variants, FALSE)
ChangeTables == Change(server.items, server.variants, TRUE)

\* Variants have no trigger: their price and stock change unannounced.
ChangeVariants ==
  /\ \E variants \in SUBSET Variants \ {server.variants} :
       server' = [server EXCEPT !.variants = variants]
  /\ UNCHANGED <<active, options, floor, metadata, pull>>

\* One of the concurrent reads of handlePullSync; items only for a pull from
\* the beginning.
Read(t, part) ==
  /\ pull[t].pc = "asked" /\ part \in pull[t].todo
  /\ pull' = [pull EXCEPT ![t].todo = @ \ {part},
       ![t].ans[part] = IF part = "items" /\ pull[t].since # 0 THEN {} ELSE server[part]]
  /\ UNCHANGED <<server, active, options, floor, metadata>>

\* The items in payload.prices of handlePullSync.
Prices == {}

-----------------------------------------------------------------------------
(* The till. *)

\* executePull reads the metadata and the active products; with none active
\* it asks for everything.
Ask(t) ==
  /\ pull[t].pc = "idle"
  /\ pull' = [pull EXCEPT ![t] = [Idle EXCEPT !.pc = "asked", !.stored = metadata, !.known = active,
                !.since = IF active = {} THEN 0 ELSE metadata, !.todo = Parts]]
  /\ UNCHANGED <<server, active, options, floor, metadata>>

\* The response is there, or the pull fails.
Receive(t) ==
  /\ pull[t].pc = "asked" /\ pull[t].todo = {}
  /\ Goto(t, IF pull[t].ans.version > pull[t].stored THEN "products" ELSE "metadata")
  /\ UNCHANGED <<server, active, options, floor, metadata>>

Fail(t) == /\ pull[t].pc = "asked"
           /\ pull' = [pull EXCEPT ![t] = Idle]
           /\ UNCHANGED <<server, active, options, floor, metadata>>

\* Rows for the items that have a price; of the products that were active when
\* the pull began, those without a row become inactive.
PutProducts(t) ==
  LET rows == pull[t].ans.items \cap Prices IN
  /\ pull[t].pc = "products"
  /\ active' = (active \ (pull[t].known \ rows)) \cup rows
  /\ Goto(t, "variants")
  /\ UNCHANGED <<server, options, floor, metadata>>

\* Rows that are not in the response stay as they are.
PutVariants(t) ==
  /\ pull[t].pc = "variants"
  /\ options' = options \cup pull[t].ans.variants
  /\ Goto(t, "metadata")
  /\ UNCHANGED <<server, active, floor, metadata>>

PutMetadata(t) ==
  /\ pull[t].pc = "metadata"
  /\ metadata' = IF pull[t].ans.version > pull[t].stored THEN pull[t].ans.version ELSE pull[t].stored
  /\ Goto(t, "floor")
  /\ UNCHANGED <<server, active, options, floor>>

PutFloor(t) ==
  /\ pull[t].pc = "floor"
  /\ floor' = pull[t].ans.floor
  /\ Goto(t, "ended")
  /\ UNCHANGED <<server, active, options, metadata>>

Return(t) == /\ pull[t].pc = "ended"
             /\ pull' = [pull EXCEPT ![t] = Idle]
             /\ UNCHANGED <<server, active, options, floor, metadata>>

\* The tab goes away between two writes.
Crash(t) == /\ pull[t].pc \in {"products", "variants", "metadata", "floor"}
            /\ pull' = [pull EXCEPT ![t] = Idle]
            /\ UNCHANGED <<server, active, options, floor, metadata>>

Next == \/ ChangeItems \/ ChangeTables \/ ChangeVariants
        \/ \E t \in Tabs :
             \/ Ask(t) \/ Receive(t) \/ Fail(t) \/ Crash(t) \/ Return(t)
             \/ PutProducts(t) \/ PutVariants(t) \/ PutMetadata(t) \/ PutFloor(t)
             \/ \E part \in Parts : Read(t, part)

Spec == Init /\ [][Next]_vars

-----------------------------------------------------------------------------
(* Properties. *)

\* What the comment at executePull says: a till with an empty catalogue heals
\* itself by a full pull.  After a full pull that succeeds, with items on sale
\* all the while and no change to them, the till has a product to sell.
SelfHeals ==
  \A t \in Tabs :
    pull[t].pc = "ended" /\ pull[t].since = 0 /\ pull[t].steady /\ server.items # {}
      => active # {}
=============================================================================
