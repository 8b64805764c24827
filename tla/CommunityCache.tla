---------------------------- MODULE CommunityCache ----------------------------
(***************************************************************************)
(* The cache of the energy request rows that the list of messages shows.   *)
(* The list reads the database without holding the cache's mutex, so the   *)
(* rows it wants to keep may be older than a run that was written          *)
(* meanwhile.  A generation, counted up whenever the cache is cleared,     *)
(* tells.                                                                  *)
(*                                                                         *)
(* Rows are abstracted to the number of writes they contain: of all        *)
(* tenants, since a write clears the cache of all tenants.  Bound:         *)
(* MaxWrites writes, successful or not.                                    *)
(***************************************************************************)
EXTENDS Naturals

CONSTANTS Tenants,
          Writers,   \* goroutines that save, change, delete or close a run
          Readers,   \* goroutines that list the messages of a tenant
          MaxWrites

ASSUME WritesAssumption == MaxWrites \in Nat

VARIABLES written,     \* successful writes in the database
          entries,     \* entries[t]: {} or the one entry, the writes it contains
          generation,  \* how often the cache was cleared
          writer,      \* writer[w]: "idle", or "wrote" with its write (0: failed)
          reader,      \* reader[r]: what it is doing
          done         \* history: the latest write whose operation has returned

cacheVars == <<written, entries, generation, writer, reader, done>>

CacheTypeOK ==
  /\ written \in Nat /\ generation \in Nat /\ done \in Nat
  /\ entries \in [Tenants -> SUBSET Nat]
  /\ writer \in [Writers -> [pc : {"idle", "wrote"}, write : Nat]]
  /\ reader \in [Readers -> [pc : {"idle", "missed", "read"}, tenant : Tenants, generation : Nat, rows : Nat]]

CacheInit ==
  /\ written = 0 /\ generation = 0 /\ done = 0
  /\ entries = [t \in Tenants |-> {}]
  /\ writer = [w \in Writers |-> [pc |-> "idle", write |-> 0]]
  /\ reader \in [Readers -> [pc : {"idle"}, tenant : Tenants, generation : {0}, rows : {0}]]

-----------------------------------------------------------------------------
\* A run is saved, changed, deleted or closed; the database may refuse.
Write(w) ==
  /\ writer[w].pc = "idle" /\ generation < MaxWrites
  /\ \/ /\ written' = written + 1
        /\ writer' = [writer EXCEPT ![w] = [pc |-> "wrote", write |-> written']]
     \/ /\ writer' = [writer EXCEPT ![w] = [pc |-> "wrote", write |-> 0]]
        /\ UNCHANGED written
  /\ UNCHANGED <<entries, generation, reader, done>>

\* In any case the cache is cleared before the operation returns.
ClearCommunityCache(w) ==
  /\ writer[w].pc = "wrote"
  /\ entries' = [t \in Tenants |-> {}] /\ generation' = generation + 1
  /\ writer' = [writer EXCEPT ![w] = [pc |-> "idle", write |-> 0]]
  /\ done' = IF writer[w].write > done THEN writer[w].write ELSE done
  /\ UNCHANGED <<written, reader>>

\* No entry for the tenant, or one older than communityCacheTTL: it may be too
\* old at any time, so nothing but the generation matters here.
Miss(r, t) ==
  /\ reader[r].pc = "idle"
  /\ reader' = [reader EXCEPT ![r] = [pc |-> "missed", tenant |-> t, generation |-> generation, rows |-> 0]]
  /\ UNCHANGED <<written, entries, generation, writer, done>>

ReadRows(r) ==
  /\ reader[r].pc = "missed"
  /\ reader' = [reader EXCEPT ![r].pc = "read", ![r].rows = written]
  /\ UNCHANGED <<written, entries, generation, writer, done>>

\* (slip: the rows are kept in any case)
StoreCommunityRowsAlways(r) ==
  /\ reader[r].pc = "read"
  /\ entries' = [entries EXCEPT ![reader[r].tenant] = {reader[r].rows}]
  /\ reader' = [reader EXCEPT ![r].pc = "idle"]
  /\ UNCHANGED <<written, generation, writer, done>>

\* The rows are shown, and kept unless the cache was cleared since the look-up.
StoreCommunityRows(r) ==
  /\ reader[r].pc = "read"
  /\ entries' = IF reader[r].generation = generation
                  THEN [entries EXCEPT ![reader[r].tenant] = {reader[r].rows}] ELSE entries
  /\ reader' = [reader EXCEPT ![r].pc = "idle"]
  /\ UNCHANGED <<written, generation, writer, done>>

\* The database did not answer.
ReadFails(r) ==
  /\ reader[r].pc = "missed"
  /\ reader' = [reader EXCEPT ![r].pc = "idle"]
  /\ UNCHANGED <<written, entries, generation, writer, done>>

CacheNext ==
  \/ \E w \in Writers : Write(w) \/ ClearCommunityCache(w)
  \/ \E r \in Readers : ReadRows(r) \/ StoreCommunityRows(r) \/ ReadFails(r) \/ \E t \in Tenants : Miss(r, t)

CacheSpec == CacheInit /\ [][CacheNext]_cacheVars

-----------------------------------------------------------------------------
\* Whoever has requested energy data sees the request: no list is answered
\* from rows that lack a write of this instance whose operation has returned.
NoStaleEntry == \A t \in Tenants : \A v \in entries[t] : done <= v

\* Why: rows that may still be kept contain all these writes, too.
KeepableRows ==
  /\ done <= written
  /\ \A w \in Writers : writer[w].write <= written
  /\ \A r \in Readers : /\ reader[r].generation <= generation
                        /\ reader[r].pc = "read" /\ reader[r].generation = generation => done <= reader[r].rows

\* The inductive invariant.
CacheInv == CacheTypeOK /\ KeepableRows /\ NoStaleEntry
=============================================================================
