------------------------------- MODULE Usage -------------------------------
(***************************************************************************)
(* UsageRecorder: requests are counted per (day, app, endpoint) in memory, *)
(* and a loop adds the counts to global.usage_daily one entry at a time.   *)
(* Response bytes go the way of the counts, and the rows pruned after 400  *)
(* days are left out.                                                      *)
(***************************************************************************)
EXTENDS Naturals

CONSTANTS Keys,
          MaxRecords  \* bound: requests counted of a key and any other

ASSUME MaxRecordsAssumption == MaxRecords \in Nat

VARIABLES
  counts,    \* UsageRecorder.counts
  batch,     \* what Flush took
  unwritten, \* entries of the batch the repository has not added yet
  flushing,  \* a flush is under way
  daily,     \* global.usage_daily
  recorded,  \* history: requests counted
  failed,    \* history: keys of a batch that was merged back
  lost       \* history: keys whose counts a stop or a panic took from memory

memory == <<counts, batch, unwritten, flushing>>
usageVars == <<memory, daily, recorded, failed, lost>>

Zero == [k \in Keys |-> 0]

UsageInit ==
  /\ counts = Zero /\ batch = Zero /\ unwritten = {} /\ flushing = FALSE
  /\ daily = Zero /\ recorded = Zero /\ failed = {} /\ lost = {}

-----------------------------------------------------------------------------
(* Plausible bugs, used only to show that the properties can fail. *)

\* A failed flush puts its batch in the place of the counts.
PutsBack ==
  /\ flushing /\ flushing' = FALSE
  /\ \E k \in unwritten :
       daily' \in {daily, [daily EXCEPT ![k] = @ + batch[k]]}
  /\ counts' = batch
  /\ batch' = Zero /\ unwritten' = {} /\ failed' = failed \cup {k \in Keys : batch[k] > 0}
  /\ UNCHANGED <<recorded, lost>>

-----------------------------------------------------------------------------
Record(k) ==
  /\ \A j \in Keys : recorded[k] + (IF j = k THEN 0 ELSE recorded[j]) < MaxRecords
  /\ counts' = [counts EXCEPT ![k] = @ + 1]
  /\ recorded' = [recorded EXCEPT ![k] = @ + 1]
  /\ UNCHANGED <<batch, unwritten, flushing, daily, failed, lost>>

\* Flush swaps the map for an empty one under the mutex, ...
TakeBatch ==
  /\ ~flushing /\ flushing' = TRUE
  /\ batch' = counts /\ unwritten' = {k \in Keys : counts[k] > 0}
  /\ counts' = Zero
  /\ UNCHANGED <<daily, recorded, failed, lost>>

\* ... adds its entries to their rows, each by a statement of its own, ...
AddEntry(k) ==
  /\ k \in unwritten
  /\ daily' = [daily EXCEPT ![k] = @ + batch[k]]
  /\ unwritten' = unwritten \ {k}
  /\ UNCHANGED <<counts, batch, flushing, recorded, failed, lost>>

FlushEnds ==
  /\ flushing /\ unwritten = {} /\ flushing' = FALSE
  /\ batch' = Zero
  /\ UNCHANGED <<counts, unwritten, daily, recorded, failed, lost>>

\* ... and merges all of them back when one fails; a statement that failed for
\* the recorder may have been committed.
FlushFails ==
  /\ flushing /\ flushing' = FALSE
  /\ \E k \in unwritten :
       daily' \in {daily, [daily EXCEPT ![k] = @ + batch[k]]}
  /\ counts' = [k \in Keys |-> counts[k] + batch[k]]
  /\ batch' = Zero /\ unwritten' = {} /\ failed' = failed \cup {k \in Keys : batch[k] > 0}
  /\ UNCHANGED <<recorded, lost>>

\* flushTick recovers a panic of a flush, and its batch is gone.
FlushPanics ==
  /\ flushing /\ flushing' = FALSE
  /\ \E k \in unwritten :
       daily' \in {daily, [daily EXCEPT ![k] = @ + batch[k]]}
  /\ lost' = lost \cup unwritten
  /\ batch' = Zero /\ unwritten' = {}
  /\ UNCHANGED <<counts, recorded, failed>>

\* The process stops; the last flush runs on a context already cancelled.
UsageStops ==
  /\ counts' = Zero /\ batch' = Zero /\ unwritten' = {} /\ flushing' = FALSE
  /\ lost' = lost \cup unwritten \cup {k \in Keys : counts[k] > 0}
  /\ UNCHANGED <<daily, recorded, failed>>

Flush == TakeBatch \/ (\E k \in Keys : AddEntry(k)) \/ FlushEnds

UsageNext == (\E k \in Keys : Record(k)) \/ Flush

-----------------------------------------------------------------------------
(* Properties. *)

UsageTypeOK ==
  /\ counts \in [Keys -> Nat] /\ batch \in [Keys -> Nat]
  /\ unwritten \subseteq Keys /\ flushing \in BOOLEAN
  /\ daily \in [Keys -> Nat] /\ recorded \in [Keys -> Nat]
  /\ failed \subseteq Keys /\ lost \subseteq Keys
  /\ ~flushing => unwritten = {}

\* Every request is in the row of its key or on its way there.
OnTheWay(k) == counts[k] + (IF k \in unwritten THEN batch[k] ELSE 0)

\* No count is lost, whatever flushes fail and whatever requests come in while
\* one is under way, unless the process stopped or a flush panicked with it in
\* memory, and a request is counted twice only if a flush of its key failed.
CountsSurvive ==
  \A k \in Keys :
    /\ k \in lost \/ recorded[k] <= daily[k] + OnTheWay(k)
    /\ k \in failed \/ daily[k] + OnTheWay(k) <= recorded[k]
=============================================================================
