---------------------------- MODULE RuleSetCache ----------------------------
(***************************************************************************)
(* The versioned cache of the legacy rule server and its garbage           *)
(* collector.  Every method holds the cache's lock; the collector calls    *)
(* several of them in turn, and writers run between its calls.             *)
(***************************************************************************)
EXTENDS Naturals, SequencesExt, FiniteSetsExt

CONSTANTS Instances,
          Sizes,    \* payload sizes, which stand for the payloads
          MaxAge, MaxSize,
          MaxPuts, MaxClock  \* bounds

VARIABLES
  entries,       \* entries[i]: oldest first, empty when i is not in the map
  latest,        \* latest[i]: the UUID marked latest, 0 when i is not in the map
  totalSize, totalEntries,
  puts,          \* UUIDs are numbered in the order of Put
  clock,
  gc             \* the call the collector makes next

vars == <<entries, latest, totalSize, totalEntries, puts, clock, gc>>
store == <<entries, latest, totalSize, totalEntries>>

Init == /\ entries = [i \in Instances |-> <<>>]
        /\ latest = [i \in Instances |-> 0]
        /\ totalSize = 0 /\ totalEntries = 0
        /\ puts = 0
        /\ clock = 0
        /\ gc = "wait"

Tick == /\ clock < MaxClock
        /\ clock' = clock + 1
        /\ UNCHANGED <<store, puts, gc>>

SizeOf(es) == FoldLeft(LAMBDA n, e : n + e.size, 0, es)

\* latestEntryLocked: the entries that carry the UUID marked latest.
Get(i) == {e \in ToSet(entries[i]) : e.uuid = latest[i]}

Put(i, size) ==
  /\ puts < MaxPuts
  /\ puts' = puts + 1
  /\ entries' = [entries EXCEPT ![i] = Append(@, [uuid |-> puts', size |-> size, at |-> clock])]
  /\ latest' = [latest EXCEPT ![i] = puts']
  /\ totalSize' = totalSize + size
  /\ totalEntries' = totalEntries + 1
  /\ UNCHANGED <<clock, gc>>

\* Fault: the entries are removed without their sizes.
DeleteUncounted(i) ==
  /\ latest[i] # 0
  /\ entries' = [entries EXCEPT ![i] = <<>>]
  /\ latest' = [latest EXCEPT ![i] = 0]
  /\ UNCHANGED <<totalSize, totalEntries, puts, clock, gc>>

Delete(i) ==
  /\ latest[i] # 0
  /\ totalSize' = totalSize - SizeOf(entries[i])
  /\ totalEntries' = totalEntries - Len(entries[i])
  /\ entries' = [entries EXCEPT ![i] = <<>>]
  /\ latest' = [latest EXCEPT ![i] = 0]
  /\ UNCHANGED <<puts, clock, gc>>

Keep(kept) ==
  /\ entries' = kept
  /\ totalSize' = totalSize - MapThenSumSet(LAMBDA i : SizeOf(entries[i]) - SizeOf(kept[i]), Instances)
  /\ totalEntries' = totalEntries - MapThenSumSet(LAMBDA i : Len(entries[i]) - Len(kept[i]), Instances)
  /\ UNCHANGED latest

Fresh(i, e) == e.uuid = latest[i] \/ clock - e.at <= MaxAge

\* A tick of rungc starts with Prune.
Prune == /\ gc = "wait"
         /\ Keep([i \in Instances |-> SelectSeq(entries[i], LAMBDA e : Fresh(i, e))])
         /\ gc' = "measure"
         /\ UNCHANGED <<puts, clock>>

Measure == /\ gc = "measure"
           /\ gc' = IF totalSize > MaxSize THEN "shrink" ELSE "wait"
           /\ UNCHANGED <<store, puts, clock>>

\* One instance of PruneBySize: entries go, oldest first and never the latest,
\* while the size is above the maximum.
Shrink(i, state) ==
  FoldLeft(LAMBDA s, e : IF e.uuid = latest[i] \/ s.size <= MaxSize
                         THEN [s EXCEPT !.kept[i] = Append(@, e)]
                         ELSE [s EXCEPT !.size = @ - e.size],
           [state EXCEPT !.kept[i] = <<>>], entries[i])

\* The map is ranged over in any order.
PruneBySize ==
  /\ gc = "shrink"
  /\ \E order \in SetToSeqs(Instances) :
       Keep(FoldLeft(LAMBDA s, i : Shrink(i, s), [size |-> totalSize, kept |-> entries], order).kept)
  /\ gc' = "report"
  /\ UNCHANGED <<puts, clock>>

\* The size that is reported above the maximum is read after another unlock.
Report == /\ gc = "report"
          /\ gc' = "wait"
          /\ UNCHANGED <<store, puts, clock>>

Next == \/ Tick \/ Prune \/ Measure \/ PruneBySize \/ Report
        \/ \E i \in Instances : Delete(i) \/ \E s \in Sizes : Put(i, s)

Spec == Init /\ [][Next]_vars

----------------------------------------------------------------------------
(* Properties                                                              *)

Size(es) == MapThenSumSet(LAMBDA i : SizeOf(es[i]), Instances)
Removed(i) == ToSet(entries[i]) \ ToSet(entries'[i])
Served(es, i) == IF es[i] = <<>> THEN {} ELSE {Last(es[i])}

\* Collection is neither greedy nor idle, although it acts on running totals
\* that puts and deletions change between its calls: it never removes the
\* newest entry, which is the one served; the pruning by age removes only old
\* entries; and the pruning by size stops as soon as the entries fit, and
\* before that only when every instance is down to its newest entry.
GarbageOnly ==
  [][gc' # gc =>
       LET removed == UNION {Removed(i) : i \in Instances} IN
       /\ \A i \in Instances : Get(i) = Served(entries', i)
       /\ gc = "wait" => \A e \in removed : clock - e.at > MaxAge
       /\ gc = "shrink" => Size(entries') <= MaxSize \/ \A i \in Instances : Len(entries'[i]) <= 1
       /\ gc = "shrink" /\ removed # {} => \E e \in removed : Size(entries') + e.size > MaxSize]_vars
=============================================================================
