--------------------------- MODULE MCSampleTables ---------------------------
(***************************************************************************)
(* The reader's loops over the sample tables, compared with definitions    *)
(* that say what they should find, on every small set of tables.           *)
(***************************************************************************)
EXTENDS SampleTables

CONSTANTS
  MaxChunks,    \* bound: chunks in a track
  MaxPerChunk,  \* bound: samples in a chunk
  Scale, Ticks  \* units of stts and ticks in a second

VARIABLES tables, sample

vars == <<tables, sample>>

(* Chunk groups: their first chunks increase, and the first is chunk 1.    *)
Layouts(chunks) ==
  {g \in UNION {[1 .. n -> [firstChunk : 1 .. chunks, perChunk : 1 .. MaxPerChunk]] : n \in 1 .. chunks} :
     /\ g[1].firstChunk = 1
     /\ \A j \in 1 .. Len(g) - 1 : g[j].firstChunk < g[j + 1].firstChunk}

GroupOf(groups, c) ==
  CHOOSE g \in DOMAIN groups :
    groups[g].firstChunk <= c /\ \A h \in DOMAIN groups : groups[h].firstChunk <= c => h <= g

SamplesUpTo(groups, c) == Total([d \in 1 .. c |-> groups[GroupOf(groups, d)].perChunk])

Sizes(count) ==
  {[all |-> 7, count |-> count, each |-> <<>>],
   [all |-> 0, count |-> count, each |-> [n \in 1 .. count |-> n % 3]]}

(* Decoding times in two runs, the second possibly of duration 0.          *)
Durations(count) ==
  {<<[count |-> 1, value |-> 3], [count |-> count - 1, value |-> d]>> : d \in {0, 3, 7}}

SyncSets(count) == {1 .. count + 1} \cup {{1} \cup s : s \in SUBSET {2, 4, count}}

TablesOf(chunks, groups) ==
  LET count == SamplesUpTo(groups, chunks)
  IN  {[stsc |-> groups, stco |-> [c \in 1 .. chunks |-> 100 * c],
        stsz |-> z, stts |-> r, stss |-> s \cap 1 .. count + 1, ctts |-> <<>>] :
         z \in Sizes(count), r \in Durations(count), s \in SyncSets(count)}

Init ==
  /\ \E chunks \in 1 .. MaxChunks : \E groups \in Layouts(chunks) : tables \in TablesOf(chunks, groups)
  /\ sample = 1

NextSample ==
  /\ sample < tables.stsz.count
  /\ sample' = sample + 1
  /\ UNCHANGED tables

Spec == Init /\ [][NextSample]_vars

-----------------------------------------------------------------------------
(***************************************************************************)
(* GetFileOffset finds a sample in the chunk that the chunk groups put it  *)
(* in, behind the samples before it in that chunk.                         *)
(***************************************************************************)
OffsetByLayout ==
  LET chunk  == CHOOSE c \in DOMAIN tables.stco :
                  SamplesUpTo(tables.stsc, c - 1) < sample /\ sample <= SamplesUpTo(tables.stsc, c)
      before == {n \in 1 .. sample - 1 : n > SamplesUpTo(tables.stsc, chunk - 1)}
  IN  tables.stco[chunk] + MapThenSumSet(LAMBDA n : SizeOf(tables, n), before)

OffsetsFollowLayout == GetFileOffset(tables, sample) = OffsetByLayout

(***************************************************************************)
(* The loop of GetStartAndEndIndex finds the window that the abstract      *)
(* track of SampleTimes defines, and the list built from a range of        *)
(* indices holds the samples of its batch.                                 *)
(***************************************************************************)
Track == INSTANCE SampleTimes WITH
  SampleCount <- tables.stsz.count,
  TimeStamp   <- [n \in 0 .. tables.stsz.count |-> SampleTime(tables, n, Scale, Ticks)],
  SyncSamples <- {n - 1 : n \in tables.stss}

Starts == {SampleTime(tables, sample - 1, Scale, Ticks), SampleTime(tables, sample - 1, Scale, Ticks) + 1}

LoopFindsWindow ==
  \A from \in Starts : \A to \in {from, from + 25} :
    GetStartAndEndIndex(tables, Scale, Ticks, from, to)
      = <<Track!FirstOfWindow(from, to), Track!LastOfWindow(from, to)>>

ListIsBatch ==
  \A last \in sample - 1 .. sample + 1 :
    LET batch == Track!BatchByIndex(sample - 1, last)
        list  == SampleList(tables, sample, last + 1, Scale, Ticks)
    IN  /\ list.ok
        /\ {s.index : s \in list.samples} = {n \in 0 .. tables.stsz.count - 1 : Track!Holds(batch, n)}
=============================================================================
