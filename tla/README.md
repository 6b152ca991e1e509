# GPUCyclops: a verification project

TLA+ models of the media library of GPUCyclops (`src/VideoStreamCodecs`, C#)
and of the H.264 reference codec it comes with (`src/H.264`, the JM encoder and
decoder in C), the TLC configurations that check them, and proofs checked by
TLAPS.

The library reads and writes container files: MP4, fragmented MP4 (ISMV), the
QBOX recordings of a camera server, raw H.264. Every format has a reader and a
writer behind common interfaces (`IMediaStream`, `IMediaTrack`), and a recoder
enumerates the slices (samples) of source tracks and puts them in destination
tracks. What is hard in this program is bookkeeping: which slices are in
memory, which are described in the tables of the file being written, and which
have been written, all of which are counted separately and have to agree.

The codec is a pair of programs that never meet: the encoder describes what it
does in a stream of bits, and the decoder rebuilds the state the description
refers to. What is hard there is that both sides count the same things, modulo
something, from different evidence: frame numbers, picture order counts, marks
on reference pictures, zeros in a row.

## 1. The system

| Component | State | Operations | Used by | Correct when |
|---|---|---|---|---|
| Read cache, `PerTrackCacheManager` (`Generic/CacheManager.cs`) | four buffers with relevancy scores, `readCache`, `writeCache`, `previousRequest`, `blockSize`, `EndIndex` | `PrepareSampleInfo`, called by the indexer for every request; `Initialize` | track indexer | a request is served exactly when the track has the sample, whatever was asked before |
| Track and enumerators, `GenericMediaTrack` | position of each enumerator; `IndexingExclusion` | `this[i]`, `MoveNext`, `Reset`, `Current`, `CurrentTimeStampNew`, `SetCurrent` | drivers, `foreach` | an enumerator sees every sample once, in order, and stops after the last |
| Sample table, reading (`MP4/Boxes/.../stbl`) | the boxes stts, ctts, stsz, stsc, stco, stss | batch by index, batch by time, `GetFileOffset`, integrity check | read cache | batches start and end where asked; offsets follow the chunk layout |
| Block writer, `PerTrackCacheManager` and the setter of `GenericMediaTrack` | slices buffered per track, block size | `SetCurrent`, `track_PrepareMediaHeaders` | recode driver | nothing put is lost or repeated; blocks are cut at IFrames |
| Sample table, writing | temporary files of stsz, stss, stts, stco; run being counted; ctts entries | `InitSampleTableBoxFromStreamLocations`, `FinalizeBox` | block writer | the tables describe what is in the mdat |
| `MP4StreamWriter` | `CurrMDatOffset`, the temporary mdat file, `CurrentState` | `WriteSamples`, `CheckMDatOffset`, `FinalizeStream` | block writer, driver | the finished file holds every slice where its tables say |
| Recode driver, `GenericRecodeWRC` | an enumerator per source and per destination track, sync time | `EnumerateSyncPoints`, `Recode` | console application | what is put is the source from a sync point on |
| `MP4StreamReader`, `MP4Stream` | the box tree | sequential parsing | application | |
| `MP4StreamPayload` | an audio and a video file | merging | application | |
| QBOX reader, `FlashbackCacheManager` | lazily read boxes of a live recording | as the read cache | track indexer | as the read cache |
| ISMV reader and writer | fragments, random access box | fragment by fragment | application | |
| Shared memory bridge (`DirectShow/SharedMemory`) | one mapped view | read, write | player | |
| DirectShow player; OpenCL.Net; FJCore | | | | user interface or vendored code |
| JM decoder, decoded picture buffer (`ldecod/src/mbuffer.c`, `lcommon/src/mbuffer_common.c`, `ldecod/src/output.c`) | frame stores with marks, `fs_ref`, `fs_ltref`, `last_picture`, `last_output_poc`, `out_buffer` | `store_picture_in_dpb`, sliding window and adaptive marking, `idr_memory_management`, `flush_dpb`, `fill_frame_num_gap` | picture decoding | marks agree, conforming streams are accepted, frames are shown once each in display order |
| JM decoder, reference lists (`mbuffer.c`, `mbuffer_mvc.c`; commands of `lencod/src/list_reorder.c`) | none, functions of the buffer | `init_lists_p_slice`, `init_lists_b_slice`, `reorder_ref_pic_list` | slice decoding | every usable reference is listed once, in the order the encoder counts on |
| JM codec, picture order count (`lencod/src/pred_struct.c`, `lencod.c`; `decode_poc` of `ldecod/src/header.c`) | previous frame number, offset and POC, on either side | a frame coded, lost, decoded | buffer, lists | the decoder finds the count the encoder meant |
| JM codec, byte stream (`annexb.c`, `nal.c`, `nalu.c`, `vlc.c` of both programs) | the file, the unit and byte at hand | escape, write, find a start code, unescape, parse | parsing and writing of everything | the units and elements read are those written |
| JM codec, macroblocks, motion search, transform, rate control | | per block | | pure computation on samples |
| JM encoder, its picture buffer, SEI, configuration; input and output of frames | | | | |

How they interact: in the library, everything is an ordinary call. The indexer of a track takes
`IndexingExclusion` (one per track), asks the cache manager to make a sample
current, seeks the one stream all tracks share, and reads the payload. The
setter locks the track, appends to the current list and calls
`track_PrepareMediaHeaders`, which calls the sample table (through the event
`PrepareMediaHeaders`) and then the stream writer. `CurrMDatOffset` and the
temporary mdat belong to the stream; lists, tables and block sizes to a track.

In the codec, the encoder gives a picture its `frame_num` and POC, writes them
into slice headers, and the headers into units of the byte stream. The decoder
reads a unit, computes the POC (`decode_poc`), fills a gap in `frame_num` if it
sees one (`init_picture`), builds the reference lists of the slice from its
buffer, decodes, and hands the picture to `store_picture_in_dpb` when the next
one begins (`exit_picture`), which marks, stores and shows. Both are single
threads; the stream between them may have lost pictures.

The hard behaviours, listed with their lines under `hazards` in PROJECT.json:

* an end of track recorded for good by the first lookup that fails; evictions
  that change the list another enumerator is looking at; four buffers and a
  score that is updated by position in a sorted copy;
* ranges made one-based and inclusive in one place and counted in another;
  loops with early exits over four kinds of run-length tables;
* tables that are written before the data they describe, from a counter of
  their own, for two tracks whose blocks fill up in any order;
* two enumerators of the recoder over one video track, a group of pictures
  apart; a range cut at sync points, compared with the last one and the one
  before; a track that ends while the other goes on;
* an IFrame that is carried from the end of one block to the start of the next;
* runs that are pending between blocks; a `ctts` table that comes into being in
  the middle of a track; 32-bit offsets; finalization with slices buffered in
  any track, or in none;
* marks of a frame kept in three places and changed half a frame at a time;
  lists of positions in a buffer whose stores are shifted; a pointer to a first
  field that outlives it; pictures shown past a full buffer;
* frame numbers and picture order counts of which only the low bits are sent,
  while pictures are lost, the numbers wrap, or operation 5 resets them;
* zeros that are payload, start code, `cabac_zero_word` or padding.

## 2. The modules

| Module | Models |
|---|---|
| `BlockSizing` | `CalculateBlockSizeFromInitialSlices` |
| `SampleTimes` | what a track's tables say about times and sync samples; batches by index and by time; `CacheStart`, `CacheEnd` |
| `TrackCache` | the read cache with the indexer and the enumerators |
| `TrackCursor` | abstract: what enumerating a track promises |
| `TrackCacheProofs` | proofs about `TrackCache` |
| `MCTrackCache` | tracks for TLC |
| `RecodeDriver` | composition of `TrackCache` with the recoder: sync points, skipping, copying |
| `RecodeDriverProofs` | proofs about `RecodeDriver` |
| `MCRecodeDriver` | a movie, its sound and ranges of time for TLC |
| `MuxWriter` | put, block cutting, tables, temporary mdat, finalization |
| `MuxLog` | abstract: each track of a file is a log |
| `MuxReadBack` | composition of `MuxWriter` with `SampleTables`: the finished file read by the program's own reader |
| `MuxWriterProofs` | proofs about the offsets of `MuxWriter`, its types, that it implements `MuxLog`, and where blocks start |
| `MuxReadBackProofs` | proofs that the reader gets back what the writer was given |
| `MCMuxWriter` | sources (sequences of slices) for TLC |
| `SampleTables` | the reader's loops over the tables |
| `MCSampleTables` | all small tables, and what the loops should find |
| `DecodedPictureBuffer` | the decoder's buffer: marking, storing, pairing of fields, output, gaps |
| `DisplayOrder` | abstract: frames come in any order and are shown in the order of POC |
| `DecodedPictureBufferProofs` | proofs about its marks, the pairs of fields and the sliding window, that it keeps the order of display, and that it gives up for one reason only |
| `RefPicLists` | initial lists of P and B slices, the encoder's commands and the decoder's reordering, on the states of `DecodedPictureBuffer` |
| `RefPicListsProofs` | proofs about the initial lists of slices of frames |
| `MCDecodedPictureBuffer` | root module of the runs of both |
| `PictureOrderCount` | composition of encoder, losses and decoder for the three types of POC |
| `PictureOrderCountProofs` | proofs about it |
| `MCPictureOrderCount` | an offset for TLC |
| `NalStream` | composition of the encoder's and the decoder's side of the byte stream |
| `SyntaxElements` | the codes of header elements, written and read |
| `NalFifo` | abstract: a file hands over units in order |
| `NalStreamProofs` | proofs about `NalStream` |
| `MCNalStream` | `NalStream` with elements coded into its units and parsed out of them |

### Reading a track: `TrackCache`

A buffer is an interval of samples and a relevancy; a batch read from the file
is always an interval, and what is in a slice beside its index does not matter
to the cache. `readCache`, `writeCache`, `previousRequest`, `blockSize` and
`endIndex` are the fields of the manager. The paths through
`PrepareSampleInfo(int)` are the actions `RefusedAsEnd`, `RefillFromStart`,
`HitCurrent`, `HitOther`, `ReplaceAndHit` and `ReplaceAtEnd`; each contains the
calls it makes (`LookForCachedBlock`, `SetStaleCache`, `ReplaceStaleCacheBuf`,
`UpdateScores`, `ReadAhead`). `Init` is the state after the constructor, which
reads ahead from time 0. A buffer filled by time is fresh whichever it is
(`FilledByTime`): the code resets the relevancy through the buffer that is
current, which is the first, and the others keep the score they are made with,
the same one. The sort in `UpdateScores` and `SetStaleCache` is
unstable, so ties are broken in every way. A request is one step because the
indexer holds `IndexingExclusion` throughout, but `MoveNext` looks at the
current list before it takes it, which is `MoveNextOnEmptyList`.

`TrackCursor` is what an enumerator promises; `TrackCache` with one enumerator
that runs over the track once implements it (`ReadsEverySampleInOrder`). With a
second enumerator it does not (`cache_shared`), nor always with a second pass
(`TrackCacheSecondPass.cfg`): the request behind the last sample leaves an empty list
in the buffer it replaced, and whether `readCache` still names that buffer
afterwards depends on the number and length of the blocks. The track of
`cache_cursor` is one on which three passes work.

Assumed of tracks (`BlockSizeAssumption`): a block size can be computed, that
is, at least two samples that are shorter than `ReadAheadExtent`. On other
tracks the code divides by zero or throws. Times are in ticks; the
decimal rounding of `ConvertToStandardUnit` is a floor here. Edit lists are
left out.

### Recoding a range: `RecodeDriver`

`GenericRecodeWRC.Recode` on top of `TrackCache`, with two enumerators of the
video track that share its cache: `SyncPoints`, which `EnumerateSyncPoints`
moves, and `Source`, which the loop copies from. `phase` is the place in the
loop, `turn` the track whose turn it is. Every use of `CurrentTimeStampNew`
indexes the track again and changes the cache, so each of them is a step
(`Look`), and `looks` counts how many a decision needs. `held` is `Current`,
which `MoveNext` leaves alone when the current list is empty. `SkipSlice` and
`SkippedTrack` are the skipping loop, `CopySlice` and `CopiedTrack` the copying
one, `NextVideoSlice`, `YieldSyncPoint` and `RememberTimeStamp` the iterator
between two of its yields.

The sound is a plain cursor, because it has one enumerator, and those see every
sample in order (`ReadsEverySampleInOrder`). What is put is appended to
`copied`; what the destination does with it is `MuxWriter`. The source is an
MP4 file, all of whose slices have time stamps; QBOX sources, whose B frames
have none, use another cache manager. An end before the start passes the
check of the length, as it does in the code, where the difference is unsigned.
Progress reports and `slice.index`, which `SetCurrent` overwrites, are left out.

Two enumerators of one track can disturb each other (`cache_shared`). In the
states that the recoder reaches this does no harm: the slices it copies are
complete and in order.

What a reader of the code might not expect: the sound that starts after the
last video slice is not copied, also when the range includes it, because the
last sync point is the start of that slice; a range that starts after the last
IFrame gives nothing; and a range that starts where the sound has ended gives a
destination track without slices, at which `FinalizeStream` fails.

### Writing a file: `MuxWriter`

`Put(t)` is `MoveNext` and `SetCurrent` on a destination track with everything
up to the call of the sample table: the slice is appended to the list, the
block size is computed from the first eight slices, and when the list is a
block the part to write is split from what is held back. The loops that follow
are steps of their own, because the properties are about their agreement:
`AddToTables` (a slice in `InitSampleTableBoxFromStreamLocations`) until
`TablesDone`, `WriteSlice` (a payload appended to the temporary mdat) until
`SamplesWritten`, where `CheckMDatOffset` throws if the counts differ.
`BeginFinalize`, `FlushTrack` for each track in turn and `FinalizeBoxes` are
`FinalizeStream`. Exceptions end in the state `Failed`, with `error` saying
which: no block size, an empty list, a mismatch, a track without slices.

Puts of the tracks interleave in any order, which includes the order of the
driver (all slices of a track up to a sync point, then the next track), and
`FinalizeStream` may come at any time between puts. Within a block nothing else
runs: the driver is one thread.

A payload is its track and index; its length is the slice's size
(`SliceBytes.Length = SliceSize`, which the readers guarantee). The size of
`ftyp` and `moov` is any of `HeaderSizes`. `Word` stands for 2^32: TLC's own
integers have 32 bits, so the modulus is a constant, and the files of the runs
fit. Durations of movie and tracks, edit lists, fragmented tracks and failures
of the file system are left out. So is the second field in which a large file
differs, the size 0 of an mdat box above 4 GiB.

Assumed of sources (`StampsAssumption`): the first slice of a track that fills
a block has a time stamp, so has another of the first eight, and stamps do not
decrease. Otherwise `CacheStart` throws, or an unsigned difference wraps.

### Reading it again: `SampleTables`, `MuxReadBack`

`SampleTables` translates `GetFileOffset`, `CheckIntegrityOfChunkData`,
`GetStartAndEndIndex` and the list building of
`InitSampleStreamFromSampleTableBox` loop by loop. `MCSampleTables` compares
them with definitions by quantifiers, and with `SampleTimes`, so that the batch
operators that `TrackCache` uses are themselves checked against the loops.
`MuxReadBack` builds the boxes as `FinalizeBox` and `Write` leave them and
hands them to these operators. Tracks without an `stss` box count every sample
as a sync sample.

### The decoded picture buffer: `DecodedPictureBuffer`, `DisplayOrder`

A store is a record with the marks of the store (`ref`, `lt`: `is_reference`,
`is_long_term`) and those of the pictures in it (`refPics`, `ltPics`: of
`top_field`, `bottom_field`, `frame`), because the code updates them separately.
`fs` is the used part of the array, so that `remove_frame_from_dpb`, which
shifts stores, moves what the positions in `shortRefs`, `longRefs` and
`lastPicture` stand for; the code has pointers there and rebuilds the lists. A
list of the code may point to a removed store until it is rebuilt; in between
only the check for a `frame_num` used twice reads it, and no legal picture
comes with that number.
`pc` is the place in `store_picture_in_dpb`: `Decode` takes the next picture
(`read_new_slice`, `init_picture`), `FillGap` makes up a lost reference frame,
whose POC with type 0 is what the record of the slice still holds
(`StalePocs`: 2 and 5 in `dpb_fields`, before, at and behind the pictures
around it, and 0 elsewhere); the control operations are the disjuncts of `Marking`, and `PairField`,
`SlidingWindow`, `MakeRoom`, `Bump`, `DirectOutput` and `Store` are the parts
of storing. Loops over stores are a step a removal or output. `error` ends in
the state `failed`.

The environment is a conforming stream: the operators `Legal...` say what the
standard lets an encoder send and the code relies on. In particular no
`frame_num` of a short-term reference is used again, sliding-window pictures
come with fewer long-term frames than `num_ref_frames`, the second field of an
IDR picture is not IDR, a second field is a reference exactly if the first is,
frames have even POC and a second field one more, and operations name pictures
that are there, so that the branches for a picture not found are not reached.
Adaptive marking may leave too many references, which the decoder has to
reject. Operation 5 comes in frames only. `LoneFields` says whether fields
without a second field occur among reference pictures (`TRUE`) or others
(`FALSE`). For the latter `OnlyPairsSecondFields` does not hold: a field shown
directly returns before `last_picture` is set.

Left out: error concealment (`conceal_mode` is 0), recovery points, MVC layers,
samples. A buffer full of references that were all shown makes the loop of
`store_picture_in_dpb` go round without effect; this takes an overfull stream,
and is not a step of the model, whose `Bump` waits there.

`DisplayOrder` is the promise to the viewer: frames arrive, and the one shown
is the first of those here; a sequence restarts from nothing.

### Reference lists: `RefPicLists`

The lists are operators on the state in which the first slice of a picture is
read (`SliceBegins`), and an entry is a store and a view of it. `ListP` and
`ListsB` are the two functions of the decoder, `Alternated` the alternation of
parities in `gen_pic_list_from_frame_list`. `Commands` is what
`reorder_against_default_ref_pic_lists` of the encoder writes for a wanted list
and `Reordered` what `reorder_ref_pic_list` does with it. Lists are not cut to
`num_ref_idx_active`. A reference with the POC of the current picture, which a
frame made up may have, counts as one before it (`OnSide`), since the decoder
compares with `>=`. `NearestFirst` leaves out buffers with a field that was
shown alone, because `write_unpaired_field` overwrites the POC of its store.

### Picture order count: `PictureOrderCount`

`encoder` is what `lencod` remembers from frame to frame (`CodeFrame`, with
`Slice` as what goes into the header), `decoder` what `ldecod` remembers
(`DecodeTypeZero`, `DecodeTypeOne`, `DecodeTypeTwo`, and `FillGap`, which runs
`decode_poc` for the frames made up). `LoseFrame` takes a frame out of the
stream. `decoded` keeps the last slice with the counts found for it, and each
slice carries the count the encoder meant, which the decoder never looks at.

The coding order is that of a pyramid of one level: an anchor frame, then up to
`NumberBFrames` frames shown before it. With type 0 a picture is at most half
the range of the low bits from the reference received before it
(`CloseEnough`), as the standard asks and `init_encoder` warns of; losing
references beyond that, or so many that `frame_num` goes round, makes a stream
nobody can decode, and is excluded. Operation 5 is not used by `lencod`; it is
an event of the environment, with types 1 and 2. With type 0 the decoder takes
the POC of such a picture before it is reset, as the assignments in
`adaptive_memory_management` are commented out; this is noted under hazards and
not checked. `frame_skip` is 0, and recovery points and concealment are left out.

### The byte stream: `NalStream`, `SyntaxElements`

`StartUnit`, `EscapeByte`, `WriteUnit` and `Close` are the encoder (a byte a
step in `RBSPtoEBSP`), `FetchUnit`, `UnescapeByte` and `DeliverUnit` the
decoder (a byte a step in `EBSPtoRBSP`). Searches for start codes, which look
at the file and change nothing, are operators with quantifiers over positions.
The decoder reads a complete file. Start codes have three or four bytes, units
may have `cabac_zero_words`, and zeros stand around units, as other encoders
and multiplexers write them. Not modelled: units of types 14 and 20 with three
more header bytes, the size limits of the buffers, and failing file operations.

`SyntaxElements` has the codes `ue(v)`, `se(v)` and `u(n)` of `vlc.c` as bits,
and `more_rbsp_data`. `MCNalStream` codes values into units with them and
parses what is read, so that `HandsOverInOrder` is about values, through the
stop bit, the escapes and the start codes. `Elements` is the loop that does it:
it asks `MoreData` before every element, which the decoder does where an
optional part may follow, so that the test is made at every place in a payload.
The error returns of `GetVLCSymbol` and `GetBits` at the end of a buffer are
left out; nothing that the encoder wrote leads to them.

## 3. The runs

| Run | Shows |
|---|---|
| `cache_requests` | With any three calls by index or for a time stamp between the steps of an enumerator that runs over the track twice, a request is served exactly when the track has the sample (`AnswersMatchTrack`), and a buffer given up is empty or least relevant (`EvictsLeastRelevant`) |
| `cache_cursor` | Three passes of an enumerator, with time stamps asked for in between, implement `TrackCursor`, its liveness included |
| `mux_blocks` | Every interleaving of a video track with B frames and an AAC track, finalized anywhere: `NeverOutOfStep`, `TablesMatchData`, blocks start with an IFrame (`BlocksStartWithSync`), the file is the log of what was put (`WritesTheLog`), the reader finds each slice with its payload, time, sync flag and composition offset (`ReadsPayloads`, `ReadsTiming`, `ReadsComposition`), finalization ends |
| `recode_range` | For 51 ranges of time: what is put in each track is consecutive and starts at the first sync point of the range (`CopiesFromSyncPoint`), nothing up to the end is missing (`NothingIsMissing`), the copy stops at the next sync point (`StopsAtSyncPoint`), time stamps are shifted by one amount per track (`KeepsDistances`), and `Recode` ends without an exception (`RecodeEnds`) |
| `sample_tables` | The reader's loops agree with their definitions on all small tables |
| `dpb_frames` | Streams of frames with every control operation: long-term indices stay distinct, the decoder rejects only overfull streams, the sliding window takes the oldest frame, frames are shown in display order (refinement of `DisplayOrder`), and all of them are shown |
| `dpb_fields` | Frames, pairs of fields, lone reference fields, gaps: the marks agree, only second fields are paired, display order; and in every state where a slice begins, the lists hold each usable reference once (`EveryReferenceIsListed`), in the orders of P and B slices (`LatestFirst`, `NearestFirst`), and the encoder's commands bring any two references to the front (`ReorderingMovesToFront`) |
| `pic_order` | The decoder finds the encoder's counts with types 0 and 1, and with type 2 an increasing order, with B frames, field pairs, several IDR pictures, operation 5 and losses |
| `nal_stream` | Two units with every pattern of zeros and threes at a short length, all start codes, zero words and padding: the units read are those written, and implement a FIFO of elements, its liveness included |
| `cache_shared` (violated) | Two enumerators of one track: one may end early |
| `mux_equal_sizes` (violated) | The reader refuses a file whose samples all have one size |
| `dpb_mixed` (violated) | A frame with a long-term and a short-term field is counted twice, and a stream that keeps to `num_ref_frames` is rejected |

The violated runs are disagreements between the code and its comments or
checks that came up in modelling and in proving; `findings` in PROJECT.json
quotes both sides.
`AcceptsChunkTables` is a property of its own because the reader refuses the
file before it looks for payloads; `ReadsPayloads` is about what the tables say.

Eight more configurations are kept beside these, each with one property that does
not hold. They are not among the runs and can be started by hand:

| Configuration | Module | Violates | Shows |
|---|---|---|---|
| `MuxShortSlices.cfg` | `MCMuxWriter` | `SttsCountsSamples` | slices shorter than a unit of the media header vanish from stts |
| `MuxLateB.cfg` | `MCMuxWriter` | `ReadsComposition` | a first B frame in the second block shifts all composition offsets |
| `MuxQBoxBlocks.cfg` | `MCMuxWriter` | `BlocksStartWithSync` | a block that ends in a B frame is not extended to the next IFrame |
| `RecodeRebase.cfg` | `MCRecodeDriver` | `FirstCopiedAtZero` | the extract does not start at time 0, because `timeStart` is the last slice skipped |
| `PicOrderLateIdr.cfg` | `MCPictureOrderCount` | `TypeOneAsCoded` | the POC of a later IDR picture is computed with the old `frame_num`, which `prepare_frame_params` resets only afterwards |
| `TrackCacheSecondPass.cfg` | `MCTrackCache` | `EnumerationIsComplete` | the second pass of the only enumerator of a track reads nothing |
| `TrackCacheShortWindow.cfg` | `MCTrackCache` | `EvictsLeastRelevant` | when a track whose second window has one sample was prepared, the wrong buffer is given up |
| `DpbReusedNumber.cfg` | `MCDecodedPictureBuffer` | `LongTermIndicesDistinct` | a field is given the long-term index of a field of another frame whose `frame_num` was the same, and both keep it |

The last three are why theorems below have a premise: the proofs of
`EnumerationIsComplete`, `EvictsLeastRelevant` and `LongTermIndicesDistinct` did
not go through without it, and TLC found the case that the premise excludes.

Bounds. Tracks of fourteen samples with blocks of one or two need more than the
four buffers, so evictions, wrap-around of the buffer in turn, reading past the
end, and refilling happen within a few requests; a sync sample in three makes
windows by time longer than windows by index. `MaxExtraCalls` and `MaxPasses`
bound the calls. Eleven to thirteen slices are two or three blocks of video
after the first eight slices, with IFrames held back, blocks extended and an
end in the middle of a block; the AAC tracks take the other divisor of the
block size. Tables of three chunks of up to three samples have every pattern
of chunk groups: one group, a group of one chunk in front or behind, a group
per chunk. The movie of the recoder has four sync points, two slices after the
last one, and sound that ends before the video does; the ranges start and end
on, before and after sync points, behind the last one, and the wrong way round.

The buffer of the decoder has three stores with two reference frames, which is
the smallest in which references, a waiting picture and a current one compete.
Four frames with `frame_num` modulo 3 wrap, fill the buffer and bump; two
control operations a picture give every pair of them. Field streams have three
frames modulo 4, one operation a picture and gaps of one: a lone field, a pair,
a frame and a picture made up meet in the buffer. Four pictures with fields
(7.6 million states), and frames with gaps (834 000), both with 0 in
`StalePocs`, were also checked for the safety properties. `pic_order` has frame numbers modulo 4, low bits modulo 8
and eight frames, so both wrap twice, and gaps of two go over the wrap.
`nal_stream` has all payloads of zeros up to three bytes, all triples of 0 and
3, and elements on both sides of a byte boundary and of a power of two.

The clients of a track, the recoder, and the writer and reader of a file stop when
the bounds are used up or the file is closed, so those runs do not check
deadlock; `dpb_frames`, `dpb_fields` and `dpb_mixed` do, with `Stopped` as the
end of the decoder. The tracks of `TrackCacheSecondPass.cfg` and `TrackCacheShortWindow.cfg`
are the shortest found that show the case; `DpbReusedNumber.cfg` has frame numbers
modulo 2, so that one comes round after two frames. The programs have 16 and
more, and it comes round all the same.

Fairness. The recoder is one thread that runs through, so its next step is weakly
fair. `MoveNext` is weakly fair because a `foreach` calls it until it
returns false. Once a block is begun or `FinalizeStream` is called the code is
a sequential program that goes on (`WriteStep`, `Finalize`); nothing makes a
caller put another slice or call `FinalizeStream`. The decoder of the JM codec
is one thread over a file that is there, so its next step is weakly fair
(`FairSpec` of `DecodedPictureBuffer`, where the stream ends by itself, and
`WF_vars(Read)` of `NalStream`); nothing makes the encoder go on.

## 4. The proofs

| Theorem | For every |
|---|---|
| `TrackCacheProofs!TypeCorrect`: `Spec => []TypeOK` | track, extent, set of enumerators and probes |
| `TrackCacheProofs!CacheIsTransparent`: `Spec => []AnswersMatchTrack` | the same |
| `TrackCacheProofs!EvictionIsLeastRelevant`: `Spec => EvictsLeastRelevant` | the same, if the batches read at first are `ToldApart`: no two start at the same sample, or they hold the whole track |
| `TrackCacheProofs!OneReaderIsComplete`: `Spec => []EnumerationIsComplete` | track and extent, with `OneReader`: one pass of one enumerator, other requests within the track |
| `TrackCacheProofs!OneReaderImplementsCursor`: `Spec` implements `TrackCursor`, step by step | the same |
| `RecodeDriverProofs!OffsetNeverFails`: `DriverSpec => []NeverFails` | movie, sound, order of the tracks, range, extent |
| `RecodeDriverProofs!AlwaysFromSyncPoint`: `DriverSpec => []CopiesFromSyncPoint` | the same |
| `RecodeDriverProofs!NeverMissing`: `DriverSpec => []NothingIsMissing` | the same |
| `RecodeDriverProofs!AlwaysStops`: `DriverSpec => []StopsAtSyncPoint` | the same |
| `RecodeDriverProofs!DistancesAlwaysKept`: `DriverSpec => []KeepsDistances` | the same |
| `MuxWriterProofs!NeverOutOfStepAlways`: `Spec => []NeverOutOfStep` | set of tracks, source, extent and scale |
| `MuxWriterProofs!TablesMatchDataAlways`: `Spec => []TablesMatchData` | the same |
| `MuxWriterProofs!MuxTypeCorrect`: `Spec => []TypeOK` | the same |
| `MuxWriterProofs!ImplementsTheLog`: `Spec => WritesTheLog` | the same |
| `MuxWriterProofs!BlocksAlwaysStartWithSync`: `Spec => []BlocksStartWithSync` | the same, if video has no B frames |
| `MuxReadBackProofs!SttsCountsEverySample`: `Spec => []SttsCountsSamples` | the same, if every slice is `LongEnough`: one unit of the media header or more |
| `MuxReadBackProofs!ReadsTheTiming`: `Spec => []ReadsTiming` | the same, if `LongEnough` |
| `MuxReadBackProofs!ReadsThePayloads`: `Spec => [](FileFits => ReadsPayloads)` | the same, if `LongEnough` and `CttsFromTheStart`; in states whose file fits in offsets of `Word` values |
| `MuxReadBackProofs!ReadsTheComposition`: `Spec => []ReadsComposition` | the same, if `LongEnough`, `CttsFromTheStart`, `StampedUnlessB` and `StartsCaughtUp` |
| `DecodedPictureBufferProofs!BufferTypeCorrect`: `Spec => []TypeOK` | size of the buffer, number of references, modulus, stream |
| `DecodedPictureBufferProofs!MarksAlwaysAgree`: `Spec => []MarksAgree` | the same |
| `DecodedPictureBufferProofs!LongTermIndicesAlwaysDistinct`: `Spec => []LongTermIndicesDistinct` | the same, in streams of frames |
| `DecodedPictureBufferProofs!OldestAlwaysLeaves`: `Spec => OldestShortTermLeaves` | the same, in streams of frames |
| `DecodedPictureBufferProofs!OnlySecondFieldsPaired`: `Spec => OnlyPairsSecondFields` | size, number of references and stream of frames and fields, if `PairsCome`: only reference fields stay alone, and `MaxGap + 1 < MaxFrameNum` |
| `DecodedPictureBufferProofs!RejectsOverfullOnly`: `Spec => []RejectsOnlyOverfull` | modulus, operations, gaps and length, in streams of frames, if `BufferFits`: `ReorderDepth` stores or more besides those of the references |
| `DecodedPictureBufferProofs!FramesShownInOrder`: `Spec => ShownInDisplayOrder` | the same |
| `RefPicListsProofs!EveryReferenceAlwaysListed`: `Spec => []EveryReferenceIsListed` | size of the buffer, number of references, modulus, operations, gaps, reordering and length, in streams of frames |
| `RefPicListsProofs!LatestAlwaysFirst`: `Spec => []LatestFirst` | the same |
| `RefPicListsProofs!NearestAlwaysFirst`: `Spec => []NearestFirst` | the same |
| `PictureOrderCountProofs!PocTypeCorrect`: `Spec => []TypeOK` | modulus, offsets, coding order, losses |
| `PictureOrderCountProofs!TypeZeroCorrect`: `Spec => []TypeZeroAsCoded` | the same, if operation 5 is not used with type 0 |
| `PictureOrderCountProofs!TypeOneCorrect`: `Spec => []TypeOneAsCoded` | the same, if streams of type 1 have one IDR picture and lose nothing |
| `PictureOrderCountProofs!TypeTwoAlwaysInOrder`: `Spec => TypeTwoInOrder` | the same without these conditions, if `MaxFrameNum` is above 1 (it is 16 or more in the programs) |
| `NalStreamProofs!NalTypeCorrect`: `Spec => []TypeOK` | units of any content and length, any number, padding and zero words |
| `NalStreamProofs!EveryUnitIsRead`: `Spec => []ReadsWhatWasWritten` | the same |
| `NalStreamProofs!NeverRefused`: `Spec => []NoError` | the same |
| `NalStreamProofs!ImplementsTheFifo`: `Spec` implements `NalFifo`, step by step | the same |

They rest on the named assumptions of `SampleTimes`, `TrackCache`,
`RecodeDriver`, `MuxWriter`, `DecodedPictureBuffer`, `PictureOrderCount` and `NalStream`, on the hypotheses
in the table, and on nothing else.

`TrackCache`. `AnswersMatchTrack` is not inductive: that a refusal was right
depends on `endIndex`, and that a hit was right on what the buffers hold. The
invariant adds that every buffer is an interval within the track and that a
recorded end is not before the end of the track. The step that needs work is
`ReplaceAtEnd`: a block filled at `i` holds `i` if the track has it
(`BatchByIndexInTrack`), so some turn of the search finds it (`HeldIsHit`), and
a search without a hit means that `i` is past the end.

For `EvictsLeastRelevant` the invariant is `ToldApart` itself: a buffer is found
by its first sample, so no two may have the same. A block is read in only for an
index that no buffer holds, so it starts where no other does
(`ReplaceKeepsApart`); the only way to two equal buffers is the first batch,
read twice when the track ends with it, and then an empty buffer is there as
long as the whole track is, and is taken first. For one enumerator `ReaderInv`
says that the current list is not empty until the enumerator has ended, which
is what `MoveNext` looks at.

`RecodeDriver`. `DriverInv` has what the properties say of finished recodings at
every place of the loop. `LooksOK`: a time stamp that is used was the last
request, hence answered, although the other enumerator's requests replaced
buffers in between. `SyncOK`: how far `EnumerateSyncPoints` is, with
`prevSyncTime` not before any sync point passed and `lastTimeStamp` the slice
before. `RangeOK`: whether the range has begun and that no sync point between
its end and `syncTime` was overlooked. `ProgressOK`: between two turns each
source track is at the sync point before, within a turn at this one if it was
done (`AllBefore`, `NotBefore`). `CopiedOK`: what was put is consecutive up to
where the enumerator is, with time stamps shifted by `timeStart`, which
`TimeStartOK` keeps below all slices to come; so the exception of a negative
time stamp is never raised. One lemma an action; the cache is used only through
`RequestAnswers`.

`MuxWriter`. `NeverOutOfStep` compares two counters that are advanced in
different loops, from different starting points. The invariant follows the
block between them: what a track has in its tables, in the block and in its
list are consecutive indices (`HoldsTheRest`, `BlockIsNext`); the entries of
stco for the block form a chain in which each lies the size of its slice before
the next, and which ends at the local offset, later at `CurrMDatOffset`; the
mdat ends at the link where the next payload belongs (`Chain`). When the data
loop is through, its end is the end of the chain, which is what
`CheckMDatOffset` compares. `EntriesInPlace` says that links already passed
point at payloads that are there, and gives `TablesMatchData`.

`MuxLog` has a sequence of payloads per track, where the writer has one mdat
with the payloads of all tracks. `InOrder` says it without sequences: the
records of a track are as many as `WrittenOf`, and the one of index `i` has `i`
others before it; `PayloadOf` is then the sequence of all indices
(`PayloadIsIndices`). `FlushedInFull` is what makes closing the file the log's
own step. The type theorem needs an argument for `blockSize` only, because the
value 8 means both a size and "not known" (`SizeUnknown`). `HeadsAreSync` says
that the list of a video track, the block being written and the part held back
start with an IFrame each; with B frames a block may end in one, which
`MuxQBoxBlocks.cfg` shows.

`MuxReadBack`. What the reader makes of a file is a composition of folds over
its tables, and the argument is that each table spells a sequence. `Spells`
says that the runs written so far, with the run that is being counted, expand
to it; one sample more appends to it (`SpellsNext`), and `FinalizeBox` writes
the last run. The sequences are the durations of the slices (`TimesRight`),
their sizes, the numbers of the IFrames, and for ctts the lag of each slice
(`LagsRight`), which `LagOfIs` gives by recursion, as the writer counts it.
`Expand` and `Total` are folds, and what a fold gives for a longer sequence is
found by existence of the function of partial results (`FoldExists`), since the
library's definition is by `CHOOSE`. With a sample a chunk the search of
`GetFileOffset` stops at the chunk of the sample (`OffsetOnePerChunk`), whose
offset, by `EntriesInPlace`, is where the payload is.

Each hypothesis is a case in which the code loses something, and has its run.
Without `LongEnough` the durations that are scaled to 0 are not counted in stts
(`MuxShortSlices.cfg`). `CttsFromTheStart` says that a track which needs the ctts
box at all needs it within its first seven slices, the least that a first block
can have; the box is made by the first block that needs it and has no entries for
the blocks before (`MuxLateB.cfg`). That it is then made before the first sample
is described takes an invariant of its own (`CttsInv`): the first block has seven
slices unless finalization flushed it (`FirstBlockLong`), because the block size
is 8 until it is computed, and as long as there is no box no slice described
needed one (`NoNeedSoFar`). `StampedUnlessB` excludes slices without a time stamp
that are no B frames, which lag behind and do not make the box; `StartsCaughtUp`
excludes that all slices lag by the same amount, because a box with a single run
is left empty. `FileFits` is the limit of 32-bit offsets. The sources of
`mux_blocks` satisfy all of them.

`DecodedPictureBuffer`. The invariant has four parts: `BufferOK` (every store
is good, and the lists and `lastPicture` name stores), `OutputOK`, `StreamOK`,
and `ControlOK`, which says in which places of the code there is a current
picture, and of which kind. A good store (`GoodStore`) is one of its type whose
marks agree. The lemmas `...Good` show for every operation on a store that it
keeps it good, whichever fields it touches; `RemoveGood` and `ReplaceGood` lift
that to the buffer, of which removal shifts a part and the lists are rebuilt.
There is a lemma for each action.

For streams of frames `FrameInv` relates the stores to the lists and to
`pre_frame_num`: the lists miss no reference (`ListsOK`), which of the flags of
a picture can be set in which place (`KindOK`, `FlushedOK`), long-term indices
are distinct and below the maximum, and the current picture has none that is
taken (`LongOK`). `OrderOK` is the argument for the sliding window: frame numbers
count modulo `MaxFrameNum`, so the older of two short-term references is the one
with the greater distance to `pre_frame_num` (`Age`), and the stores are in the
order of these distances, through removals, gaps and the wrap.

For streams of fields `PairInv` follows `last_picture` from the field that sets
it to the field that looks at it. The store it names holds the first field that
waits (`IsHeld`), or a reference field that has stayed alone: no later reference
field has the number of that one, and other fields differ in kind (`Lone`). A
first field that was shown directly is in no store, and then the second field
must be shown directly too (`IsShown`). That takes two facts from elsewhere: the
full buffer has no unused store left that would make room for the second field
(`FullOK`), and no frame that waits comes between the two fields in display
order (`EvenOK`). Both conditions of `PairsCome` are needed. A field that is no
reference and stays alone is the case of the section on the module above. And if
`MaxFrameNum - 1` reference pictures are lost in a row, the number that comes is
the last one again, no gap is filled, and a lone field is paired with a field of
another frame; TLC finds it with `MaxFrameNum = 2` and `MaxGap = 1`. In the
programs `MaxFrameNum` is 16 or more.

That the frames are shown in order, and that the decoder gives up for one reason
only, is `DisplayInv`. The code bumps when the buffer is
full, and it never looks at what is still to come; so the argument is a count.
A full buffer that has no unused store holds frames that wait and references
only (`FullWaits`), the references are at most `num_ref_frames` (`CountOK`), and
so, with `BufferFits`, at least `ReorderDepth` frames wait, one more if the
current picture is a reference (`EnoughWait`). A frame still to come would be
shown after at most `ReorderDepth` frames sent before it, hence it is not shown
before the first of those that wait. `ShownOK` keeps that fact of the frame shown
last, until a flush starts a new sequence; `SentOK` and `FreshOK` say what the
stream has sent, and that no short-term reference has the number of the picture
that is being stored. There is one exception, `Overfull`: a picture with control
operations that leave the references at the limit. For it the count is one
short, but the decoder gives up when it is stored, and that is the one case
`RejectsOnlyOverfull` allows.

`BufferFits` is needed. With `DpbSize = 3`, `NumRefFrames = 2`, `ReorderDepth = 2`
and no control operations TLC finds `RejectsOnlyOverfull` violated: frames with
the POCs 0, 6 and 4 fill the buffer, the first of them a reference that was
shown and stays, and a reference with POC 2 has to be stored. The decoder shows
4 to make room, then has 2, and stops with "output POC must be in ascending
order". The code does not check that a stream leaves room for its reordering.
The standard asks of a stream that this very process shows it in order, which
depends on the sequence of its pictures; `BufferFits` is a condition on the
constants under which every stream the model sends has that property, and the
least one that the count gives. `dpb_frames` satisfies it.

`RefPicLists`. The lists are made from the buffer, so their properties are
properties of the buffer in one state, where the first slice of a picture has
been read and nothing is marked yet. `FrameInv` gives two of them: `fs_ref` and
`fs_ltref` miss no reference, and the short-term stores stand in the order of
the ages counted from `pre_frame_num`. `SliceInv` adds what is not in it.
`SameListsOK`: the two lists also name nothing that is no reference. Operations 4,
5 and 6 leave such entries behind, so it holds only until the first
operation and from the end of a picture on. `AgeOK`: the numbers count
back from the current picture in the same order if it is no reference and its
own number is ahead of `pre_frame_num`. `ClearedOK`: the two POCs of a stored
frame, by which it is put on a side and sorted on it, are one, and an IDR picture
and operation 5 leave an empty buffer (`FlushOK` says that only they and the end
of the stream flush). Nothing is needed about the POCs of different pictures:
they may be equal, and those of frames made up are arbitrary. The rest is about
sorting. `Sorted` says of `qsort` that it returns some order of the stores in
which none comes after one it goes before. That there is one is `SortedExists`,
for any integer key: a smallest set without a sorted sequence has a largest
element, and the set without that one has a sorted sequence, to which it can be
appended. `FrameList` then says that a list names the short-term references in
this order and then the long-term ones, each once; the swap in list 1 keeps the
names (`SwappedListed`). `BufferFits` is not needed, since a decoder that gave
up makes no lists.

`PictureOrderCount`. With type 0 the core is `MsbIsExact`: of the counts with
the given low bits exactly one is within half a round of the reference before.
The invariant says that the decoder remembers the count of the last reference
received (`RemembersReference`) and that the slices under way are near to it
(`ComingAreNear`). With type 1 the decoder's frame number and offset are the
encoder's between frames (`BetweenFrames`), and in the middle of a frame the
second field sees what the first left (`SecondField`). With type 2 the decoder
has nothing but `frame_num`. The invariant says where it is: at the last
reference picture or number filled in (`AtReference`), or at a picture that is
no reference and shares its number with the next (`AtNonReference`), with the
count to exceed bounded by twice the number reached. The frame that comes is at
most `MaxFrameNum - 1` numbers ahead (`Follows`), each number filled in brings
it one nearer (`OneNearer`), and it shares the decoder's number only if it is a
reference, since the encoder does not send two others in a row.

`NalStream`. The invariant has the layout of the file: functions `e` and `m`
give the end of every unit and the length of its start code (`Layout`), between
them there are zeros only, and inside a unit there is neither three bytes of a
start code nor a zero at its end (`UnitNal`). From the layout follows where the
decoder finds the next start code (`StartCodeFound`), with a case for the last
unit, behind which the file ends. `Escaped` relates a payload and its escaped
form by functions that say where each byte went, which takes the place of an
induction: it grows by a byte with the writer (`EscapedGrows`) and is used up by
a byte with the reader (`PayloadStep`); `ZeroWordStep` is the part behind the
payload. The module takes a few minutes. That a unit delivered is the one
`NalFifo` receives next follows from the invariant after the step.

Induction over data is avoided, and where a least element is needed (`Min` of a
set of numbers, the greatest of the stamped slices, a smallest set that cannot
be sorted) it comes from the
well-foundedness of strict inclusion on finite sets, a first-order fact of the
library (`MinOfNats`, `GreatestOfStamped`).

Only model-checked. Liveness, which is out of the provers' reach: `AllShown`,
`FinalizationEnds`, `RecodeEnds`, and the fair parts of `ReadsEverySampleInOrder`
and `HandsOverInOrder`. Of the codec: `ReorderingMovesToFront`, whose lists
are folds and selections over sequences; the properties proved of streams of
frames, such as `RejectsOnlyOverfull`, `ShownInDisplayOrder` and those of the
lists, in streams with fields; type 1 with losses; and the syntax elements in `HandsOverInOrder`, whose sums over bits
are folds over data. Of the library: the loops of `SampleTables` on tables that
the program's own writer does not write, with several samples a chunk.

## 5. Plan

1. (done) Read cache and its proofs; writer, its tables, its proofs; reading
   the file again.
2. (done) `RecodeDriver` over the read cache. Left: sources whose slices have no
   time stamp, and the composition with `MuxWriter`.
3. (done) The JM codec's decoded picture buffer, reference lists, picture order
   count and byte stream, with proofs. Left: operation 5 in fields and with
   POC type 0, MVC views, concealment, the parser of slice headers.
4. `TrackIndexer`: `IndexingExclusion` taken and not released when a read
   throws; seek and read of the shared stream by two tracks; concurrent setters.
5. `FlashbackCache` and the QBOX reader; ISMV fragments; `MP4StreamPayload`;
   the shared memory bridge.
6. Proofs, done: the cache, the recoder, the writer, its log and the file read again, marks, frames
   in the buffer, pairs of fields, display order, the lists of a slice of a frame,
   POC, byte stream. Left: lists and display order with fields, reordering.

## 6. Not modelled

* Prediction, transform, quantization, entropy coding of macroblocks, deblocking,
  motion search and mode decision of the codec: computations on samples, without
  a state that outlives a picture, and most of the 164 000 lines of C. A model
  of them would have to be the arithmetic itself. So the models cover the codec's
  control between pictures and between bytes, a few thousand lines, and never a
  third of the C code.
* Rate control, SEI messages, configuration, allocation, file formats of the
  codec's input and output: parsing, and sums without interaction.
* The encoder's own picture buffer: its marking is the code in `lcommon` that
  `DecodedPictureBuffer` models, its storing a copy of the decoder's.
* Bit-level parsing of H.264 in C# and the byte layout of MP4 boxes: pure
  functions without state between calls.
* The player and its COM interop, the OpenCL bindings and the JPEG codec: user
  interface and vendored code.
* QBOX, ISMV, the payload merger and the shared memory bridge: in the plan.
