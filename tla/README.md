# ffrwd-nal in TLA+

ffrwd-nal is the byte level of H.264, HEVC and AV1: it cuts a coded stream into
NAL units and OBUs, groups those into access units and temporal units
("carriers"), and reads payloads out of them or puts payloads into them. It does
no I/O and starts no threads. What makes it hard is order and position: bytes
arrive in chunks cut anywhere, a limit may drop bytes at any moment, payloads
are put into packets that already hold some, and the same packet changes framing
between two calls. These modules model that, TLC checks it on small streams, and
TLAPS proves, for every stream, packet and payload, nearly all that the runs check of
the feed, of emulation prevention and of a track, and of a packet on its way that it
implements its abstract specification.

File names below are those of `src/src/`.

## The system

| component | state | operations | what makes it correct |
|---|---|---|---|
| `feed.rs`, `Feed` | bytes held, count of carriers, count of drops | `with_limit`, `push`, `finish` | chunking does not show; nothing is lost, doubled, reordered or kept back; memory is bounded whatever arrives |
| `annexb.rs` | none | `scan_nals`, `split_nals`, the two reframings, `put_length` | NAL spans tile the stream; a length read is the length written |
| `h26x.rs`, `Codec` | none | header fields, `access_units` | a boundary is where the standards put it, and the same however the bytes came |
| `ep.rs` | none (two loops with a count of zeroes) | insert, remove | reading undoes writing, no start code on the wire |
| `sei.rs` | none | parse, find, write, splice | a payload reads back byte for byte, nothing else moves |
| `obu.rs` | none | `scan_obus`, `temporal_units`, leb128, metadata | the same for AV1 |
| `config.rs`, `Framing` | the framing of a stream | `insert`, `payloads`, `payloads_in_nal`, `reframe` | the three framings keep one promise |
| `config.rs`, records | none (the extradata of a stream is its caller's) | `parse_parameter_sets`, `build_avcc`, `avcc_to_annexb_extradata`, `framing_of`, `framing_of_entry`, the two widths | what is built reads back; a width declared is the width used; a record cut short is refused |
| `sps.rs`, `codec_string.rs` | a bit position | `ue`, `formats`, `profile_level`; the three bytes of an RFC 6381 name | what a record says is what its SPS says |
| `lib.rs` | none | `Select`, `Error` | |

How they meet: `Feed` calls `access_units` or its own AV1 loop to find
boundaries, and `user_data_annexb` or `obu::user_data` on what it finished; those
call `scan_nals`, `parse_sei` and `remove_emulation_prevention`.
`Framing::insert` looks for the place with one function (`access_units`,
`position(is_vcl)`, `temporal_units`), writes the payload with another, and
splices it with a third that looks for the place again. Which framing it is, a
program asks `framing_of` or `framing_of_entry` with the stream's out-of-band
header, and the header itself is turned from start codes into a record and back
by calls that know nothing of the packets. A program passes header and packet
from call to call; there are no callbacks and nothing runs concurrently.

The hard behaviour, line by line, is the list "hazards" of `PROJECT.json`, each
with the properties that would catch it.

## The modules

Foundation, operators only. Each pure function of the crate is one operator, and
a loop over bytes is written by what it returns: the set of offsets at which
something stands, or a recursive function of the offset.

* `Bytes`: slices, splices, results, runs of zeroes. The only module that knows
  offsets count from zero and sequences from one.
* `Annexb`: `scan_nals` as the set of offsets of `00 00 01`, and the four offsets
  of a `NalRef`. `LengthPrefix`: the other framing, both ways.
* `H26x`: NAL headers and `access_units`. The loop's `seen_slice` is stated as
  "a slice stands before this NAL with no opener between".
* `Ep`, `Select`, `Sei`, `Obu`: as their files. `Framing`: the methods of
  `config.rs`'s `Framing`, the two ways to ask for one, and the length-prefixed
  half of `sei.rs`.
* `Sps`: a bit reader is the offset of its next bit, a field is a value and where
  the reader then stands. `Records`: the `avcC` built from parameter sets and
  taken apart, and the bytes of a codec string.
* `Loops`: the loops of `scan_nals`, `access_units` and `temporal_units` a round
  at a time with `seen_slice`, `end` and `insert_at` as the code sets them.
  `Splice!UnitLoops` compares them with the closed forms of `Annexb`, `H26x` and
  `Obu`, as `EpLoop!ClosedForms` does for `Ep`.

State machines.

* `Feed`: `held`, `index`, `dropped` are the fields of the struct; `stream` and
  `fed` are the caller's side; `call`, `out` are where a push in progress stands
  and what it has found; `delivered` is what calls have returned. `spans` is
  history: where in the stream each carrier came from. `push` is the actions
  `Push` (extend), `Drain` (a round of `cut`'s loop that drains), `CutReturns`
  (the round that returns), `CutFails` (`boundaries` is an `Err`), `WithinLimit`
  and `OverLimit`. `finish` is `Finish`. While `call` is not idle only the push
  in progress moves, as `&mut self` has it; the steps are apart so that what
  holds in the middle of a push (the footprint, the tail) is said of the middle.
* `EpLoop`: both loops of `ep.rs`, one byte a step, the reader right behind the
  writer.
* `Weave`: `Feed` behind a writer. The streams are those of an encoder with a
  payload put into every carrier, at the places `access_units` or
  `temporal_units` gives, which is how `tests/reference.rs` weaves.
* `Splice`: a packet, its framing, and what has been put into it. Each action is
  one call (`Framing::insert`, `Framing::reframe`, `length_prefixed_to_annexb`),
  and has its refused twin. Every call works on what the last one returned, under
  the framing `framing_of` or `framing_of_entry` reads out of the stream's header.
  `seen` is history: the packet taken apart unit by unit.
* `Track`: an H.264 stream's header and one of its packets. `Mux` is
  `parse_parameter_sets`, `build_avcc` and `reframe`; `Demux` is `framing_of_entry`,
  `avcc_to_annexb_extradata` and `length_prefixed_to_annexb`; `Insert` asks for
  the framing as a pad or a track does and puts a payload in; `Cut` takes bytes
  off the end of the record, once, and is the only fault. `origin`, `framing`,
  `made` and `put` are history.
* `Carrier`: the abstract specification of `Splice`. A packet is the units before
  the picture and the units from the picture on; inserting appends to the first
  and changes nothing else; reframing changes nothing. `Splice!ImplementsCarrier`
  is the refinement, with `before` and `picture` mapped to the two halves of
  `seen`.

`MCFeedNal`, `MCFeedAv1`, `MCEpLoop`, `MCSplice` and `MCTrack` give the constants their
values. `FeedDocs` holds what comments say and the code does not do. The proofs are in `FeedProofs`, `FeedAv1Proofs`, `EpProofs`, `TrackProofs` and
`SpliceProofs`, on lemmas about the operators: `BytesLemmas` (bytes and emulation prevention),
`UnitLemmas` (what a window of a stream shows of its NAL units, access units and
OBUs) and `FramingLemmas` (what is written into a packet and read out of it, and the loops). A definition named `Slip...` is a plausible bug of the definition after
it (or named beside it): put in its place it breaks a property, which shows that
the property depends on that code. Nothing uses them otherwise.

## The runs

| run | question | bounds |
|---|---|---|
| `feed_h264` | Does what comes out depend on the chunks? Is it what `access_units` finds in the whole stream, as early as the bytes allow, with no byte left between carriers? Does one drain do? Does a payload woven into each access unit come out on that carrier? | all concatenations of up to 4 of an IDR slice, a later slice of a picture, an SEI of the caller's and a zero byte, and up to 3 of a P slice, a delimiter, a filler and a foreign SEI; some of them woven; limit out of reach |
| `feed_h265_limit` | What do drops do: to the bytes held, the spans, the payloads, and the numbers beside the places in decode order? When can one happen? Does every push return? | up to 3 of six kinds of HEVC NAL and a zero byte, in two groups, and an SEI with two messages; limit 11 bytes, less than some carriers |
| `feed_av1` | The questions of `feed_h264`, against `temporal_units`; which payload does not come back, and what does a truncated end cost? | up to 4 of seven kinds of OBU, one without a size field; some of them woven, and some cut inside their last OBU; limit out of reach |
| `feed_av1_limit` | Errors and drops together: the count, spans, payloads, the loop of `cut` | streams that turn malformed (the forbidden bit, a size past `usize::MAX`); limit 10 |
| `ep` | Round trip, no start code, nothing escaped in vain; does `Ep` say what the loops do? | all payloads of up to 7 of the bytes 0 to 4 |
| `splice` | Do inserts and reframings in any order keep `Carrier`'s promise? Do payloads read back, bytes stay, carriers stay, temporal ids repeat? Do the loops find the same units? | HEVC packets of up to 3 pieces in both framings, two malformed samples, AV1 packets of up to 3 OBUs with an unsized or malformed last one; widths 2 and 4, and 0, which is none; 2 payloads, of which 2 may be put in |
| `track` | Do the parameter sets come back through any number of conversions? Do packets read under the header alone? Is a cut record refused? Does the record say what the SPS says? | extradata of up to 3 of four parameter sets, of too many, too long and too short ones, of eight SPS of a high profile, with padding and with delimiters; records of every width with up to 2 SPS, with and without extension bytes; packets with and without slices, one with a NAL too long for two digits; 2 payloads; a cut at every byte |
| `suffix_sei`, `dropped_count`, `index_place`, `av1_resync`, `av1_error` | Five sentences of the comments the code does not keep | the streams that show it |

Why the bounds are enough. A boundary depends on a NAL, the slices and openers
since the last boundary, and the zeroes in front, so three or four pieces hold
every combination of neighbours. Chunk sizes 1, 2, 3, 5, 9 and 24 let every
stream be cut at any offset and also arrive whole. The floor of a limit is 8
instead of 64 so that carriers of a few bytes can pass it. A UUID is one byte
(the code only asks whether a payload starts with it), `usize::MAX` is small in
the AV1 runs so that a two-byte size can pass it, and a length byte has three
values in `splice` and `track` so that a NAL of nine bytes does not fit a
two-byte length; a record counts fewer than four SPS and PPS in `track`, so that
four are too many. The bytes 0 to 4 of `ep` are those the loops tell apart, and seven of
them hold two escapes with what comes after. `MaxPut` is 2: the second insert
meets the packet the first one made.

Deadlock is checked in the feed runs. It is not in `ep`, `splice` and `track`,
where a caller that has reached the bound on the payload or on the payloads simply
stops.

### What the properties say

Feed. `SameAsFileReader`: the carriers out so far are a prefix of what a reader
of the whole file finds, and after `finish` all of it. `NothingKeptBack`: each is
out as soon as the bytes that show the next boundary are in. `SpansTile`,
`SpansDisjoint`: no gap, no overlap. `HeldIsTail`, `FootprintBounded`: what is
held is the end of what was pushed, within the limit. `RoomIsEnough`: when a
drop cannot happen. `EndsAtBoundary`, `PayloadsIntact`, `CarriersAreSpans`: what
a drop can do to the carriers around it. `IndexTrailsPlace`: a carrier's `index`
is its place in decode order until something is dropped, and then falls behind it,
by two for each drop at the most; that it stays the place is what `index_place`
refutes. `CountIsReturned`: `count()` and the numbers below it are those of the
carriers handed over, through errors and drops. `OneDrainIsEnough`,
`StepsShrink`, `CallReturns`: the loop. `WovenComesOut`: a writer
and the feed mean the same carriers, and only a payload behind an OBU without a
size is lost. `TruncatedLosesOnlyTheLast`: an AV1 stream that ends inside an OBU
costs the payloads and the keyframe flag of its last carrier and nothing else.

Splice. `ImplementsCarrier`, `ReadsBack`, `BytesKept` (the encoder's bytes, in
place, padding behind what it trailed), `CarriersKept` (the same access units
with the same keyframe flags), `TemporalIdRepeats`, `UnitLoops`.

Track. `SetsKept`: the parameter sets survive every conversion. `CutIsRefused`:
a record cut anywhere is refused or complete. `WidthIsDeclared`: where the two
ways of asking differ, and that neither answers with a width nobody wrote.
`ReadsUnderHeader`: header and packet, converted by different calls, stay
together. `HeaderSaysTheSps`: profile, level, codec string and formats.

### Fairness

`Feed!Spec` has weak fairness on the steps of a push and on nothing else: a call
that has begun is run to its end by the thread that made it, and nobody has to
make a call. `MCFeedNal!RunSpec` is the same formula with `WF` written out,
because TLC evaluates `ENABLED` without keeping what the parsers returned. The
other specifications have no fairness; only safety is checked of them.

### Where comments and code part

Each is a violated run and an entry under "findings".

* `suffix_sei`: `starts_access_unit` counts 40, the HEVC suffix SEI, among the
  NALs that open an access unit (39..=47), so it rides apart from its picture.
* `dropped_count`: `dropped()` counts pushes that let bytes go, not carriers, and
  parse errors too.
* `index_place`: `index` numbers what is handed over, so after a drop it is no
  longer the carrier's place in decode order.
* `av1_resync`: after a drop there is nothing in AV1 bytes to fall in step with;
  the feed reads payload bytes as OBU headers.
* `av1_error`: an error in a chunk loses the carriers the chunk had finished.

One more has no run. A metadata payload written without trailing bits that ends in
`00` or `80` comes back shorter, although obu.rs:156 says such a writer loses
nothing. `write_metadata` never leaves them off, so the models hold no such OBU; the
mutant that does (`SlipNoTrailingBits`) violates `WovenComesOut`.

## What is proved

All for every value of the constants, from the assumptions named in the modules
(`FeedAssumption`, `SelectAssumption`, `CodecAssumption`, `UsizeAssumption`,
`EpLoopAssumption`, `RadixAssumption`, `CountAssumption`, `TrackAssumption`, and
`PacketsAssumption`, `NotesAssumption`, `MemoryAssumption`, `SpellingAssumption` of
`Splice`): any
stream of bytes, any chunks, any limit, any records, any number of payloads put in. Every property the runs check
of `Feed`, of `EpLoop` and of `Splice` is a theorem, but for `CallReturns`.

**The feed, whatever it drops** (`FeedProofs`).

* `FeedInv` is the types of the fields, `HeldIsTail` and `FootprintBounded`. The
  last is not inductive alone: that a drain takes no more than is held needs that
  boundaries lie inside the bytes (`PendingRange`, from the range of `ZeroRun`),
  and that the bytes dropped come off the front needs the tail. Hence
  `FeedHoldsTheTail` and `FeedFootprint`, the feed's memory bound. `FeedTypes` adds
  that payloads are bytes, which is a statement about every parser behind them.
* `SpanInv` adds the history: spans lie in order and end where the held bytes
  begin, one for each carrier, each carrier with the payloads of its span. A drain
  preserves it because the finished carriers are in ascending order and end at the
  place drained to. `FeedSpansDisjoint`, `FeedCarriersAreSpans` follow.
  `FeedStepsShrink`: each step of a push lowers a natural number, which with the
  fairness is why a push returns.
* `EndsInv`: every span of NAL units ends at a boundary of the whole stream. What
  a feed holds is a window of the stream, its bytes from one offset to another,
  and `UnitLemmas` says what a reader of a window finds of the whole: its start
  codes are those that lie in it, its NAL units the same as far as their bytes are
  in (`NalInSlice`), its boundaries those openers of the stream that it shows, but
  for the first (`BoundariesOfSlice`). A boundary found in a window is therefore one
  of the stream even when the bytes before it were dropped. Hence
  `FeedEndsAtBoundary` and `FeedPayloadsIntact`. The two are about start codes: after
  a drop AV1 has nothing to find its place by, which `av1_resync` shows.
* `PlaceInv` counts the access units of the whole stream against the carriers
  that are out. With n carriers out and d drops, all access units after the first
  n + 2d begin where the bytes held do or later, and likewise for the end of each
  carrier; and the end of the k-th carrier is no earlier than the beginning of
  access unit k + 1. `IndexTrailsPlace` alone is not inductive, because the next
  number depends on what the bytes held account for. A drain moves both sides by
  as many: what begins in a window and shows there is a boundary of the window
  (`PadsBehind`), and a boundary of the window is one of the stream (`PadsAhead`).
  A drop forgets at most two: the open carrier, and the one whose start code is in
  the bytes let go but whose type, or first slice, is not (`OneMoreBegins`); a
  third would have shown the second to be a boundary. The three bytes kept hold no
  boundary behind their first (`ShortPending`). Hence `FeedIndexTrailsPlace`, for
  start codes: after a drop the numbers of AV1 carriers have no place to be
  compared with, since they need not begin at an OBU at all.

**The feed, as long as it drops nothing.** The inductive invariant says where the
feed stands beside a reader of the whole stream: with n carriers out, what is held
begins where the reader's carrier n + 1 does, the carriers out are the reader's
first n, and no boundary is held that the feed has already looked past. It is
`FollowInv` for start codes and `Av1FollowInv` for AV1. It is needed because
`SameAsFileReader` says nothing of the bytes held, and the next carrier depends on
them. It is preserved because a window that begins at a carrier shows exactly the
carriers whose end it holds (`WindowUnits`, `UnitsShown`).

* Start codes (`FeedProofs`): the access unit that a window shows first begins
  at the first NAL with a type, which is the same NAL for the whole stream only
  because the window begins at its padding (`AtCarrier`).
* AV1 (`UnitLemmas`, `FeedAv1Proofs`): the loop walks from OBU to OBU. `IsWalk` is what
  the recursive scan of `Obu` returns, said without the recursion; `ObuWindow` is
  what a window that begins at a place of the walk shows of it. An OBU that is not all
  in has the same header, and stops the feed without an error (`ReadableNeverFails`,
  for streams a file reader can read). When the stream is over the feed reads the
  last carrier with `temporal_units`, which takes an OBU without a size field that the
  feed's own loop does not; that both mean the same carrier is `TailScan`.

From the two invariants: `FeedSameAsFileReader`; `FeedSpansTile`; `FeedRoomIsEnough`;
and `FeedNothingKeptBack`, which also needs that every carrier whose next opener
lies in the bytes is out (`Settled`, `Av1Settled`). `FeedOneDrainIsEnough` needs no
invariant: what a drain leaves is a window that begins at the last boundary the
whole showed. `FeedCountIsReturned` for AV1 needs it, so that an error never comes after
carriers of the same push were numbered.

**Emulation prevention** (`EpProofs`). `EpInv` ties each loop's count to the zeroes at
the end of what it wrote, and the reader to the one or two bytes it is behind.
`EpRoundTrip`, `EpNoStartCode`, `EpEscapesOnlyWhenNeeded` follow. `EpClosedForms` says
that the operators of `Ep`, which every other module calls, return what the loops
leave: `ClosedInv` says it of the bytes so far, and what the operators return for
one byte more is `InsertAppend` and `RemoveAppend`.

**The header and the packets of a track** (`TrackProofs`). `HeaderInv`: Annex B has the sets of the
stream and was never cut; behind a record that is there, built, given or cut, is a
whole one that has them and declares the width of the samples. `SetsKept` is not
inductive without the last, because it says nothing of a record that was cut, and a
reader may get Annex B out of such a record all the same.

* `Mux`: `BuiltReads`. The sets `parse_parameter_sets` finds are clean: a NAL unit out
  of a byte stream holds no start code and ends in no zero (`NalIsClean`). A length of
  two bytes that `put_length` did not refuse is read back (`SetLengthBytes`,
  `SetLengthIs`), the sets behind such lengths are taken one by one (`PrefixedAt`,
  `TakesSets`), the counts that passed their guards are the counts read (`SpsCountIs`,
  `CountIs`), and what stands behind the sets does not matter (`RecordHolds`), be it
  the extension of a high profile, whose fields are numbers (`FormatsType`). Clean NAL
  units behind start codes are found again (`SplitStartCoded`): no code stands across
  a seam, and no zero is taken off a unit but its own follower's.
* `Demux`, `Cut`: `RecordCut`. A set taken out of a record that was cut lies in it with
  its length, and so do the counts, so the whole record gives the same.

Hence `TrackSetsKept`, `TrackCutIsRefused`, `TrackWidthIsDeclared`. `PacketInv` is about
the packet: under the framing it was written in it reads as the NAL units the encoder
made, with an SEI for each payload in front of the first slice. That is more than
`ReadsUnderHeader`, which speaks of the payloads only, and the rest is needed because
what the next call does depends on the NAL units. With what `HeaderInv` says the header
answers it gives `TrackReadsUnderHeader`. Each call preserves it by a theorem of
`FramingLemmas`, which `Splice` uses too:

* `SplitStartCoded`, `SplitPrefixed`: what is written with start codes or with lengths is
  taken apart into the units it was written from. For start codes it goes by
  concatenation (`SplitNalsConcat`); for lengths the walk depends only on what is ahead of
  it (`SplitAhead`).
* `ReframeReads`, `BackReads`: both reframings. `InsertReads`: inserting adds one unit before
  the first slice and changes no other. In Annex B the place comes from
  `access_units`, whose first unit looks for a slice by offset; that this is the seam
  in front of the first NAL that is a slice, its zero byte with it, is `FirstUnit`,
  `UnitPlace` and `PutAtPlace`.
* `SeiRoundTrip`: an SEI that was written gives its payload back, through `ff_put`,
  the escaping and the stripping of the trailing bits.

`TrackAssumption` says what a track is: its history names the sets its header has when
it is given; a record that comes with a container is whole and declares the width of its
samples; Annex B extradata does not look like a record; its NAL units end in no
zero and hold no start code, as H.264 7.4.1 has it, and fit the lengths they are given in;
a NAL unit has less than 2^32 bytes (a longer one is a listed hazard, `annexb.rs:181`).
`CountAssumption` has the count of SPS a power of two, as the low bits of a byte are.

**A packet on its way** (`SpliceProofs`). The invariants say which units a reader finds:
`UnitsNow`, the encoder's up to the picture, one for each payload, the encoder's from
the picture on. `PutInv` is the types and that AV1 stays AV1.

* `NalInv`, for both framings of NAL units: the packet comes apart into `UnitsNow`. It is
  preserved by the theorems above. An SEI is never a slice, so the place of the next one
  is behind it.
* `Av1Inv`: the packet is the encoder's first part, the metadata OBUs, and the
  encoder's second part, and each part can be scanned by itself (`PutBetween`). That is about
  bytes and not units, because an OBU is found only by walking there, and because
  an OBU without a size field takes in everything behind it: parts may be joined
  only if all OBUs of the first have a size (`Closed`, `ObusOfJoin`). A set of places that is
  closed under the scan is the one the scan finds (`ScanIs`). The place
  `temporal_units` gives is the seam (`InsertAtParts`); one OBU more keeps the shape
  (`OneMoreObu`). A packet that does not scan, or is empty, is never changed.
  The invariant also keeps what is left of memory, so that no size goes past `usize::MAX`.
* `MetadataRoundTrip`: a metadata OBU that was written is one OBU, has a size, and
  gives its payload back, through leb128 (`LebReads`) and the trailing bit.
* `AnnexbInv` and `SampleInv`, for packets that were never reframed: the bytes, and not
  only the units. A start-coded packet is the encoder's bytes up to the start code
  of the first slice, the SEIs behind start codes of four bytes, and the rest; and the
  place for the next SEI is the seam (`Place`). It is the seam again behind each
  SEI because an SEI ends in no zero, so that none of its bytes counts as the zero_byte
  of the slice (`CodedNalEnd`, `PlaceOfJoin`, `SeamMoves`). A sample is serialised anew by
  each insert; that nothing changes by it needs that a length has only one spelling in so
  many bytes (`LengthSpelt`, `SplitSpelt`).

Hence `SpliceTemporalIdRepeats`; `SpliceReadsBack`, where reading a packet is reading its
units one after another in each framing (`PayloadsAreOfUnits`);
`SpliceBytesKept`, from `AnnexbInv`, `SampleInv` and `Av1Inv`, one for each framing;
`SpliceCarriersKept`, below; and
`SpliceImplementsCarrier`, the refinement: initial states map to initial states, an insert
is `Carrier`'s insert of that payload, and every other call is a stutter (`SeenIs`). A packet
that does not come apart has no units, for the properties and for `Carrier`.

For `SpliceCarriersKept` both kinds of carriers are brought into one form: a set of
places at which carriers begin and a set of places at which there is a key (`FlagsOn`;
`CodesFlags`, `TemporalFlags`). The flags are the same for two such pairs of sets if a map
that keeps the order goes from one to the other (`FlagsAlike`). So the boundaries of a byte
stream become those of its list of NAL units (`NalFlagsIs`), in which the payloads can be
put before the first slice (`NalFlagsKept`): whether an opener has seen a slice depends
only on what stands from the first slice on (`SeenMoved`), and the first unit that has a
type opens the packet, be it the payload or not. For AV1 the map is by offsets (`ObuFlagsKept`).

`SpliceUnitLoops` needs no more of a packet than that it is bytes. Of every byte string the
loops return what `Annexb`, `H26x` and `Obu` say in one formula, and all other results rest
on those formulas:

* `ScanLoopIs`: the hunt for start codes goes on three bytes past each and misses none,
  because no two codes overlap (`HuntsLists`, `CodesLoopIs`), and the end it clamps is the
  formula's (`EndIsPad`, `EndOfInner`, `EndOfLast`).
* `AccessUnitsLoopIs`, `TemporalUnitsLoopIs`: induction over the rounds. What the
  loop holds after some of them is the formula over the slices, or the OBUs, that came by
  so far (`Shows`, `ShowsTime`); `seen_slice` is whether a slice came by since the last
  boundary. A round opens a unit, puts a slice or an OBU down to the open one, does both or
  neither (`NalRound`, `ObuRound`). A fold of the community modules goes by sets of indices;
  that it is a sequence of rounds is `FoldRounds`.

What is assumed. `PacketsAssumption`: the NAL units of a packet are as an encoder writes
them and shorter than 2^32 bytes; in AV1 an OBU without a size field stands in the
picture. The code puts a payload behind an unsized last OBU too, where it becomes part
of it (a listed hazard, `obu.rs:269`). `NotesAssumption`: a payload begins with the UUID that is
looked for, its SEI is shorter than 2^32 bytes and its sizes take no more than the eight bytes
a leb128 may have. `MemoryAssumption`: a packet with what is put in fits memory.
`SpellingAssumption` is empty for the 256 values a byte of a length has in the code; with
the fewer values of a small instance it asks that a sample that comes apart is spelt in
those digits.

**How recursion is reasoned about** (`BytesLemmas`). The library's induction theorems
take a predicate and cannot be used. `Upwards` and `UpwardsFromBelow` take a set
`Good` of offsets instead, which is enough wherever the recursion runs over the
offsets of one byte string: the recursive function exists (`JoinsExists`,
`WalksExist`, `LebsExists`), and every function of that kind has the property. The
rest of `BytesLemmas` is runs of zeroes, sorted sets of offsets, slices and
`FlattenSeq`.

Only model-checked:

* `CallReturns`: liveness under fairness, and `ENABLED`. `FeedStepsShrink` is the part
  of it that can be proved.
* `WovenComesOut`: the writer in front of the feed. It needs that every access unit
  of a stream, not only the first, keeps its bounds when a payload is put into each.
* `TruncatedLosesOnlyTheLast`: the invariant of `FeedAv1Proofs` says what the feed
  holds and has delivered of a stream whose OBUs can all be read. This property is
  about the readable part of one that ends inside an OBU, and the invariant has not
  been stated for such a part.
* `HeaderSaysTheSps`: the formats an SPS was written with are known bit by bit only on
  the instance.

No module declares a `RECURSIVE` operator. `SelectSeq` is opaque to the prover, so what a
module with proofs filters it filters with `FlattenSeq`.

## What is not modelled

* Which `Error` a call returns and the offset in it, and the hexadecimal digits of
  a codec string: wording and layout. The models keep that a call failed, and for
  OBUs how, because the feed goes on after one kind of failure and not the other.
* Vectors that cannot be allocated, and counters that need gigabytes to wrap: the
  model counts in the naturals. `usize::MAX` matters in one place, the size of an
  OBU, and is a constant there.
* NAL units that end in a zero byte or hold a start code: no encoder writes them,
  and the start-coded framing cannot carry them.
* A caller who goes on pushing after `finish`.

## The plan

Done: the foundation; `Feed` with its runs and proofs, and `Weave` in front of
it; `EpLoop` with its proofs; `Splice` over `Carrier` with the refinement proved; the
loops against the closed forms; the records and `Track`, with the proofs about header and
packets. What is left is a proof:

`WovenComesOut`, that is `CarriersKept` for every access unit of a stream and not only the first.
