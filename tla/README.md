# TLA+ models of the pipelined asynchronous BitTorrent engine

The engine is a handful of threads, each with its own libev loop, that talk
through lock-free queues. This directory holds TLA+ models of its concurrent
core and of the data structures and formats it rests on, the TLC configurations
that check them on small instances, and proofs checked by TLAPS for every
instance. Every definition is translated from the C++ source; `PROJECT.json`
maps it to its lines.

## 1. The system

### Threads and how they interact

```
 controlling thread --flags + ev::async--> tracker thread (TrackerManager)
 tracker thread ------spsc_queue<peer_contact,100>------> connection thread
 connection thread ---spsc_queue<connect_update,50>-----> transfer thread
 transfer thread -----spsc_queue<disconnect_update,50>--> connection thread
```

A `beamable_spsc_t` is an `spsc_queue` and the consumer's `ev::async`: the
producer pushes, then calls `send()`; the consumer's callback pops until the
queue is empty. libev clears the async's "sent" flag before it runs the callback
and merges sends made before that.

### Components

| component | state | operations | what makes it correct |
|---|---|---|---|
| `spsc_queue`, `beamable_spsc_t` | ring of Size+1 cells, two atomic indices, a cached copy of each, an async | push, pop, send, callback | values arrive once, unchanged, in order; no data race on cells; refusals are real; no lost wakeup |
| `PeerConnectionManager` with `inbound_scheduler_t`, `connection_statistics_t`, `slot_recycling_pool` | 200 slots with generations, contact register, counters, retry queue, contact cache, scheduler position | callbacks of queues, scheduler, timers, peer sockets, server socket | slots, register and generations agree; stale handles are recognised; limits hold; every attempt ends; no peer is forgotten |
| `TrackerManager`, `Tracker` | trackers by host, `manager_space` with back-indices, two timers each, announce list position, event flags | start, reannounce, force_reannounce, shutdown; timeouts; answers | a walk that removes what it walks over reaches everything; timers only run for waiting trackers; announcing goes on for ever; a shutdown is served, and leaves its trackers as new |
| `overwritable_cache` | ring of contacts | push (overwrites), fresh_pop, stale_pop | newest contacts kept, newest first |
| `peer_nonblock_tcp`, `PeerSession` | a descriptor | open, connect, adopt, send, recv, close | one owner per descriptor |
| `HTTPHandler` | libcurl multi handle, one socket watcher per request, one timer for all, the body of each answer | add_request, socket_callback, timer_callback, drive_sockt, drive_timer, chk_finished, easy_callback | a request ends, in exactly one of do_on_success, do_on_failure, with a body of its own; watchers do not outlive their socket |
| `io_ring_buffer`, `bittorrent_messages` | ring of bytes; frame cursor | prepare/commit; resumable encode and decode | what is committed is what is read; a message may be split anywhere |
| `FileManager` (`file_mapper_t`, `piece_mapper_t`) | file table, byte ranges | constructors, index_file, files_for | every byte of a piece in exactly one file; ranges without gaps; names that lead outside are refused |
| Bencode (`Ben*.cpp`) | text and cursor | decoders, encoders | exactly bencode is accepted, no part of it; positions are those of the values |
| `TorrentFile` | decoded torrent, info hash, sizes | constructor, queries | a piece for every byte and a hash for every piece; malformed torrents refused |
| `DynamicBitset` | 64-bit words | set operations, queries, iteration, payload encode and decode | agrees with the set of indices, across words, bytes and calls |
| `PeerTransferManager`, `PeerManager`, `BTProtocol`, `UDPHandler` | - | stubs or empty | - |
| sha1, Hasher, Randomer, InitCurl | - | third-party code and helpers | - |

### What is hard to test here

Interleavings on the queues; handles that outlive the peer they name; a contact
that is being connected to and at the same moment connects to us; counters
decremented on every way out of a callback; timers racing sockets; vectors
modified by the loop that walks them; flags raised while they are handled; state
kept between two runs of a callback; several transfers ending in one call of
libcurl; answers cut short; lengths, sizes and indices at the border of a word, a
piece, a file or an integer type. `PROJECT.json` lists these under "hazards",
each at its line.

## 2. Modules

### `BoundedFifo`, `SpscQueue`, `SpscQueueProofs`

`BoundedFifo` is the abstract promise: an atomic FIFO queue of at most `Size`
items. `SpscQueue` is `spsc_queue.hpp` at the grain of shared accesses. push is
`PushBegin` (own index, look at the cached one), `PushRefresh` (acquire load, give
up if still full), `PushStore` (the cell), `PushPublish` (release store); pop is
the mirror image. `EndBatch` is the one `send()` after a batch of pushes and
`Wake` the start of the consumer's callback. Each index is written by one thread,
published with release and read with acquire order, so interleaving these steps
covers what the C++ memory model allows, provided the cells themselves are never
accessed at once, which is `NoDataRace`. `FifoSpec` is the refinement, with
`Contents` reading the ring from `read_idx_` to `write_idx_`.

### `PeerConnectionManager`, `PeerConnectionManagerProofs`

One libev callback is one step, except the two that drain queues another thread
fills: `drain_discovered` (`DrainBegin`, `DrainPop`, `DrainEnd`) and
`round_robin_establisher_scheduler` (`SchedulerBegin`, the loop head, one step per
turn of a handler's loop); `loop` says which of them is on the stack, and no other
callback runs meanwhile. The tracker and transfer threads interleave with all of
it; they appear as far as this thread meets them (`TrackerReports`,
`TransferTakes`, ...). Queues are the atomic ones `SpscQueue` is proved to be. A
connection is reduced to what the control flow tests: state, source, contact,
whether `tcp.__socket` holds a descriptor, which watchers are armed, failures, and
how far our handshake got. Answers of the network are nondeterministic: connect
may fail, be in progress or succeed at once; a send may be partial; the handshake
may be valid or not; any transfer may fail. Counters are `std::size_t`, so `Dec`
wraps. `AssertsOn = FALSE` is a build with `-DNDEBUG`; the passing runs use it,
because with asserts the first disconnect ends the program (run `pcm_teardown`)
and nothing behind it would be explored.

Left out: IPv4/IPv6 conversion (a contact is a model value, its equality is
`peer_contact::operator==`), socket set-up at start, the statistics printer, an
`accept4` that fails (it changes nothing).

### `TrackerManager`, `TrackerManagerProofs`

The controlling thread raises a flag (`Call`) and signals (`CallSends`).
`handle_event` is a sequence of steps: `EventBegins` loads the flags, each walk
takes one step per turn, `EventEnds` is the `fetch_and` and the `feed_event`.
Walks are range-for loops over a vector whose size shrinks inside: `cells` is the
vector's storage, `size` its size, `it` and `end` the loop's fixed iterators, so
that reading behind the size is modelled as what it reads. `Sent` is the swap and
pop of `send_to_protocol_space`; called with no element left, or with an index
behind the size, it is undefined behaviour (`halted = "undefined"`). URLs are
their protocols, durations what they are for and which of two ends first, answers
their kind. `left_out` is history: `shutdown_event` took the tracker out when it was
inactive, so that it got no last announce. `get_retry_seconds` reads `retry_intervals[failures-1 %5]`, which is
`failures - (1 % 5)`: beyond the table it is undefined behaviour, and so it is
here. A fed event keeps timers and sockets from being looked at (`Polled`):
libev works off everything pending, fed events included, before it polls again.

Left out: request text, `update_context`'s counters, tracker ids, the peers in an
answer (they are `TrackerReports` in the module above), `context.online`.

### `IoRingBuffer`, `HandshakeStream`, `HandshakeStreamProofs`

`IoRingBuffer` is the ring of bytes as operators on a record; iovecs are a first
cell and a length. `HandshakeStream` uses it twice: one peer's `encode` writes a
handshake into its ring, `send(k)` moves the first k bytes of both pieces to the
socket, the other peer's `recv(k)` puts k bytes into its ring and calls `decode`,
as `handle_peer_application_level_handshake` does. `fail` is the reset in
`handle_peer_failure` at any moment. A byte is its field and its place in it, so
that one that is lost, repeated, moved or left over shows. `Take` is one turn of
decode's chain of `range` tests: a field comes from the first piece, from both
(`wraparound_steal`), or from the second behind what was stolen. As in the code,
the protocol string and the reserved bytes are skipped unread, and a peer id is
overwritten, never compared with the one the tracker reported.

The connection manager's two rings hold exactly one handshake and are empty at
cell 0; there `encode` never has to resume and nothing wraps. Both functions are
written for rings of other sizes and rotations, and the run takes those too.

### `HTTPHandler`, `HTTPHandlerProofs`

libcurl is the environment: `GoesOn` and `End` are what `curl_multi_socket_action`
does to transfers, and they call back as libcurl does: one `socket_callback` for
each socket whose events changed, in any order, and `timer_callback` when the next
time-out is another one than it last reported. The code's part is what these
callbacks do (`set_socket`, `remove_socket`, `timer_callback`, `easy_callback`) and
the four things `chk_finished` does for each message. `drive_timer` and
`drive_sockt` are the two libev callbacks. A piece of body is the number of the
transfer it came with; `serial`, `told` and `crowded` are history.

Three peculiarities of the code are in the model as they are: the precedence of
`?:` and `|` in `set_socket`; one watcher for all sockets of a transfer; and
`curl_multi_assign` called with the easy handle, which libcurl refuses, so that
`socketp` is always null.

### `Bencode`, `TorrentFile`, `PieceMapper`, `FileManager`, `PieceMapperProofs`

`Bencode` has the decoders as operators from a text and a cursor to an optional
value with its position, and the encoders. `IsBencode`, `Plain` and `Parts` are
independent reference definitions: a grammar, the value without its position, and
all values inside a value. `TorrentFile` is the constructor: every way to fail is
an outcome, among them the exceptions of `get_as` and undefined behaviour (a
missing key dereferenced, a division by zero, a signed overflow).
`get_piece_hash` keeps the place of a hash in an `int` (`TorrentFile.cpp` 169):
`hash_index` is what is left of it there, with `NarrowMax` for `INT_MAX`. `PieceMapper` is
the ranges the constructor gives the files and `files_for`, one step per turn of its
loop; `std::lower_bound` returns any file if the ranges are not partitioned. `FileManager` puts them together: either an
"answer" arrives byte by byte and is decoded at each length, or a torrent is
opened, mapped (`Map`: both constructors) and asked for pieces. A dictionary key
such as "piece length" is one character; SHA-1 is the bytes it is taken of; the
file system is a set of paths that symbolic links take outside.

The decoders are `RECURSIVE`, so `Bencode`, `TorrentFile` and `FileManager` are for
TLC; `PieceMapper` uses none of them and is proved about (section 4).

### `IndexSet`, `DynamicBitset`, `DynamicBitsetProofs`

`IndexSet` is the promise: a set of indices below a length, and what each call
does to it. `DynamicBitset` has words as sets of bit positions, with every
operation of the class, and `SetSpec` is the refinement, `members` being what
`test` answers. The payload is produced by any number of calls of
`encode_as_payload` with room for any number of bytes, and the set may change
between them. A set of length 0 (the pieces of a torrent of 0 bytes, which
`TorrentFile` opens) has no words; every call handles it but `decode_as_payload`,
which takes `back()` of the span (`DynamicBitset.cpp` 30) before it knows that there
is a last byte. For the empty payload, which has the right size, that is undefined:
the model goes on or stops at `<<"undefined">>`, and `IndexSet` promises nothing
there (`Undefined`).

## 3. Runs

| run | instance | checks |
|---|---|---|
| `spsc` | 3 cells, 2 items, batches of 2 | all of `SpscQueue`; both indices wrap, full and empty are frequent |
| `pcm_tracker` | 3 slots, 3 tracker contacts, limits of 2, 1-place cache and queue | exact counters, nobody forgotten, quota against ignored push results |
| `pcm_accept` | 2 slots, 2 contacts, one of them also connecting to us, limits of 1 | pool, register, generations, handles, asserts, outbound limit |
| `pcm_live` | 2 slots, one contact in both roles | attempts end, callbacks return |
| `tracker_walks` | 3 trackers, 3 calls | back-indices, walks, timers, what a shutdown leaves behind, minimum interval |
| `tracker_live` | 1 tracker, 4 mixed URLs, all 7 kinds of answer, a retry table of 2, 4 calls | URL cycling, announces for ever, a shutdown not yet read is served |
| `http` | 2 requests, one with 2 sockets, each added twice, bodies of 1 piece | one answer per transfer, fresh bodies, watchers, every request ends |
| `torrent` | all texts of up to 5 characters over 2 alphabets, texts of up to 8 and 10 that begin a dictionary; torrents of up to 3 files of 0 to 3 bytes, pieces of 1 to 3 bytes; torrents with fields missing, mistyped, negative, zero or at the limit | decoding, truncation, positions, piece count and ranges, files_for |
| `bitset` | words of 2 bytes of 2 bits, lengths 0, 1, 4, 5 and 9 | set operations, queries, payload |
| `handshake` | 7-byte handshakes, rings of 4 and 7 cells, every rotation, 2 attempts | stream intact, decode correct, never stuck |
| `pcm_teardown`, `pcm_inflight` | smallest instances that show it | disagreements, section 5 |

**Bounds.** `MaxArrivals` caps contacts reported plus connections accepted,
`MaxCalls` the controlling thread's calls, `FailuresCap` the failure counter,
`MaxBatch` the pushes before a signal. Three or four arrivals are enough for a
contact to be reported, fail, be accepted while it waits, connect, disconnect and
have its slot reused by another, with a stale handle still queued; limits of 1 or
2 put every limit within reach, and a third slot and contact let the limit be
exceeded if it can be. Three calls give start, something, and a call during its
handling; three trackers make the swap of a middle, a last and an only element
happen in one walk. `SizeMax = 9` is larger than any true count, so a wrap shows.
A handshake of 1+1+1+2+2 bytes has two fields the wrap can cut in the middle
and three it can fall between; a ring of 4 makes `encode` resume and wraps, one of
7 is the program's case; two attempts show what the first one leaves behind.
`MaxAdds = 2` lets a request object be used again while the other transfer runs,
`MaxChunks = 1` lets its body have something to keep; two sockets are the smallest
number for which one watcher is too few. Texts of 5 characters reach every border
of a number (`IntMax = 15`, so that 16 and -16 are two digits: one is out of
range, the other the least) and of a declared length, texts of 8 and 10 that begin
a dictionary one with a pair and one with a key twice. Three files with sizes around the piece length put empty
files in front of, between and behind others, and piece borders on file borders.
`NarrowMax = 7` with hashes of 2 characters: four hashes are in reach, and torrents
of up to nine pieces are opened.
Lengths 0, 1, 4, 5 and 9 are no word, a partial word, a full one, a full and a partial one,
and three words, with and without spare bits in the last byte; `MaxChanges = 1`
changes the set once between any two calls for the payload and, since `Begin`
counts anew, any number of times in all.
Tracker contacts are interchangeable in `pcm_tracker` and trackers in
`tracker_walks`: symmetry is used there, both runs being without liveness.

**Deadlock** is checked in `spsc`. The bounded instances of the other
modules stop when the bound on arrivals or calls is used up, when an assert or
undefined behaviour ended the program (in `bitset` only that), when the handshake is decoded, when no request may be added
any more, or when a text is complete or a torrent refused.

**Fairness.** The event loop runs what is pending and every expired timer (weak
fairness of callbacks, of each peer's timer and of each step of `handle_event`); a
thread in the middle of a push, batch or call finishes it. Timeouts and answers of
trackers get strong fairness: a signal may keep `handle_event` running again and
again, but each loop iteration in which it did not feed itself runs all expired
timers and finished transfers too; libcurl ends every transfer within
`CURLOPT_TIMEOUT`. In `HTTPHandler` that is spelled out: libev calls the timer's
callback once it has expired (weak fairness of `drive_timer`), and a transfer for
which libcurl is called again and again does not outlive its 30 s
(strong fairness of `TimesOut(r)`); it is not assumed that the timer is set, nor
that any socket becomes ready. No peer has to answer, nobody has to call or push, and no
session has to end.

**Restrictions.** `InboundAccounting`, `NoOrphan` and `ConnectionCredit` are
checked without accepted connections in `pcm_tracker` (the first is false with
them: `pcm_inflight`; the last is proved for all instances). `tracker_walks` uses
answers whose minimum interval is the shorter one and that list peers:
`TimersQuiet`, `MinimumRespected` and, without peers, `ShutdownResets` fail for the
others (section 5). `ShutdownResets` says what is true of the code: after a shutdown a
tracker is with libcurl for its last announce, or as new, or it was inactive when
`shutdown_event` took it out and keeps its old state; no tracker outside the first and
the last kind fails the assert of the next start. `ShutdownServed` is about a flag that
`handle_event` has not read yet; one raised again after it has read the first is served
or cleared together with that one (section 5). `tracker_live` takes all answers,
and `AnnouncesForever` excludes a tracker that is `Stranded`: one whose answer
listed no peers or was unparsable. `PiecesCover` speaks of torrents without
negative sizes; with them the code's unsigned arithmetic may agree with the number
of hashes by wrapping. Its part about hashes is for torrents whose last hash begins
where an `int` reaches. `SetSpec` promises nothing of decoding into length 0. `WatchersSound` promises that libev waits for what libcurl
wants only while the transfer has had one socket at a time; `RequestEnds` has no
such restriction, the timer makes up for it.

Each property has a mutant: an operator named `Slip...` next to a definition
changes it the way a plausible mistake would, and TLC then finds the property
violated.

## 4. Proofs

`SpscQueueProofs`, for every `Size >= 1`, every set of items and every batch
length: `TypeCorrect`, `RaceFreedom`, `RefusalsReal`, and `Refinement`
(`Spec => FifoSpec`). The inductive invariant is

* `TypeOK`;
* `CachesLag`: going round the ring one meets the real read index, then nothing
  the producer's cached copy does not allow, and symmetrically for the consumer:
  a stale index only ever understates free space or contents;
* `InFlight`: a producer about to store has a free cell, a producer about to
  publish has stored its value, a consumer about to read or release has an item,
  and holds the cell's value.

Without `CachesLag` a skipped refresh could not be justified, without `InFlight`
the publication would not be an abstract `Push` of the right value. The refinement
maps `PushPublish` to `Push`, `PopRelease` to `Pop`, every other step to a
stutter; two lemmas say how `Contents` changes when either index moves.

`PeerConnectionManagerProofs`, for every pool size, quota, limits, set of contacts
and both builds: `TypeCorrect` and `CreditSound`. `ConnectionCredit` is not
inductive alone: it needs that sessions are finite, that a decrement by
`disconnected_peer_scheduler` never takes `connected` below what the remaining
handles need (the popped handle paid for it), and that `connected` is below the
quota whenever a peer is dispatched (`Ready` has tested it in the same callback).
The module states one lemma per action, grouped by what the action touches, and
`NextIndInv` puts them together. Assumptions: those named in
`PeerConnectionManager`, of which `UpdatesAssumption` (the queues hold at least
the quota) and `SizeMaxAssumption` are true of the constants in the source; TLC
evaluates all of them in every run.

The second half of the module, under the same assumptions: `SlotsPartitioned`
(`PoolSound`), `HandlesNameTheirPeers` (`HandlesSafe`), `EveryPeerHeld` (`NoOrphan`),
`CallbackAsserts` (`AssertsHold`) and the action property `UpdatesArrive` (`NoUpdateLost`). None of these is inductive:
whether a released slot may be reused safely depends on which handles still name
it, and that on how far each queue is. `PoolIndInv` adds to the invariant above

* `PoolInv`: free slots, registered slots and the register fit together, and the
  record of every slot is of one of five kinds (vacant, in flight, backing off,
  waiting for its retry, connected), which is what each callback needs of the peer
  it was called for;
* `HandleInv`: the generation in a handle is never ahead of its slot's, and a handle
  of the current generation belongs to a slot of the kind its queue is for;
* `DistinctInv`: no handle is in two places, where the count comes from
  `ConnectionCredit`;
* `LoopInv`: what a handler's loop has tested still holds in its later turns.

`NoUpdateLost` follows from `ConnectionCredit` and the queues holding the quota.

The last part of the module: `OutboundExact` for every constant, and `InboundExact`
under `AcceptContacts = {}`. The invariants equate each counter with
the cardinality of a set of slots, and one lemma (`CountMove`) says how the
cardinality moves when one slot changes; a decrement does not wrap because the slot
it is for was in the set. The hypothesis of `InboundExact` is needed: a peer that
connects to us while we try to reach it takes its slot over without the counter
being told (run `pcm_inflight`). `LimitsAssumption` (pool and limits fit
`std::size_t`, their type in the source) keeps increments from wrapping.

`PieceMapperProofs`, for every list of files whose sizes add up to less than the
wrap (`TorrentFile` has added them up in a signed number before), every piece length
and every piece that begins below the wrap: `RangesCover` (the ranges follow each other
from byte 0 on, which is the part of `PiecesCover` that is about `piece_mapper_t`, and
each byte is in one file and no other) and `FilesForIsExact`
(`MapperSpec => []FilesForExact`): when the loop of `files_for` has ended, its
result has, for each file that shares a byte with the piece, exactly that share,
and the files in order. `FilesForExact` speaks of the end only; the inductive
invariant `MapperInv` says of every iteration that the files already looked at
have their shares in the result, that the bytes not yet placed are those of the
piece from the next file's start on, and that no file still to be looked at ends
before the piece begins. `OffsetIs` gives the sums of sizes their equations,
`FarApart` carries what holds of neighbours over any distance.

`HTTPHandlerProofs`, for every set of requests and every finite set of sockets:
`AnswersExact` (`AnsweredOnce`), `BodiesFresh` (`FreshData`) and `WatchersAgree`
(`WatchersSound`). The inductive invariant adds that no finished transfer waits
between two callbacks, because every driver ends with `chk_finished`, and that a
request without a running transfer has an empty body. For the watchers it says of
each one that it agrees with the sockets its transfer has open, and that a request
without a transfer has none open; `WatchedLast` gives the fold over libcurl's socket
calls a closed form, because the last call decides what the watcher does.

`TrackerManagerProofs`, for every finite set of trackers, all announce lists and any
number of calls: `SpaceAgrees` (`SpaceSound`), `TimersOnlyInSpace` (`TimersQuiet`),
`ResetAfterShutdown` (`ShutdownResets`) and the action properties `WalksReachAll`
(`WalksComplete`) and `MinimumIsRespected` (`MinimumRespected`). These assume `Benign`:
the asserts are on, no answer asks for a minimum interval longer than the interval or
is unparsable, and `FailuresCap < RetryIntervals` (fewer failed cycles than
`get_retry_seconds` has entries). `ResetAfterShutdown` assumes in addition that no
answer is without peers. The hypotheses name the defects of section 5 and of the
hazards: with such an answer the property is false of the code. The invariant has

* `ShapeInv`, `TrackerInv`, `PlacedInv`: the vector's storage, its size and the
  iterator in each phase, and what a tracker's record says about the space it is in
  (a minimum timer only together with the later maximum one and before the tracker
  is interruptible, a request only for an http URL);
* `AheadInv`: what a removing walk has still before it. A walk passes the vector's
  size, and goes on through storage behind it; the proof that this is harmless is
  that storage there holds copies of elements which have been moved to a place
  *behind* the iterator, each copy once, and all of them still in the vector;
* `BehindInv`: a tracker the walk should take is still ahead of it.

`ResetAfterShutdown` has an invariant of its own on top of this one. `ResetInv` says
that every tracker is at all times in `manager_space`, with libcurl, left out or as new
(`Accounted`), and that those the walk of `start_event` has still before it are of the
two kinds the property names (`Unready`) or pass the assert (`Unstarted`). The lemmas `SentAccounts`, `SettledAccounts`,
`AnswerAccounts`, `StartAccounts` say what each kind of step does to one tracker.

`CycleIsComplete` (the action property `CycleComplete`) needs none of these hypotheses.
Its invariant `CycleInv` says of each tracker that the URLs tried are the http URLs met
on the way around the announce list from `CycleStart` (`failed_idx` once one has failed)
to the current one (`OnCycle`). Every action is first reduced to one of four kinds of
moves of a tracker (`StepMoves`), and the moves, not the actions, are shown to keep it
(`MovesKeep`).

`SeekFindsHttp` (the loop around an announce list ends on an http URL) and
`OrderIsOnto` (`populate_manager_space` writes every tracker once) are the lemmas
about operators. `SequenceLemmas` holds what several modules need of sequences, and
`LeastNat`, the existence of a least element, from which `Min` gets its meaning. The
same lemma takes the place of induction: `UpTo` says that a subset of `0..n` that has 0
and with each number the next is all of it, `FoldRuns` and `RecursionExists` derive from
it that a fold over a sequence and a function defined by recursion obey their equations.
A property to be shown by induction is then a subset of `0..n`.

`HandshakeStreamProofs`, for all lengths of the fields, every size of the sender's
ring, every cell at which the receiver's ring begins, all peer ids and any number of
attempts: `RingsAreSound` (`RingsSound`), `StreamIsIntact` (`StreamIntact`),
`DecodeIsCorrect` (`DecodeCorrect`) and `StreamNeverStuck` (`NeverStuck`).
Assumptions: every field has a byte and every ring a cell. The argument has three
layers:

* the ring: `IsRing` says that the two indices and the count agree; `PiecesOfRing`
  derives from it what `prepare_read` and `prepare_write` offer, `WriteRing`,
  `ReadRing` and `ResetRing` say what copying does to `Contents`;
* the bytes: `TakeIs` says that decode's fields come from the two pieces as if they
  were one, `TwoParts` that the pieces are the contents, `LaidIs` where the fields
  are, and `DecodeIs` puts them together;
* the stream: the invariant `Inv` is the equation of `StreamIntact`, the rings, and
  that before decoding the receiver holds less than a handshake (`recv` looks after
  every read). Without the last part neither `NeverStuck` nor the step that decodes
  would follow: the ring must then hold the handshake and nothing else.

`DynamicBitsetProofs`, for every width of a word and of a byte (whole bytes to a word),
all lengths from 0 on, all sets of indices that calls are made with and any number of changes:
`Implements` (`Spec => SetSpec`, the refinement of `IndexSet`), `QueriesAlwaysAgree`
(`QueriesAgree`) and `PayloadIsFaithful` (`PayloadFaithful`). The argument:

* `Sound`: the bits beyond the length in the last word are 0. With it words and members
  determine each other (`SoundFacts`); without it `count`, `all` and the iteration,
  which look at whole words, would see members `test` denies. Each operation keeps it
  and does to `Members` what `IndexSet` says; `decode_as_payload` does because it
  refuses a payload with a spare bit;
* loops: `count` and the loops of `encode_as_payload` and `decode_as_payload` are folds;
  for each of them a lemma says what has been added up, written or produced after k
  turns. The iteration is a recursion over iterators: `Rest(it)`, the members still to be read, is
  `Members` at `begin` and loses its least element with every turn, so the loop ends,
  and the indices come in order and once each;
* `Empty`: with length 0 there are no words. `Sound` would say nothing there, since it
  speaks of a last word, so each theorem has this case apart; every step either leaves
  the set as it is or is the abstract `Undefined`;
* `PayloadInv`: every byte produced so far says 1 for all that were members since
  `Begin` and 0 for all that never were, at the bit position of network order, spare
  bits included, whatever the number of bytes each call had room for.

Assumptions: `BitsAssumption`; the widths and lengths of the program satisfy it.

Only model-checked: all liveness (`NoLostWakeup`, `InFlightResolved`, `CallbacksReturn`,
`AnnouncesForever`, `ShutdownServed`, `RequestEnds`), which is outside the prover's reach; and `DecodesExactly`, `TruncationDetected`,
`PositionsTrue` and `PiecesCover` as a whole. These four speak of `Bencode`'s decoders
and encoders, which call each other recursively as the code's do and are `RECURSIVE`
operators here; the prover cannot be used in a module that has them.

## 5. Where code and text disagree

Shown by runs:

* `pcm_teardown`: the descriptor stays in `peer.tcp` after the hand-over, so
  `teardown_connection`'s assert fails for every peer that disconnects, and with
  NDEBUG no peer is ever reconnected (`open_socket` refuses).
* `pcm_inflight`: a tracker attempt that has failed is resolved a second time when
  its contact is accepted; the limit is exceeded or the counter wraps.

Met while modelling, present in the models, without a run of their own:

* `empties` and `current` survive from one callback of the scheduler to the next
  (`PeerConnectionManager.cpp` 277-293), so it may stop before it has looked at a
  queue that was just filled, and a due retry waits for the next event, where
  `tcpnote.txt` (21-24) wants a resolved attempt replaced at once;
* `shutdown_event` takes an inactive tracker out without resetting it
  (`TrackerManager.cpp` 275-276), also one that had answered and failed later, so after
  the next `start()` the assert of line 217 fails for it. A `start()` while the last
  announce is still with libcurl fails the assert too. `ShutdownResets` says that
  these are the only two kinds;
* the scheduler connects although the quota is met, and attempts in flight at that
  moment are deleted, where `tcpnote.txt` (26-27, 36-38) wants them stopped and
  kept in a "kickstart bucket";
* with NDEBUG, accepting a contact that is CONNECTED makes its disconnect stale
  and `connected_bittorrent_peers` is never reduced for it (446, 233);
* a `connect()` that succeeds at once never sends our handshake (162-165);
* `reannounce_event` leaves the minimum timer running if the maximum one expired
  first (242); its timeout then removes another tracker from `manager_space`. This is
  for answers that ask for a minimum longer than the interval; for them `reannounce()`
  also announces before the minimum is over, because the first timer to expire, not
  the minimum, makes a tracker interruptible (190-207). `MinimumRespected` and its proof
  are about the other answers;
* a flag that does not apply in the current state (start while active, shutdown or
  reannounce while inactive) is never cleared; `handle_event` feeds itself for ever
  and starves timers and sockets (`TrackerManager.cpp` 327), where its comment
  speaks of a new event (324-326); `AnnouncesForever` excludes this case;
* a flag raised again while it is handled is cleared with the old one (323). The calls
  shutdown, start, shutdown, the last two made while the first is handled, so end with
  the manager started: the second shutdown is lost and the start survives;
* an answer without peers returns before the timers are set (`Tracker.cpp` 56, 66);
* an unparsable answer destroys the `Tracker` that `chk_finished` goes on using
  (`Tracker.cpp` 202);
* `retry_intervals` is read out of bounds after the fifth exhausted cycle
  (`TrackerManager.cpp` 176);
* `set_socket` watches for reading only when libcurl wants both directions
  (`HTTPHandler.cpp` 178-181); `CURL_POLL_REMOVE` of one socket stops the watcher
  of another (207); `timer_callback` starts the timer for -1, which means "none"
  (234-238); `socketp` is never "the pointer stored with curl_multi_assign" its
  comment speaks of (197-198). None of them keeps a request from ending;
* `parse_transcription` joins its tests for missing keys by `and`
  (`TorrentFile.cpp` 52-54): a torrent that lacks one or two of them gets past it
  and `end()` is dereferenced; piece length 0 divides by zero and negative sizes
  take part as unsigned numbers (96);
* `get_piece_hash` computes `int hash_index = index * hash_length` (`TorrentFile.cpp`
  169): from piece 107374183 on the place is negative, and `&piece_hashes[hash_index]`
  is in front of the text;
* `decode_as_payload` takes `back()` of an empty span if the length is 0
  (`DynamicBitset.cpp` 30);
* two files with the same path are both indexed (`FileManager.cpp` 160).

## 6. Plan

Done: the two managers, the queue between them, the handshake's bytes, HTTP
requests, and the way from a torrent's bytes to the files of its pieces. Next, in
this order:

1. `OverwritableCache` refining the bounded sequence used here.
2. A composition of `TrackerManager` and `PeerConnectionManager` through the queue
   of contacts: a peer in an answer is attempted or overwritten by a newer one.

**Not modelled.** SHA-1 and the random identifiers (third-party arithmetic without
control); library set-up; printing; the text of announce requests and the URLs of
`get_tracker_urls` (the trackers' URLs are a constant of `TrackerManager`);
`PeerTransferManager`, `PeerManager`, `BTProtocol`, `UDPHandler` and `preallocate`,
which are stubs; files the program does not use; the depth of the stack in nested
decoding; lengths of paths.
