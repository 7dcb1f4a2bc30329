# A verification model of OpenRTMP

OpenRTMP is an RTMP media server in C++ (`src/libmediasrv`) on a portability and object
library of its own (`src/libcpputil`, over `src/adapi`). This directory holds TLA+ modules
translated from its source, the TLC configurations that check them on small instances, and
theorems that TLAPS proves for every value of the constants.

`PROJECT.json` is the index: `components` (what there is and what is modelled), `runs`,
`mutants` (for every property, a plausible bug of the mapped code that the run then finds),
`map` (the source lines of every definition), `findings`, `hazards`, `theorems`.

To check by hand: `tlc -workers 2 -config MCNetConn_send.cfg MCNetConn`,
`tlapm NetConn_proofs.tla`.

## 1. The build that is modelled

The Linux makefiles: `_NET_SELECT_POLL` (a poll loop) with `_MAX_CTXS_` = 5000 in
libcpputil; `_RTMP_SUPPORT_`, `_RTMP_SSL`, `_MAX_CONNECTIONS` = 50000 in libmediasrv. Not
defined, and so not code of the program: `_MDSOURCE_MT`, `_HLS_SUPPORT_`, `_RTSP_SUPPORT_`,
`_ETS_SUPPORT_`, `_FLVREC_SUPPORT_`, `_POST2CLOSE`, `_USE_TCPSERVER`, `_CDNNET_SUPPORT_`,
`_AUDIO_WAIT_VIDEO`. Settings that the ini file never changes are fixed
in the models: `m_bUseClientID` is always true (config.cpp:234; a run turns it off all the
same), `m_bVirtual` is always false, `m_bUseSettingSrv` is off by default. The callbacks in
the tree are empty hooks that return 0.

## 2. Inventory

A **network thread** per listening network accepts, polls, reads, writes and times out
connections. It parses RTMP chunks and turns commands and media messages into events. An
event goes into the **event queue**, to the thread of the session (publish, play, close) or
of the source (media). Executing it changes the **registry** of sources, the sources and
the sessions, and sends through `CObjConnContext::Send`, which any thread may call.

| part | state | operations | what is hard |
|---|---|---|---|
| event queue (`libcpputil_event*`, `thread_imp`) | a private queue, flags and list links per thread; a shared queue | PostEvent, Run, NotifyEvent, Start, Shutdown, join | waits without a predicate, signals without the mutex, a thread list walked without its lock |
| network thread (`net_select`, `net_pub`) | `m_listContext`; per connection flags, send queue, bytes in flight, time of last activity | accept, poll, read, write, Send, close, time out, Shutdown | two writers of one stream, reference counts, a list reordered by several threads, checks outside locks |
| chunk layer (`libcpputil_rtmp`, `libcpputil_amf`) | parser state, last header, buffer and chunk size of each channel | OnReadCompleted, the processXXX handlers, CAMFBuffer::Write, SendXXX | reads cut anywhere, interleaved messages, inherited headers, a chunk size that changes in mid-message |
| registry, sources, sessions (`session`, `usr`, `rtmp`, `ctx`, `mdsource`) | sources by name; per source its publisher, players, flags; per session source, name, flags | publish, play, media, releaseStream, OnClose, ousting a publisher | check-then-act over two locks, plain pointers, events that outlive what they are about, reference counts |
| relay of a source (`usr`, `mdsource`, `rtmp`) | clocks, parameters, cached headers and metadata of a source; per player what it has been given | decoding a media message, cutting a frame once, starting a player, play, pause, leave | stale caches, one memory shared by queued copies, frames refused in the middle, 24-bit times |
| acknowledgement window (`rtmp`) | bytes received, next report | OnReadCompleted, OnRTMPReadCompleted, OnOther | a 32-bit counter against a 64-bit one, a window the peer changes |
| server (`app`, `main`) | slots of networks, the queues | StartNetworkAndQueue, StopNetworkAndQueue, CleanUp | order of stop and destruction, events a stop leaves, a start after a stop |
| AMF (`amf`) | none | encoders, AMF_Decode | nesting, an error inside an object, five encodings of a length |
| lists and counts (`obj`), buffers and strings (`var`) | links, `m_nRef` | moves, AddObjRef, ReleaseObj | races on links where locks are left out |
| adapi, rde, libmalloc, media formats, settings client, UDP | | | see `components` |

What makes each part correct:

* event queue: an accepted event is executed once, by its thread, in order; no wake-up is
  lost for good; Shutdown ends with the threads gone.
* network thread: a peer receives what was queued, in order and once; nobody uses a buffer
  without a reference; limits hold; whoever is to be closed is closed; nothing is left at
  the end of Shutdown.
* chunk layer: the messages received are the messages sent, however the bytes were cut;
  a command is read as it was meant.
* registry: one source per name, the one whose publisher is still there; a replaced
  publisher is closed; a player is in one list, counted once, hears only what it asked for;
  everybody leaves when a connection ends.
* relay: a player can decode what it is given from its first frame on, misses nothing it
  did not refuse, sees time run forward and chunks of the size it was told.
* acknowledgements: the count never wraps, reports go on when it starts again, and a peer
  that waits for a report gets one.
* server: every network that was bound is started and stopped, and whatever a stop leaves
  behind is closed by the next start or by the clean-up.

The code's exposure to orders, failures and limits that tests hardly reach is listed line
by line under `hazards`.

## 3. Modules

| module | models | lines of code |
|---|---|---|
| `EventBox` | abstract specification of the event queue: boxes that are first in, first out | – |
| `EventQueue` | `CObjEventQueue`, `CEventThread`, `CEventImp`, thread start and join | `libcpputil_event.cpp`, `event_imp.h`, `thread_imp.cpp`, part of `obj.cpp`, `adapi/mtx.c` |
| `EventQueue_proofs` | theorems about it; that it implements `EventBox` | – |
| `NetConn` | `CNetAsyncSelect` and `CObjConnContext` | `libcpputil_net_select.cpp`, `net_pub.cpp`, the reference that `SendXXX` of `libcpputil_rtmp.cpp` hold |
| `NetConn_proofs`, `NetStream_proofs` | theorems about its list; about its streams, buffers and backlogs | – |
| `RtmpChunk`, `RtmpChunk_proofs` | the RTMP parser and the chunk writer; theorems about them | `libcpputil_rtmp.cpp` 1958–2854, `libcpputil_amf.cpp` 1351–1375 |
| `Amf` | AMF0 encoders and the decoder, as operators | `libcpputil_amf.cpp`, `CObjVar::SetString` |
| `MediaSource` | publish, play, media, release, close on registry, sources and sessions | `libmediasrv_session.cpp`, `usr.cpp`, `rtmp.cpp`, `ctx.cpp`, `mdsource.cpp` |
| `MediaSource_proofs` | theorems about it | – |
| `MediaRelay`, `MediaRelay_proofs` | one source between its publisher and its players: times, headers, frames, chunk sizes; theorems about it | `usr.cpp`, `rtmp.cpp`, `mdsource.cpp` |
| `AckWindow`, `AckWindow_proofs` | the count of received bytes and the reports; theorems about it | `rtmp.cpp` 2353–2559, `libcpputil_rtmp.cpp` 767–808, 2785–2812 |
| `ServerLife`, `ServerLife_proofs` | start, stop and clean-up over networks, queues and connections; theorems about it | `app.cpp`, `main.cpp`, `event_imp.h`, `rtmp.cpp` |
| `MC*` | values of constants that a `.cfg` cannot write | – |

`MediaSource` stands on what `EventQueue` and `NetConn` promise (one ordered box per
thread; a closing connection gets its `OnClose`), `MediaRelay` on `MediaSource`'s (media is
executed in order by one thread), and `ServerLife` puts queues, networks and connections
together by those promises.

### EventQueue

`queue`, `triggered`, `shutdown` and `next` are `m_listQueue`, `m_nTriggeredEmptyQueue`,
`m_bShutdown` and `m_pNextObj` of each `CEventThread` and of the `CEventImp` (index 0, also
the head of the thread list). `pc`, `src`, `cur`, `emptyCalled`, `first` are the locals of
`CEventThread::Run` and `ListMoveHead`; `ppc`, `dest`, `left` those of `PostEvent`; `cpc`
is the caller of `Start` and `Shutdown`. One action is one access to shared state: the
queue operations and flag exchanges are atomic as in the code (mutexes, `Interlocked*`);
the list moves are split into their pointer writes because `PostEvent`, `Start` and
`Shutdown` walk the list without `m_mtxThread`. The condition variable has no predicate, so
`NotifyEvent` wakes a thread only if it is `blocked` at that instant. The join
(`JoinTest`, `JoinWait`, `SignalExited`, `JoinSpurious`) keeps the lost signal and the
spurious return of `EvWaitForEvent`; that a join ends is false of the model and not stated.

`ImplementsBox` is refinement: with `queue` as the boxes and the event in hand read off
`pc`, every step is a step of `EventBox` or a stutter.

Left out: the choice of a thread (any may be the destination), the `NotifyEvent` API, a
second Start or Shutdown, the destructor.

### NetConn

The network thread is `npc` with `todo` (a walk over the list), `polled` (pollfds) and
`active` (`ctxs`): `Scan`, `Poll`, `Accept`, the events of each connection, the move of the
active ones to the tail, and the timeout walk are actions in the order of `ThreadWorker`.
Each buffer has a thread of its own that calls `Send`, whose steps are divided where the
connection's lock is taken and given up (`spc`). The kernel may take any number of units of
a write, or none. `age` is the time since `m_tmLastActive`, up to `Timeout`.

Left out: descriptors used again, connections made by the program, UDP, TLS, more than one
listening socket, a failing `poll`. A socket error stays. A refused connection gets no
`OnConnectionClosed`, as in the code.

### RtmpChunk

The stream is a sequence of numbers, one per field or unit of a body, so that a parser
that is one field off reads the wrong numbers, as the code would. Header sizes are counted
in fields (4, 3, 1, 0 after the basic header, for 11, 7, 3, 0 bytes), which keeps every
comparison of a `DataLength` with what a handler needs. `state`, `header`, `prevHeaders`,
`pktIoBufs` and `chunkSizeIn` are the fields of `CRTMPState`; each `processXXX` is an
action (`processData` with `EmptyData` and `ChannelTooHigh`, its early returns); `Read`
is `OnReadCompleted` up to the call of `processInputBuffer`. The handshake is its lengths
and the answers of its callbacks.

The sender is the library's writer (`SendWhole`, `SendChunkSize`) or a peer that obeys the
protocol (`PeerBegin`, `PeerContinue`, external): any header format that the previous
header of the channel allows, chunks of several channels interleaved, chunk size messages
anywhere. Its steps are taken while the parser waits; nothing in the parser depends on
bytes that have not been read. Like the library, this peer does not repeat an extended
timestamp in the chunks that continue a message; a peer that does is not understood by this
parser. An empty message is dropped, as in `processData`. `Chunked` is what
`CAMFBuffer::Write` leaves in its buffer, given by position: the byte `0xC0|channel` at every
multiple of the chunk size plus one, units of the body elsewhere.

### Amf

One step, `ReadCommand`, reads a body as a whole, since the decoder keeps nothing between
commands; the rest are pure operators: `Encode` is the encoders of single values and, for
the types only peers write, the format; `EncodeProperty` is the encoder of objects;
`AMF_Decode`, `DecodeProp`, `DecodeArray`, `AMF3ReadInteger` are the decoder. A number is
its eight bytes in memory order. The run `chunk` composes it with RtmpChunk (`ChunksAndCommands`): 8,776 commands are
read on connections of their own, and `CommandReadAsMeant` compares each with what was sent.
It says what the code does in its odd corners as well: a string of 65536 bytes or more is
read two bytes too early (amf.cpp:259) and a final zero is dropped; `CAMFObjectProperty::Encode` leaves out the name of a null (amf.cpp:1405; its only
caller in the tree, `SendInvokeConnectResult`, encodes a string).

Left out: strings, dates, arrays and objects of AMF3, and bodies that end in the middle of a
value.

### MediaSource

Each session has a thread of its own, and so has each source (the thread of its publisher);
the server's pools share threads between them, which only forbids some of the
interleavings. `inbox` is the events of a session, `frames` the media events of a source.
`ss`, `md` and `streams` are the fields of `CRTMPNetSession`, `CMdSource` and
`CMdSourceApp`; `th` is the handler a thread is in, `lock` the registry's lock across the
calls that keep it. `CRTMPEvent::OnExecute` and `CRTMPNetSession::OnClose` are split at
every lock they take and every unlocked read that another thread can invalidate
(`KickTest`, `KickForce`, `Join`, `RemoveClientSession`). A source is named by the session
that created it; an application is one map; an empty stream name stands for the generated
one. `UseClientID` is the set of values `m_bUseClientID` may have at a publish.
`AddMdSource` leaves a reference to the source it replaces behind (`session.cpp:190`),
which `replaced` records, so that `ReferencesMatch` is exact.

Left out: settings server, virtual sources, `@setDataFrame`, RTMPT, malformed media. RTMPT
is not reachable in this tree: `OnReadCompleted` makes every connection an RTMP one.

### MediaRelay

`pub` is the publisher: what it still sends and how it writes time (absolute, relative,
extended when a stamp does not fit). `src` holds the source's clock per chunk stream
(`m_tmChannel`), version numbers of its parameters, the header buffers in use, the frame
counters and `m_rtmpChunkSize`; `mem` is the memory of every header buffer made, since the
copies in the players' queues share it and `CopySpsPps` and `CopyAACHeader` write the time
stamp into it again (rtmp.cpp:237). A message is decoded in one step (`HandleHeader`,
`DropFrame`, `BrokenFrame`, `VideoFrame`, `AudioFrame`); a frame then goes to one client of
the list after the other (`ServeClient`, `SkipClient`, `FrameDone`) under `m_mtxList`, while
players play (three steps: the size is announced, the session is listed, it is playing),
pause, leave and have their queues emptied (`Deliver`). `ServeClient(r)` has the r-th buffer
refused by `Send`: a closing connection, or one with `max_writting_bytes` in flight, which
stays open.

Left out: `m_bUse_audio_time`, `AttachNewSrcCtx` (used with the settings server), a relative
step of 0xFFFFFF ms or more, the difference between the key-frame tag and an IDR slice,
`@setDataFrame`, the torn write of a shared time stamp, chunk sizes that would cut an AAC
configuration.

### AckWindow

Positions in the peer's byte stream (`sent`, `read`, `reported`, `origin`, the ends of
`waiting` messages) stand for the bytes. A report carries a number, `acknowledged`, and the
peer knows nothing else: it subtracts it from the position up to which it has sent, in the
32 bits of the field, and stops when that is its window (`HasRoom`). The number is
`m_nBytesReceived`: the position read at first, 0 when the count starts again
(rtmp.cpp:2433–2435), and what was read since then (`origin`) in later reports.
`reported` is a history variable, the position read when the last report was sent. `ReadCompleted` is one read, after which every
complete message is handled before the next read (`OnMessage`), since the network thread
does both. The numbers 2^32, 4000000000 and the default window are constants, so that the
instance restarts the count every few messages; `CountersAssumption` and `RoomAssumption`
say what must hold between them: a message with one read fits between the limit and the
range of the counter. Reports arrive at once.

Once the count has started again a peer that goes by the number sees itself as far ahead of
its window as `origin` and may wait for ever, although the server keeps sending reports.
This is what the code does, after 4 GB from one peer. `PeerIsNotStuck` therefore ends there
(`origin = 0`; TLC refutes it without that premise), and `ReportsGoOn` says what holds before
and after. Nothing in the repository says how a peer reads the number, so this is a limit of
the property and not listed as a finding.

Left out: a peer that stops at its window in the middle of a message (this server reports
only when a message is complete, so it would wait for ever), announcements of a window that
is already used up, announcements shorter than four bytes.

### ServerLife

`pc`, `i`, `j` are the caller of `MediaSrvStart`, `MediaSrvStop` and `CleanUp` in their
loops over `m_rtmpNetwork`; `slot` the array, `life` the objects. A thread of a queue that
was told to stop executes at most one more event and leaves, with its queue as it is
(event.cpp:179); the next start runs it on. `conn` is a connection and its session,
destroyed by whatever releases its last reference (`Unheld`). `stray` records calls of a
deleted network: `CleanUp` deletes the networks before the queues (app.cpp:257), and so does
a `BindAddr` that fails at a second start (app.cpp:622), while the sessions of events that a
stop left still point to them (`RTMPConnCtxCloseAll`). `OnlyLeftoversStray` says that these
events are the only way to such a call.

Left out: the queues of the settings client, disk writes, callbacks and httpd, `m_rtmpLocal`
(started at app.cpp:866, before its queue exists at 918), a second `MediaSrvStart` without a
stop, a network whose `Start` fails.

## 4. Runs

| run | instance | distinct states |
|---|---|---|
| `eq_pool` | 2 threads, 2 events, untimed waits | 2.4 M |
| `eq_stop` | 1 thread, 1 event, timed wait, spurious wake-ups, Shutdown at any time, fair | 32 k |
| `conn_send` | 1 connection, 3 buffers of 2, 1, 1 units, `MaxSends` 1, `MaxWritting` 2, `Timeout` 1, everything may fail | 2.7 M |
| `conn_live` | 2 connections that send, 1 of them closable, a buffer, a pollfds with room for one connection, session timeout 1, fair | 47 k |
| `conn_expire` | 2 connections, a buffer of 2 units | finding |
| `chunk` | 3 messages, 3 channels (basic headers of 1, 2, 3 bytes, one too high), lengths 0 and 3, chunk sizes 1, 2, 3; 8,776 commands | 2.2 M |
| `media_registry` | 3 sessions and a name: 2 publish, the third plays, a media message | 1.1 M |
| `media_live` | 2 sessions, one plays before or after it publishes, releaseStream, both values of `m_bUseClientID`, fair | 52 k |
| `media_release` | as `media_live` | finding |
| `relay` | 6 publications of up to 6 messages, 2 players, one plays twice and pauses, 1 refused buffer, times across the field's limit | 1.8 M |
| `ack` | range 13, limit 8, windows 0, 2, 5 and the default 3, messages of 1 and 3 bytes, reads up to 2, 13 bytes, a refused report | 2.7 M |
| `server` | 2 networks, 2 event threads, 2 connections, 2 starts, one failing bind, fair | 276 k |

**Why these bounds are enough for what is asked.** The hazards of the event queue take two
threads that move in the list while one poster or starter walks it, and two events: one
whose signal is lost and one that makes up for it. On one connection three buffers are the
fewest with one being written, one queued behind it and one refused; a buffer of two units
is one that can be sent in part; `MaxWritting` 2 and `MaxSends` 1 are reached and exceeded.
With two connections in `m_listContext` there is a head, a tail and a move. The chunk sizes
are below, at and above the default and make a message of three units into three, two and
one chunks; three messages are two that interleave and a chunk size message between their
chunks; `MaxBuffered` is exactly what a legal peer can leave unread. `SomeHeaders` leaves out
headers that would show nothing more: behind a channel the parser has no room for it closes,
so one header on it suffices and nothing is begun after it, and a time makes no difference to
a message without bytes. Two publishers are one
that ousts and one that is ousted; a third session plays the one or the other; a session
that plays and publishes is in `media_live`. Two players are one that has started and one that is being started when the parameters change;
`Mark` 3 has every publication cross the limit of a time stamp. In `ack` the limit, the
range, a window smaller than a message and one larger than the default are all crossed
within five messages. In `server` two starts are one that leaves events and one that finds
them, and one failing bind empties a slot in front of another network;
`NamedSpec` calls the connection that is accepted first `c1` and its thread `e1`, which is a
question of names only.

The instances of the liveness runs are smaller, because their product exceeds what TLC
checks in minutes: `eq_stop` has a single thread, `conn_live` one buffer (so the closing of
a connection whose backlog overflows is not in it). Deadlock is not checked: events,
buffers, messages and commands are finite in every instance, so the system stops when all
is done.

**Fairness.** Threads are scheduled (WF of their steps). A mutex or the registry's lock is
handed in time to a thread that keeps asking (SF where a step needs a lock that others keep
taking). In NetConn a kernel that is asked often enough reports a socket writable and takes
a unit (SF), unless the peer is gone, and time passes (WF of `Tick`). In MediaSource a
closing connection gets its `OnClose`: that is `ClosingIsClosed` of NetConn. Nothing is
assumed of the session timeout, which a client's own traffic and the first finding can keep
from a player for ever. In ServerLife only the
queues' threads are fair, while they are not told to stop. No peer has to send or leave,
nobody has to post, publish, close, start or stop, and no spurious wake-up has to come.

The two properties of `eq_stop` have the premise that the worker's wait ends again and
again (`WokenAgain`): with a timed wait it does, with an untimed one (every queue of the
media server but that of the settings client) only as long as something is posted to the
thread: a signal that falls between the last look at the queue and the wait is lost
(event.cpp:129), and its event waits for the next one. `ReadableIsRead` needs a session
timeout: without one, silent connections at the head of the list keep those beyond
`_MAX_CTXS_` out of pollfds for good.

`PlayersLeave` is about the list of a source. `AddClientSession` tests `m_bClosedAll` before
it takes `m_mtxList` (usr.cpp:2277) and may add a player to a source that `CloseAllClients`
has just emptied: TLC shows this race when the property is asked of every player of a closed
source. Nobody closes such a player; it hears nothing and holds the source until its own
connection ends. The property says that it leaves then, and that a player which is listed
before `m_bClosedAll` is set, when the publisher's connection ends or its name is taken, is
put out by whoever closes the source.

**What the runs show.**
* Event queue: private and shared events once and in order (the box's), every thread
  started in spite of unlocked walks; a thread that wakes again serves every event and
  obeys a stop.
* Connection: one ordered stream though two threads write it; exact accounting and a
  backlog bounded short of one buffer; references owned on every error path; closed and
  removed connections stay out and none is left after Shutdown; a closing connection is
  closed, a queued buffer sent, no descriptor starved.
* Chunks: what arrives is what was sent, nothing is held back, a legal peer is kept; a
  command is read as it was meant and an unknown value costs its own object's rest only.
* Registry: no stale entry, ousted publishers are closed, players are counted once and hear
  only names they asked for, sources are counted exactly.
* Relay: every player is started with metadata, the header in force and a key frame; it is
  given every frame it did not refuse (audio with an extended time stamp excepted, which the
  code counts and does not send, usr.cpp:1672); times run forward but for a header whose
  memory another start has written again; frames are cut as the player was told as long as
  all servers are configured with one chunk size, since a source has only one
  (rtmp.cpp:1252).
* Acknowledgements: the count is exact and reports go on through restarts and changes of the
  window; until the first restart a peer that goes by the numbers is left waiting only by a
  report that `Send` refused (its failure is not looked at).
* Server: failing binds leave no network out of the loops that start and stop; what a stop
  left is closed by the next start or by the clean-up; a deleted network is called only for
  close events that a stop left.

What the properties do not promise, because the code does not: a player whose connection
refuses a frame gets the next one, key frame or not (mdsource.cpp:537–585); players that
have started get no new sequence header when the publisher changes its parameters
(mdsource.cpp:524); video resumes after a pause without a key frame (rtmp.cpp:2169).

**Findings** (violation runs).
1. `ExpiredAreClosed`: a connection written in pieces is refreshed but not moved to the
   tail of `m_listContext` (net_select.cpp:1087 returns 0), and `HandleSessionTimeout`
   stops at it: expired connections behind it stay open.
2. `ReleasedIsClosed`: the close event of `CloseByRTMPT` has no connection, `Post` refuses
   it, and the publisher that released its stream stays registered (rtmp.cpp:796).

## 5. Proofs

`EventQueue_proofs` proves, for any number of threads and events and either kind of wait:

* `TypeCorrect`: `Spec => []TypeOK`. `TypeOK` is inductive as it stands (`QueuesOK`,
  `WorkersOK`, `PostersOK`, `ControlOK`); it includes that the unlocked walks only ever stop
  at a thread where they are about to signal one.
* `PrivateQueueInOrder`: `Spec => []OwnQueueInOrder`, inductive with `TypeOK`: executed,
  in hand and queued events, put together, are those added. `TakeKeepsOrder`,
  `FinishKeepsOrder` and `AddKeepsOrder` are the three sequence facts behind it. The
  runs check the order as part of `ImplementsBox`.
* `LostWakeupRemembered`: `Spec => []LostWakeupIsFlagged`. The property speaks of a sleeping
  thread only and is not inductive. `FlagInv` says what holds on the way there: from the
  moment the worker saw its own queue empty, an event in it is announced by the flag, by a
  poster that is about to clear the flag, or the worker still has `bEmptyCalled` and will
  look again.

* `StartCreatesAll`: `Spec => []StartReachesAll`, from `StartInv` and `ListInv`.
  `StartReachesAll` says nothing before the walk is over. `StartInv` does: the threads from
  some `k` on are not started, still linked in the order of their creation, and `k` is the
  one to which the walk comes next; the workers behind the walk never touch their pointers,
  because they change only their own, the one before them and the last one's.
* `ListStaysWhole`: `Spec => []ListInv`. The code finds the node before a worker, and the last
  one, by pointers that other workers write, and `ListInv` is why they are there: one worker
  moves at a time, and the pointers of the others are one list from its head back to it
  (`Chain`: each node has one predecessor, and a rank that grows along the list excludes a
  ring without the head). A worker between the two writes of `MoveThread2Head` counts as
  linked (`Pointers`).

They rest on `ConstantsAssumption` alone, which every run evaluates. Each proof has one
step per action of `Next`, or per kind of step (`StepKinds`).

The second part of the module shows the refinement, with the same constants:

* `QueueImplementsBox`: `Spec => ImplementsBox`, the refinement. `TakeIsBoxTake`,
  `FinishIsBoxFinish` and `AddIsBoxPut` show that three kinds of step are steps of the box,
  `OthersMoveNothing` that all the others, which are most of the code (flags, wake-ups, list
  moves, walks), move no event and so are stutters.
* `EventsInOnePlace`: `Spec => []OnePlace`. The refinement needs it: the box forbids to put
  in an event that was put in before and to finish one twice, and the code tests neither.
  `OnePlace` says that an event waits once in one queue (`WaitingOnce`), or is in the hand
  of one thread and waits nowhere (`RunningOnce`), or is done.

`AckWindow_proofs` proves, for any windows, sizes, limits and ranges that fulfil
`CountersAssumption` and `RoomAssumption`:

* `TypeCorrect`: `Spec => []TypeOK`: the UINT64 from which an announced window is
  subtracted does not go below zero.
* `CountedExactly`: `Spec => []CountIsExact`: the UINT32 never wraps.
* `ReportsAreSent`: `Spec => ReportsGoOn`: whatever a read or a message brings, after it
  less than a window has been read since the last report.
* `PeerGoesOn`: `Spec => []PeerIsNotStuck`: by the number, and until the count starts again.

All four follow from one inductive invariant, `IInv`: `Contiguous` (the messages that wait
lie one behind the other and end at `sent`), `Counted` (what was counted is what was read
since `origin`), `CountedInTime` (when the last message was handled the count was within the
limit), `Announcements` (every window that is still to be announced had room when it was
sent, the last one is the peer's, and if none waits the peer goes by the server's window),
`ReportedAtBase` (unless `Send` refused one, the last report lies no further back than a
window before the next one), `NumberIsPosition` (the number is the position until the count
starts again) and `GoesOn`, which is `PeerIsNotStuck` in positions. Each is needed because
`PeerIsNotStuck` by itself says nothing about a state in which messages wait, and
`CountIsExact` nothing about how far the count may still go before the next complete
message. `NumberTellsRoom` takes what a peer computes in the range of the counter back to
positions; `MessageReport` says what the handling of one message does to the count.

`NetConn_proofs` proves, for any connections, buffers, senders and limits:

* `TypeCorrect`: `Spec => []TypeOK`, inductive as it stands because it says that an entry of
  pollfds is there whenever the thread handles the events of one.
* `ListIsExact`: `Spec => []RemovedStaysOut`. The invariant `ListInv` adds to what the
  property says of the list (`Listed`) what the end of the thread needs (`Emptied`): in the
  last walk every connection that is still listed lies in the part not yet walked, after it
  none is listed, and `Shutdown` returns only then. That no `Send` puts a removed connection
  back rests on `MovedToTailProperties`: `ListMoveTail` does nothing to an unlinked entry.
  `ListDelProperties` and `AppendMembers` are the facts about the other list operations.

They rest on `ConstantsAssumption` alone.

`NetStream_proofs` goes on from there, with the same constants:

* `StreamsInOrder`: `Spec => []StreamInOrder`. The property speaks of the units the kernel
  took and of the buffers that were queued, and says nothing of what is still to be sent;
  `NetInv` adds that. `WalkInv` says which connections the thread may touch: those of pollfds
  are listed, once each (`PolledListed`), those the scan has before it too and not yet in
  pollfds (`ToScan`), and a listed one has an open socket (`Opened`), so a write never goes
  to a removed one. `StreamInv` says for each connection that what is in `m_listSendBufs` is
  the end of what was queued there (`Suffix`), each buffer once and each sent on this
  connection only, that at most the first of them was begun (`Waiting`), and, while the socket
  is open, that the stream ends exactly where the head of the queue goes on (`Chain`). The
  lemmas `GrowInOrder`, `QueuedBehind`, `SentAtOnce` and `SentOn` are the sequence facts: what
  `Send` and `HandleEventWrite` add keeps the stream in order.
* `BuffersOwned`: `Spec => []ReferencesOwned`. With `NetInv`, each step but one changes the
  count of a buffer by what its owners change (`BalancedStep`); the exception is the hard
  error, whose connection was listed until then and so had nothing left over (`ErrorRefs`). A
  `Send` between the lock and its `AddObjRef` is safe because its connection can no longer
  be sent on (`Failing`): nobody completes its buffer in between.
* `BacklogCounted`: `Spec => []BytesAccounted`. The property compares `m_nWrittingBytes` with
  the number of units that queued buffers still have to send (`Unsent`, a set of units, so
  that it can be counted without a sum). `ByteInv` adds that this set is finite and that the
  count holds until the connection is removed, also before it is listed. `Send` adds a piece
  of a buffer to the set, the network thread takes one out (`QueuedCount`, `WrittenCount`);
  `PieceCounts` says what a piece counts for. That a piece is new rests on `StreamInv`: a
  buffer is queued once.

`ServerLife_proofs` proves, for any numbers of networks, starts and failed binds, and any
connections and event threads:

* `TypeCorrect`: `Spec => []TypeOK`. That the next network object is one that the model has
  needs `ObjectsMade`: objects are numbered in the order of their making, and one start makes
  no more than the configuration has entries.
* `ServerGovernsNetworks`: `Spec => []NetworksFollowServer`. The loops of
  `StartNetworkAndQueue` and `StopNetworkAndQueue` end at the first empty slot, and a slot is
  emptied by a bind that fails, in any start. `NetworkInv` says why none is forgotten: a
  bound network lies below `j`, where all slots are filled (`BoundInSlots`), every object is
  in one slot (`SlotsOwn`), and a thread that runs is that of a slot which the loop has yet
  to reach (`ThreadsInSlots`); the threads of the queues run whenever one of those does
  (`QueuesFollow`).
* `DeletedNetworksRest`: `Spec => []OnlyLeftoversStray`, and `CleanUpIsComplete`:
  `Spec => []CleanUpLeavesNothing`. Neither property says anything of the queues, on which
  both depend. `SessionInv` adds: a session that lost its connection has its close event in
  its own thread's queue (`CloseIsQueued`), behind its publish and once (`QueuedInOrder`), so
  that deleting a queue, or executing it in a later run, closes it; if its thread has ended,
  the event is one of those left (`DeletedIsLeft`); the registry holds open sessions only
  (`SourceIsOpen`), which is why closing all of them empties it.

They rest on `ConstantsAssumption` alone.

`MediaSource_proofs` proves, for any sessions, names, publishers and limits and whatever
`m_bUseClientID` is:

* `Registered`: `Spec => []RegisteredIsServed`.
* `ContextAlive`: `Spec => []SourceContextAlive`.
* `Hearing`: `Spec => []HeardWasAsked`.
* `Listed`: `Spec => []PlayersListed`, what `ReferencesMatch` says of players.
* `References`: `Spec => []ReferencesMatch`.
* `TypeCorrect`: `Spec => []TypeOK`: no count goes below zero.

The first four follow from one invariant, `Types /\ Inv` (`Invariant`), since none of them is
inductive: each speaks of the fields of two sessions, and what keeps them together is where
the threads of all sessions are. `HandlerInv` says what the running handler holds (the
registry's lock while it closes another's source, a target, an ended session), `StageInv`
what it knows of its own session, `LifeInv` that a session publishes once, is closed last and
destroyed after that (the order of its events, without which a publish after the close would
register a dead session; the mutant `OnCloseOutOfOrder` does that). `PlayerInv` ties the
players' flags to the lists; `SourceInv` says that whatever is used was created (`SourceOf`)
and that `m_ctxSrc` is the source's own session until that session's end (`ContextOf`).
`RegistryInv` is the core: what a session that has a name, or is about to get one, keeps
(`ClaimOf`), that a publisher without its name is being closed or is the target of the holder
of the lock (`EntryOf`), that the target is closing once the holder is past `CloseSrcCtx`
(`HeldBy`), and that a replaced source is under no name (`ReplacedOf`). The second is why the
lock is given back only after the source is closed, and `HeldContext` shows the unlocked test
of `m_ctxSrc` harmless for it: it finds NULL only when the publisher's own end is running.
`HearingInv` follows a name from the command to the list: what a player has asked for is in
the event, in its stream, and is the name of the source it gets (`PlayOf`).

The other two need `Accounts` besides (`Accounted`): the count of a source is the sum of the
sizes of five sets, sessions, handlers, kicking threads, posted events and names, and of the
frames that wait. The sets range over all sessions, of which there may be any number;
`Finite` says that those in use are finite, and a step changes each by one member at most
(`OneMoves`), or, for the posted events, by a whole queue moving up (`PostedLess`, a
bijection). So each step has one balance to show (`Balance`): what it adds to `refs` is what
it adds to the users. `Inv` is what makes the balances come out: a source is created with
two references when nobody has used it yet (`Unused`), the name that is taken out was the
source's own (`RemoveMdSourceAccount`), and a source is replaced, and left one reference too
many, once at most (`ClosedAccount`).

The module first states what each handler changes, field by field (`PublishEffect` to
`DeliverEffect`); every later lemma is one case per action on top of these. It rests on
`ConstantsAssumption` alone.

`MediaRelay_proofs` proves every safety property of `MediaRelay`, for any players,
publications, configured sizes and bounds on commands and refusals:

* `TypeCorrect`: `Spec => []TypeOK`.
* `StartIsDecodable`: `Spec => []StartsDecodable`.
* `NoFrameSkipped`: `Spec => []NoneSkipped`.
* `TimeGoesForward`: `Spec => []TimesForward`.
* `CutIsAsTold`: `Spec => []CutAsTold`.

All follow from one invariant, `IInv` (`Invariance`), since each speaks of the history of
what a player was sent, and what may be sent next depends on the source, on where the walk
over its players is, and on what this player has had. `BufferInv`: a header buffer in use was
made of the parameters in use, which is why a publisher that changes them must drop it
(`VideoHeaderKept` does not). `WalkInv`: nobody is in the list twice, and the frame in hand
is the last one counted, so that no player is given it twice. `PaceInv` and `ClockInv` carry
time: the messages to come go on where the publisher's clock is, the source's clock agrees
with it on every chunk stream that has started, and the frame in hand has its time; with
`OrderOf`, what was sent of a medium is no later than that clock, so the next item is not
earlier. `StartOf` and `VideoOf` are `StartsDecodable` together with what makes the next
send keep it: the flags of the session say whether the one header, and metadata, were sent,
and a header without a frame behind it means that the frame was refused. `WholeOf` is the
core of `NoneSkipped`: from a player's first frame on every frame was sent, refused or
skipped up to the number its session holds (`queue`), and what the source has counted beyond
it is either the frame in hand or audio that was never sent; a player that has left the list
leaves a gap only after its last frame. `MemoryOf` ties what was read to the shared memory of
a header: it holds the time of the one item that uses it, or it was written again. `CutInv`
says that with one configured size every buffer, frame and item is cut to that size,
whatever the order of plays and frames.

The module first states what each action changes, part by part (`ServedStep` to
`DeliverStep`); each part of the invariant has one lemma per action that can disturb it and
one frame lemma for the rest (`StepKeeps` joins them). They rest on `ConstantsAssumption`
and `ClockAssumption`: the time stamps of one chunk stream do not run backwards at the
publisher, and a relative step fits the three bytes of its field. Without the second no
receiver could read the clock; the first is what "forward" is measured by, and only
`TimesForward` says anything about it.

`RtmpChunk_proofs` proves every property of `RtmpChunk`, for any channels, lengths, time
stamps, chunk sizes and number of messages, any interleaving of a peer's chunks, and any cut
of the reads:

* `TypeCorrect`: `Spec => []TypeOK`.
* `MessagesArrive`: `Spec => []ReceivedAsSent`.
* `NothingStays`: `Spec => []NothingHeldBack`.

None of them says where in the stream the parser is, and that is what an invariant must say:
a parser that is one field off goes wrong only later. So `IInv` (`Invariance`) speaks of the
whole stream `F`, everything that was ever written. It is a path (`Path`): points, which hold
for every channel its last header, the units of the message it is in, the chunk size in force
and the messages complete so far, and from each to the next a chunk (`Follows`: which header
format it may have, how many units; `After`: the point behind it; `Lies`: its fields are at
that place of `F`). As long as the connection is open, `Sound` says that there is such a path
with the sender at its last point (`SenderAt`), the parser at one of its points or in the
chunk behind it (`ParsedTo`), and `m_buf` and the wire together equal to the rest of `F`
(`Feed`). For each state of the parser, `InExt`, `InRest`, `InTimmer` or `InData` says which
fields of the chunk it has taken and what its header holds by then; `Agrees` says that
`prevHeaders`, `m_PktIoBufs`, `chunkSizeIn` and the messages handed on are those of the point.

* The parser: `InitialHeader`, `ExtHeader`, `RemainingHeader`, `ExtTimmer` and `DataStep` are
  its handlers, each from one of these places to the next; `MarkIs`, `BaseIs` and
  `RememberIs` are why an inherited header means what the sender meant, also after an extended
  time stamp. `NeededFits` is why a legal peer is not closed: what a handler waits for fits
  `m_nMaxRTMPPacketSize`.
* The sender: a chunk at the end of the stream makes the path one longer and moves nothing
  before it (`Extend`, `SenderExtends`). `SendWhole` writes a message with
  `CAMFBuffer::Write`, which does not know of chunks; `ChunkedIs` takes what it leaves apart,
  by division with rest, into the chunks of a path (`PieceLies`, `WholePath`), of any number.

The path is a quantified sequence and not a recursion, so no induction is needed; for the
same reason TLC cannot evaluate `IInv`, and checks the three properties that follow from it.
It rests on the assumptions on channels, headers and sizes in `RtmpChunk`: channels are those
that a basic header can express and not the control channel, a chunk size is not 0, and
`m_nMaxRTMPPacketSize` (512 KB, rtmp.cpp:345) is at least `RTMP_DEFAULT_CHUNKSIZE` (128) and
the part of a header that may have to wait for its last field. That all announced sizes fit it is not assumed; it is a hypothesis of the
second half of `NothingHeldBack` only (`LegalPeer`).

Only model-checked: the decoder of Amf (`CommandReadAsMeant`), which is recursive, and all
liveness properties. Out of the prover's reach: liveness, and induction over data.

## 6. Plan

Done: event queue with its abstract specification, network thread, chunk layer and AMF,
registry, relay, acknowledgements, server; theorems about the event queue and its refinement,
the acknowledgements, the list, the streams and the buffers of connections, the registry and
its sources with their counts, the relay, the chunk layer, the server.

Next: outgoing connections and descriptors used again in NetConn.

## 7. Not modelled

* Vendored PolarSSL and STLport, which are most of the lines of the tree: third-party.
* RTMP handshake digests: cryptography over one buffer without state; the chunk model has
  the handshake's lengths and answers.
* Replies to commands: one reply on the thread that read the request. What commands do to
  sessions and sources is modelled.
* Settings client, callbacks, HLS, RTSP, ETS, TS, FLV recording: compiled out, switched off,
  or empty hooks.
* UDP, outgoing connections, RTMPT: not on the path of this server's build. TLS is another
  transport of the same bytes, by PolarSSL.
* `adapi`'s queue, thread pool and memory buffers and `rde`: compiled, but no code of the
  server calls them. `adapi`'s lists, threads and counted memory and `libmalloc` are
  sequential or single atomic operations inside larger steps; string, date, file and codec
  helpers are sequential functions.
* Media formats (SPS, ADTS, TS, RTP): bit-level conversions of one frame.
* Configuration: read once into fields that the models have as constants.
