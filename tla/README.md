# A TLA+ verification of MindShard

MindShard (`src/`) is a local HTTP proxy that answers as the web does and, on
the way, cuts the HTML pages it sees into chunks, embeds them and keeps them in
a table that a web page searches. This directory holds TLA+ models of the parts
of it that run concurrently, wait on each other, fail and start again, the TLC
runs that check them, and TLAPS proofs of what holds for every size of them.

The models are translations of the Rust source at the lines `PROJECT.json`
"map" names. Line numbers below are those of `src/src/*.rs`.

## 1. The system

    browser --> ProxyServer / serve_stream --> service --> server
                    |  CONNECT                    |
                    v                             v  response
             serve_upgraded                 HttpBodyExtractor
        (tunnel | http | tls)                     | mpsc::channel(100)
                    |                             v
             CertAuthority                   HtmlLoader  -- one task per document
             WebSocket relay                      |
                                                  v
    browser --> web server ------ search --> vector store --> table `entries`

`run_with_semantic_store` (lib.rs 27-73) makes the channel, and runs the proxy,
the web server and the loader in one `select!`: whichever returns first drops
the other two, and the program ends. `docker-compose.yml` starts it again.

| component | state | operations | what makes it correct |
|---|---|---|---|
| entries table (semantic_store.rs, LibSqlProvider) | rows `(url, chunk, embedding)` in a file | `init_tables`, `add_entry`, `delete_entries_by_url`, `search`, `get_all_entries` | a page has the rows of one capture, all of them |
| vector store (VectorStore) | none of its own | parse the url, embed, insert; embed, search | a chunk that cannot be embedded is not half stored |
| HTML loader (loader.rs) | the receiver; a task per document | `start`, `process_document` | no document is forgotten; loads of one page do not damage each other; a failed load does not cost more than its page |
| document splitting (loader.rs 86-129) | none | decompress, decode, trim, check, split | an HTML page gets through, something else does not |
| body extractor (extractor.rs) | the sender | `filter_response`, `handle_response` | a page the index wants is captured if and only if the proxy returns a response for it; that response is not held back forever |
| proxy, request path (http.rs 94-177) | a future per request | `proxy_service_impl`, exclusion, forwarding | an excluded host is never captured |
| proxy, upgraded connections (http.rs 179-232, 298-314) | bytes read ahead, the chosen server | `serve_upgraded`, `serve_passthrough` | the server sees the client's bytes, all of them, from the first |
| rewinding stream (rewind.rs) | the prefix | `new_buffered`, `poll_read`, writes | transparent |
| WebSocket relay (http.rs 234-296, 316-355) | two connections, a frame in each pump | `upgrade_websocket`, `serve_websocket` | frames in order, none lost in the middle; a close is passed on; the relay ends |
| certificate authority (ca.rs) | a cache with a time to live | `get_server_config`, `generate_certificate` | a client is never presented an expired certificate, or another host's |
| proxy listener (proxy.rs, http.rs 373-394) | the listening socket | accept, spawn | a failing connection does not end the others; a failing listener ends the program |
| web server and page (web.rs) | the cards, the texts behind them, the button | routes, search API, `displayResults`, `toggleExpand` | the answer shown is the answer to the question asked; the form can be used again |
| configuration (config.rs) | none after the start | environment with fallbacks | |
| embedding generator | the model | load, embed | |
| HTML splitter (splitter.rs) | none | HTML to Markdown to chunks | |
| composition (lib.rs, main.rs) | the channel, `select!` | start, leave, exit | nothing is served without a schema; the exit status tells what happened; the program comes back |

Where they interact, and what is hard there:

- **Loader tasks on one table.** Every document gets a task; a task deletes the
  rows of its url and then inserts its own one by one, with an await at each.
  Nothing orders two tasks of one url, any statement may fail, and the process
  may end between any two and find the same file when it starts again.
- **Extractor and loader on one channel.** A handler waits for a slot before
  it returns the response, and hyper writes it after that. Meanwhile the client
  may leave, the loader may be slow, or `select!` may drop the receiver, which
  fails the send.
- **Peek and rewind.** A connection's protocol is decided by one read, as long
  as the network makes it; the bytes go back in front.
- **Cache and clocks.** Two connections that miss together both generate; the
  entry is inserted after an await; the cache counts on one clock and the
  certificate on another.
- **Readers of a moving table.** `get_all_entries` fetches its rows one by one
  while tasks insert and delete on the same connection, and pages are counted by
  offset; an answer to the page's search is on its way while rows go.
- **A start that may break off anywhere.** `init_tables` is three statements,
  each committed by itself; Docker tries again whatever the exit status was.
- **Two pumps, one `select!`.** The end of one pump cancels the other wherever
  it is, a frame in its hand included; a frame that breaks the protocol ends a
  pump as a Close does; and a pump that waits for a slow peer notices nothing
  else.
- **Nothing times out.** Whoever serves an upgraded connection stops reading it
  while its target or its handler does not go on.

`PROJECT.json` lists these and the rest under "hazards", each at its line.

## 2. The modules

Each module names the functions it is translated from. Awaits are the places
where another task may run, so one action is what runs between two awaits, with
every call in it that changes state.

| module | models | its variables in the code |
|---|---|---|
| `EntryTable` | the three statements on `entries` as operators on a function from documents to the chunks that have rows | the rows with the url of the document |
| `HtmlLoader` | `HtmlLoader::start`, `process_document`, and the process around them | `channel` is the mpsc queue, `phase` and `cursor` are where each document's task is, `entries` the file; `owner`, `overtaken`, `failed`, `older` are history: no guard reads them |
| `PageVersions` | abstract: an index that shows one version of each page, and comes back from a failure as it was at an earlier moment | |
| `SerialLoader` | `HtmlLoader` under the assumption that captures of one page do not overlap, on a machine whose power may fail; implements `PageVersions` | `disk` is what of the WAL has reached the disk; `index <-` the table by url with `owner`, `saved <-` the same of `disk` |
| `Extractor` | one request through `proxy_service_impl` (upgrades, CONNECT, exclusion, forwarding), `filter_response`, `handle_response`, and the writing of the response by hyper, with an environment for a loader | `request` is where the handler's future is and, once it has returned (`answered`), where its response is; `exchange` what it meets, `receiver` whether the channel's other end exists |
| `Pipeline` | `Extractor` and `HtmlLoader` on one channel, each of its steps a step of one of them or of both | those of both; the `receiver` of the one is a function of the `process` of the other |
| `Lifecycle` | `run`, `run_with_semantic_store`, `LibSqlProvider::new` and `init_tables`, `start_http_proxy`, `start_web_server`, `main`, and Docker's restart | `done` is how far `run` has come; `schema` what the file has; `winner` the branch of `select!` that returned; `broken` what the next failing call will find |
| `RowTable` | `entries` as a reader meets it: rows by rowid, with SQLite's choice of the next one | `table` |
| `EntryPages` | `get_all_entries` asked for page after page, a row at a time | `limit`, `offset` its arguments, `at` the statement's cursor, `page` its `entries` |
| `SearchPage` | the script of the page, `handle_request`, `VectorStore::search` and the statement of `LibSqlProvider::search` | `cards` and `bodies` the DOM, `texts` is `window.resultTexts`, `busy` the disabled button, `searches` the fetches |
| `Readers` | `EntryPages` or `SearchPage` beside the loader's writes | `reader` chooses one: they share only the table, which they do not change |
| `SplitDocument` | `split_document`, `decompress_body` on one body | `text` is `decoded_body` as it is rebound |
| `ByteStream` | abstract: bytes come out as they went in | |
| `Rewind` | `Rewind::new_buffered`, `poll_read` | `pre` and `inner` are the struct's fields; `sent`, `received`, `eof` record |
| `UpgradedConnection` | `serve_upgraded` over `Rewind`; implements `ByteStream` | `stage` is the branch it is in, `stalled` says that its server or tunnel waits |
| `CertCache` | `get_server_config`, the validity of `generate_certificate`, moka's time to live | `cache`; `state`, `host`, `cert` per connection; `now` is `SystemTime`, `uptime` moka's clock |
| `WebSocketRelay` | `upgrade_websocket`, `serve_websocket` | `hand` is the message between `next` and `send`; `arriving`, `leaving` the two connections; `BadFrame` is what their streams yield as an `Err` |

`MC*` modules give the constants values; `MCExchanges` has the notation
for exchanges that two of them share. `*Proofs` modules hold the proofs of the module they are named after, and
`LoaderProofs` those of `HtmlLoader` and of the two that are built on it,
`Pipeline` and `SerialLoader`.

Some definitions come with a variant whose comment starts with "bug": the same
definition with a mistake one could make in that code. No action uses them. Put
in the place of its original, each makes TLC find the property violated that
`PROJECT.json` "mutants" pairs it with: so no property holds for a reason that
has nothing to do with the code.

What the models abstract from: bodies, texts and embeddings are left out, but
for the classes of bytes `SplitDocument` and `UpgradedConnection` need; the
number of chunks the splitter makes of a document is a constant per document; a
library call (embedding, SQL, OpenSSL, decoders, DNS, servers) is its success or
its failure, in every combination. An exchange's headers are the classes that
`filter_response` tells apart, "unreadable" (a header that is not a string)
being one of them.

## 3. The runs

Each run is a `.cfg`; state counts are of distinct states.

| run | states | what it shows |
|---|---|---|
| `loader` | 289,646 | Three captures of one page (2, 1 and 0 chunks) and one of another, a channel of two slots, every failure, leave, exit and restart, in every order |
| `serial_loader` | 499,659 | The same documents without overlap, with checkpoints and power failures, implement `PageVersions` |
| `pipeline` | 205,847 | Three requests from the client to the rows of their pages, competing for one slot: three pages to be indexed, or one beside a request of any kind (every encoding, agent, type, target and size, and the upgrades) and one that names no host |
| `lifecycle` | 2,880 | Lives of the program one after the other, every resource breaking and being repaired at any moment |
| `readers` | 1,385,574 | A walk over at most five rows with limits inside and beyond the signed range, or the page over at most four, while rows come and go |
| `split_document` | 412,128 | Every body of at most 5 bytes of 7 classes, every encoding, a check of 3 bytes |
| `upgraded_connection` | 1,774 | Five clients, every cut of their bytes into reads, buffers of 0 to 3 bytes, servers that wait and go on |
| `cert_cache` | 2,098,332 | Two connections, two authorities, entries that expire, a wall clock that moves by up to two against the other, either way |
| `websocket_relay` | 50,551 | Two peers with up to three frames each, a Close or a bad frame among them, connections of one frame |
| `no_duplicate_entries`, `html_passes_check`, `bodies_not_too_large` | | counterexamples to what a comment says (section 6) |

What each property means for the code is in the comment above its definition.
The ones that say most:

- `DuplicatesOnlyByRace`: rows of two captures of a page are together in the
  table only if one task's delete ran inside another's insertion loop; failures,
  exits and restarts alone do not cause them.
- `LastLoadComplete`: whoever deleted last keeps every row it inserted.
- `NoOldVersionReturns`: no version of a page comes back once a capture that was
  made after its load has deleted its rows. Loads that overlap are in no order.
- `ImplementsPageVersions`: without overlap, a page's rows are of one capture, and
  a power failure takes the table back to a state it has been in.
- `PageIsWhole`: a page whose last load went through without a failure and
  overtook no other has the rows of that load, all of them and no others.
- `CapturedIffAnswered`: on the whole path, a wanted page enters the channel in
  the same step in which its handler returns the response; no order of a client
  leaving, a full channel and an ending process separates the two. Whether the
  client then receives the response is another matter: it may not (section 6).
- `CapturedAreDecodable`: the two lists of encodings agree; the run has each
  encoding of both, an unknown one, an unreadable one and none.
- `HeldPagesEnd`: backpressure releases every response: the page that held it
  back is loaded, rejected or lost with its process, or its request fails or is
  dropped.
- `ListensWithSchema`, `StatusTells`, `ComesBack`: no port without the whole
  schema, however many starts broke off; a failure has served nobody and a
  success is a listener's end; once nothing is broken, both ports are there for
  good.
- `WalkReadsOnce`: what a walk through the pages makes of rows that come and go.
- `NoGhosts`, `CardsShowOwnText`, `SearchSettles`: one disabled button and two
  arrays kept in step are all that holds the page together; it does.
- `ImplementsByteStream`, `ServerSeesProtocol`: the peek changes nothing for
  whoever reads next.
- `PeekDecides`: what is served starts with `GET ` or a TLS record, so that a
  plain `POST` in a tunnel is not, and what starts so is given up at the peek only
  for a first read that was too short.
- `EverythingIsServed`: whoever serves a connection reads all its client sent, and
  the end, unless it gives up or is kept waiting for ever.
- `PresentedAreValid`: TTL, cache TTL (half of it) and the NotBefore offset fit
  together under races of two connections and clocks that drift.
- `CloseIsPassedOn`, `RelayEndsOrIsBlocked`: what the two pumps do to each other,
  and what a peer that breaks the protocol does to the other.

### Bounds, and why they are enough

- Four documents, three of one url: two tasks race; the third may own the url
  while the first two are in their loops. Two chunks make a middle of the loop,
  one an end, none an empty loop. A channel of two slots is empty, in between and
  full with four documents. `Exit` and `Restart` are not bounded: a document is
  captured once, and that makes the state space finite.
- One slot of the channel for the pipeline: with three requests, one is in it,
  one may be first and one second in the queue for it. What a request can be or
  meet is varied one thing at a time, since each test of `filter_response` looks
  at one thing; sizes from 0 to 3 are below, at, between and beyond the bounds 1
  and 2, with a length and without.
- `MaxRows = 5`: two rows that are read, deleted and replaced by three shift the
  rowids so far that a later row is read twice, which four rows cannot do.
  `Limits = {1, 2, 15}` and `SignBit = 8`, integers of four bits: a page shorter than the rows
  left, and one beyond the signed range (15 is -1). `PageRows = 4` and `TopK = 2`
  for the page: two cards make an order and a part of an answer, and two more rows
  can replace them.
- `Lifecycle` has no bound but two connections: its state space is finite, and
  one connection may be left when the other ends.
- A check of 3 bytes where the code has 50: the marker is two symbols, the widest
  character three (a fourth byte adds no case), and bodies of 5 bytes go beyond
  it by two, the most a straddling character needs.
- `MaxSent = 6` and `MaxRead = 3`: a read of the prefix may be shorter than it,
  as long as it, or go on; the prefix has at most four bytes, and two more come
  after it.
- `Ttl = 8`, `CacheTtl = 4`, `Offset = MaxPause = MaxDrift = 1`, up to time 6: an
  entry expires and is replaced. The wall clock is between one behind the other
  and one ahead, and so moves by -2 to 2 in the life of a certificate: beyond the
  offset, which `PresentedAreValid` excludes, and up to all that the cache leaves,
  `Ttl \div 2 - MaxPause - Offset = 2`, which it does not.
- Three frames, one in each of a connection, a pump and the connection behind it.

### Fairness, and why the code justifies it

- `HtmlLoader`: weak fairness of `Receive` and of each task. tokio polls a future
  that was woken; every statement returns, with an error if the lock is not free
  within the `busy_timeout`. No fairness on `Send`: nobody must browse. None on
  `Leave`, `Exit` and `Restart`: nothing says that they happen or do not.
- `Pipeline`: that of the loader's tasks and of its receive loop, as above; and
  strong fairness of a waiting send, since tokio's channel hands out permits in
  the order they were asked for, and a slot that is taken and freed again reaches
  everyone. `Extractor` assumes the same of its sends and of `Take`, which stands
  for the receive loop. Nothing is assumed of clients and servers.
- `Lifecycle`: the steps of a start return, the branches are polled, `main`
  returns and Docker starts what has ended (`unless-stopped`). No fairness on
  failures, and none on repairs: `ComesBack` assumes that everything is repaired.
- `Readers`: a fetch settles, since every store call returns and a broken
  connection rejects it. Nobody must search, write or walk.
- `UpgradedConnection`: the task is polled, and whoever serves the connection
  reads on as often as its wait ends (strong fairness of `Serve`). That a wait
  ends is not assumed: `copy_bidirectional` waits for its target, hyper for a
  handler, and nothing times out. None of the client.
- `WebSocketRelay`: the pumps are polled, and a stream ends after its Close,
  which tungstenite sees to. None of the peers, who may stop reading forever.
- `CertCache`, `SplitDocument`: safety only.

Deadlock is checked where the system must go on (loader, pipeline,
lifecycle, readers, certificates). It is off for `SplitDocument`, `UpgradedConnection` and
`WebSocketRelay`: a body, a connection and a relay end.

## 4. The proofs

All eight proof modules are checked to the last leaf. The assumptions are the
named `ASSUME`s of the models and no others: the constants' types, that `UrlOf`
is total, that `None` is none of the values, that a channel has a slot and a
connection room for a frame, that a body's hint is its length if there is one,
that `TopK` is a number, and that the rows of a walk can be counted in a signed
integer. What `Extractor` needs of its constants, `ExtractorAssumption`, is a definition
and not an assumption of the module: the theorems of `ExtractorProofs` have it as
their hypothesis, and `PipelineAssumption` says it of the instance in `Pipeline`.
TLC evaluates each in the runs of its module. The invariants that are stronger than the
properties of the runs were put to TLC on those runs' instances before they were
proved.

**`LoaderProofs`, the loader.** For any documents, urls, chunk counts and capacity. The
properties are not inductive one by one: that a delete takes no row of the
url's owner needs that the owner is in its loop or beyond it, which needs that a
document leaves the channel once, which needs that the channel holds it once.
The invariant is `TableInv`: the types with the loop's bounds,
`ChannelHoldsQueued`, `RowsAreProcessed`, `OwnerOrOvertaken` and
`LastLoadComplete`. Each conjunct has a lemma for a step (`TypeStep`,
`ChannelStep`, `RowsStep`, `OwnerStep`, `LastLoadStep`) with a case per action;
`AppendOnce` and `TailOnce` say what the channel's two operations do to a
sequence without repetition, `ReceiveEffect` and `DeleteOldEffect` what the two
actions that move most variables do. `DuplicatesOnlyByRace` follows: two
documents with rows have one owner, and one of them is not it. For
`NoOldVersionReturns` the older documents of a queued one must still be ended when
its task deletes (`OlderEnded`): a load that has ended inserts nothing more
(`OlderStep`, `OldVersionStep`).

`LoadInv` adds that a loop which has ended went through all chunks (`LoopsEnd`) and
what an exit leaves (`NothingOutlivesProcess`, which is `ExitEndsLoads`). With them
`QuietLoadIsWhole` says the good case exactly: a page whose last load went through
without a failure and overtook no other has the rows of that load, all of them and no
others, also after loads that raced. Its premise is what the two findings and the
lost page of section 6 leave out.

Two theorems are the safety on which the liveness of the loader rests. `LoadsAdvance`:
a document's distance from its end (`StepsLeft`, which counts the turns of its loop)
never grows, shrinks by every step of its task, and no task moves another document.
`ChannelIsFirstInFirstOut`: what waits in the channel is passed by nobody and moves
forward by one with each `Receive`. What `EveryDocumentEnds` needs beyond these is
that the tasks and the receive loop are polled, which is its fairness.

**`LifecycleProofs`.** For any connections. `LifeInv` adds two facts to the types
and `StatusTells`. `SchemaGrows`: the statements this start has gone through are in
the file, so that `select!` is reached with all three (`StepsCoverSchema`).
`StageTells`: what listeners, connections and outcomes there are in each stage,
from which `FirstIsListener` concludes that the loader's branch cannot be the
first to return, since its channel is open as long as the proxy's future is there.

**`ReadersProofs`.** For any urls, rows, widths, page sizes and number of results,
and whatever the loader writes. Rows are numbered as they are inserted, so that
what is gone does not come back (`RowsNumbered`, `GoneForGood`, `TableStep`); there
is at most one search, the page has no cards while it is on its way, and its
answer has none of the rows that were gone before (`OneSearch`); cards have their
texts behind them (`TextsBehindCards`). `NoGhosts` and `CardsShowOwnText` follow.

`WalksReadOnce` is the second half of the module. That a walk reads no row twice
and misses no more than were deleted is about sizes of sets, and says nothing of
a walk that is on its way, so that the invariant, `WalkInv`, does:

- `CursorIsLast`: the offset is the number of rows read by the calls before, and
  with the rows of this call it is no greater than the cursor's rowid, which is no
  greater than the number of insertions. So the cast of an offset never cuts
  (`SkipIsOffset`), though the cast of a limit may (`ShortPageIsLast`).
- `TakenAreBehind`: a row that must not be read twice (`Kept`: it was there at the
  start, or nothing was deleted since) and was read has fewer rows before it than
  the next offset skips, and none is ahead of the cursor. It holds because a new
  row comes behind all others and a deletion only brings a row forward.
- `PassedAreRead`: as long as such a row is ahead, no more rows are behind the
  cursor than were read. Without the condition this is false: a rowid that is
  given again puts a new row behind the cursor, and the later rows that are read
  twice (section 6) come from there.
- `SkippedAreFew`: the rows of the start that were skipped unread are no more than
  the rows deleted, and while a page is read not even together with those that
  the next offset is going to skip. A full page turns the second half into the
  first, a deletion between two pages adds to both sides of the first.

The cases of the step are `InsertWalks`, `DeleteWalks`, `StartWalks`, `FetchWalks`,
`ReturnWalks` and `FailedWalks`. They rest on lemmas about any finite set of
numbers: `RankOfFirst` (what OFFSET finds), `SkippedNext` (a full page) and
`SkippedAfterDelete` (a deletion), and on `LeastExists` and `GreatestExists`, which
come from the well-foundedness of the subsets of a finite set, since an
induction over numbers is not to be had.

**`UpgradedConnectionProofs`.** For any bytes, client streams and buffer sizes.
For the refinement the invariant is `TypeOK`, which includes that nothing has been
put back before the peek. `PollReadsStream` shows that a read through `Rewind` is a read of the
abstract stream or none, over lemmas about cutting and joining sequences
(`SplitAt`, `TakeFromFirst`, `ReadFirst`, `AppendBehind`); `StreamStep` maps every
step to a step of `ByteStream` or a stutter. `RewindIsTransparent` is the
refinement.

What the peek decides is about the bytes it read, and the two properties are
about the stream the server reads later. `PeekInv` connects them: what was sent is
a beginning of the client's stream (`SentIsStream`), nothing is read before the
peek, and what was read and what was put back start with what selected the server
(`StartIsKept`), whatever comes behind (`StartGrows`). `SelectedServerIsRight` and
`FirstBytesDecide` follow. The second adds what was decided to what is still read
(`DecidedStep`, `TunnelIsExcluded`), and that a first read that was long enough and
is a beginning of a known stream would have been recognised (`StartStays`).
`ClosedStreamIsDrained` is the safety behind `EverythingIsServed`: once the client has
closed, what is put back and what has arrived, with the end behind them (`Unread`),
only shrinks, the peek included, and a read that gives its server nothing changes
nothing.

**`CertCacheProofs`.** For any connections, authorities, validity, offset, pause
and drift. `EntriesStartFresh` needs what a connection holds between generating
and inserting, `GeneratedAreFresh`; together with the types they are `CertInv`.
`PresentedAge` bounds the age of what is presented, and `CertificatesValid`
concludes with the arithmetic of `Ttl`, `CacheTtl` and `Offset`.

**`ExtractorProofs`.** For any requests, whatever each can meet, any bounds of sizes
and any capacity. The length of a body is decided in two places: of the hint when
the headers are there, of the bytes when they are collected. `HandlerInv` keeps
what the first decided until the second (`CollectedArePassed`), and with what the
second decided (`SentAreLong`) `SizesAreBounded` follows. `RequestsProceed` orders the
places of a request (`Order`): each step moves it forward, a failure, a client that
leaves and an exit included, and a response that was held back is returned in the
very step that puts its page behind the others. It is the safety behind
`HeldPagesEnd`. `PagesAreSentOnce` follows from that order: a request whose
page is in the channel has its response returned (`ReturnedStays`), and does not come
to a send again.

**`WebSocketRelayProofs`.** For any number of frames and any room. `FramesStayInOrder`
follows a frame through its four places: each step moves the head of one to the
end of the next (`MoveHead`, `AppendLast`), and `OneElement` says what a pump holds.
`CloseReachesOther` is inductive with the types: a relay between two peers ends only
by a pump that comes to a Close or to a bad frame, and no step after it takes that
Close back from where the other side finds it, nor the bad frame from the head of its
stream (`CloseStep`, `BrokenStays`). `GoneSideIsDrained` bounds what a pump
still does for a side that has gone (`Undelivered`, two steps for a frame that has
arrived, one for that in the hand), and is the safety behind `RelayEndsOrIsBlocked`.

**`SplitDocumentProofs`.** For any body, any encoding and any length of the check. The
three things `split_document` does to a text go together in `SplitInv`: that it is
UTF-8 once it is decoded, and stays so. `TrimStart` takes the spaces in front, and the
least index it looks for exists because numbers are well-founded (`LeastNatural`,
`MinIsLeast`); what it leaves starts with a first byte of a character
(`TrimmedIsSuffix`, `TrimmedIsUtf8`). The slice of the check is UTF-8 where it is cut
at a boundary (`CutIsUtf8`), and where it is not, the cut is inside a character that
starts before it (`CutStraddles`): that is `PanicStraddles`, and `TextStaysWhole` says
the rest. `MarkerWithinCheck` is about two ways to count: the code looks in the first
bytes, the property speaks of characters, of which there are never more
(`MarkerInCharacters`).

**`LoaderProofs`, the pipeline.** `LoaderStep` and `ProxyStep` map every step of
`Pipeline` to one of `HtmlLoader` and to one of `Extractor`, or to none, which
is how it is built (`PipelineLoads`). So the invariant of the loader holds in the
pipeline, and its promises with it (`PipelineKeepsPages`). `ExitEndsEverything`: a
process that is down has left no request waiting, no page in the channel and no task
(`HandlersIdle` for the one half, `LoadInv` for the other). `CaptureFollowsAnswer` needs
from the handlers what was decided about a request before its page comes to the
channel (`HandlersKnow`: it was forwarded, both filters passed, it is long enough),
and from the loader that a page that was sent is never unsent again
(`UnsentStays`). It says nothing of whether the client receives the response, which
hyper writes later. `EncodingsAgree` follows from it.

**`LoaderProofs`, loads in sequence.** `SerialInv` strengthens what is known of the
loader by the assumption of `SerialLoader`, one load per page in flight
(`OneInFlight`): the task in its loop is then the last that deleted (`AdderOwns`), and
what the table holds is of one document per url and of chunks it has come to
(`Sound`). The same is said of `disk`, to which a power failure goes back, and is
kept there since commits reach the disk in their order (`CommittedStep`).
`RowsAfterDelete`, `RowsAfterInsert` and `IndexOf` say what the statements do to the
rows of a url, and `DeleteReplaces` and `AddStores` that this is what `PageVersions`
calls `Replace` and `Store`. `VersionsStep` maps every step; `SerialLoadsReplacePages` is the
refinement, the whole of it: `PageVersions` has no fairness.

**Only model-checked.**

- Liveness under fairness, which is beyond the prover: `EveryDocumentEnds`,
  `HeldPagesEnd`, `ComesBack`, `SearchSettles`, `EverythingIsServed`,
  `RelayEndsOrIsBlocked`. For four of them the safety they rest on is proved, as
  said above, in `LoadsAdvance`, `ChannelIsFirstInFirstOut`, `RequestsProceed`,
  `ClosedStreamIsDrained` and `GoneSideIsDrained`: the steps towards the end are
  counted and none is undone. That these steps are enabled and taken stays with TLC.

All invariants of the runs that pass are theorems, for every value of the constants.

## 5. What is not modelled, and why

- The HTML splitter, the embedding vectors, SQL, X.509 and the decoders: pure
  conversions by libraries. Their outcomes are in the models.
- The format the decoders expect: that `DeflateDecoder` reads raw deflate and
  servers send zlib is a fact about two formats, and shows here as a decoder's
  failure.
- The pattern list of the configuration: which hosts are excluded is an input of
  the models. An empty pattern (a comma at the end of the list) excludes all.
- The markup of the page, escaping and Markdown. That rendering may throw between
  two cards is in `SearchPage`.
- How `vector_top_k` ranks: an answer is any rows of the table, each once. A limit
  beyond the signed range in `search` is the library's to interpret.
- How the requests of one connection follow each other, the hosts of requests
  inside a tunnel as compared with its CONNECT, and the bytes from the server back
  to the client of an upgraded connection.
- How many tasks or bodies are in memory at once: the code bounds neither.
- Two lives of the process never overlap; two programs on one file are not
  modelled.

## 6. Where the code and its words part

Three runs end in a counterexample; "findings" quotes the lines.

1. `NoDuplicateEntries`: two captures of one page in flight. Both tasks delete,
   then both insert, and the table keeps both, against the comment of
   loader.rs:69. The next capture of that page removes them, if its load goes through
   and overtakes none (`QuietLoadIsWhole`).
2. `HtmlPassesCheck`: `&decoded_body[..50]` panics if byte 50 is inside a
   character. `PanicStraddles` proves that this is the only such case.
3. `BodiesNotTooLarge`: a body of no announced length, a chunked one, passes the
   test of extractor.rs:84, is collected whole and sent, whatever its size, against
   the comment of extractor.rs:83. `SizesAreBounded` proves that what is sent
   otherwise is within the bounds.

Other behaviour that a reader may not expect is within properties that hold:

- A page that was indexed without a failure is gone when its next load deletes
  the rows and then fails at an insertion, or the process ends; nothing loads it
  again. `PageVersions` allows it: `Replace` empties the page. A transaction
  around the delete and the loop would close this and the first counterexample.
- A page is captured although its client never receives all of it: the handler
  sends the page first and returns the response then, and hyper's writing may be
  cut by the client or the end of the process (`CapturedIffAnswered` relates the
  capture to the return).
- A client whose first bytes come in two pieces is given up, and so is plain HTTP
  in a tunnel of any method but GET, which the server behind the peek would serve
  (`PeekDecides`).
- An upgraded connection whose target takes no more bytes, or whose handler does
  not return, is not read on and not closed (`EverythingIsServed`).
- A peer of a relay that sends a bad frame ends it, and the other peer gets no
  Close (`CloseIsPassedOn`).
- A relay whose peer stops reading stays forever (`RelayEndsOrIsBlocked`).
- When a listener ends by an error, the exit status is success (`StatusTells`), so
  that a restart policy of on-failure would not bring the program back.
- A row that came during a walk may be read twice: when the last rows are deleted
  their rowids are given again, to rows that are then behind the statement's
  cursor, are not read, and push the row after them beyond the offset of the next
  page. It takes five rows. Rows that were there before the walk are read at most
  once, and missed only if others were deleted (`WalkReadsOnce`).
- Toggling a card uses the texts of the last answer that had results; the guard
  is that there are no cards when an answer has none (`CardsShowOwnText`).

## 7. Plan

Done, in this order: the table and the loader with their proofs; the abstract
index and the serial loader; the extractor; the pipeline; document splitting;
the rewinding stream and the upgraded connection with their proofs; the
certificate cache with its proofs; the WebSocket relay; the life of the process
with its proofs; the order of captures in the
loader; power failures; upgrades in the extractor; the readers of the table and
the page with proofs of the page's two invariants; the proofs of the extractor,
the relay, the peek, the pipeline, the serial loader's refinement and the walk; the
proofs of document splitting, of whole pages, of what an exit leaves, and of the
safety behind the liveness of the loader, the handlers, the peek and the relay.

Next, the model:

1. `Tunnel`: a CONNECT with its authority, the requests inside with their Host
   headers, and exclusion in both places: which requests of which connections can
   be captured. Composes `UpgradedConnection`, `CertCache` and `Extractor`.
2. The splitting of the pattern list in the configuration.
