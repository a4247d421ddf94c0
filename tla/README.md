# Sovereign Server in TLA+

Models, TLC configurations and TLAPS proofs for the Python HTTP framework in
`src/sovereign/`. The code is the reference for every definition; `PROJECT.json`
maps each definition to the lines it translates.

    tlc -workers 2 -config MCTaskQueue.cfg TaskQueue     # a run (see the table below)
    tlapm SovereignServerProofs.tla                      # the proofs of a module

## The system

| component | state | operations | who it meets |
|---|---|---|---|
| `server.py` SovereignServer | listening socket, `stop_event`, `connection_sem`, thread pool with its queue, per connection: requests seen, keep-alive, background tasks | `serve_forever`, `shutdown`, `handle_connection(_safe)`, `_run_background_tasks` | parser, router, task queue, WebSocket handler, any thread that calls `shutdown()` |
| `tasks.py` SQLiteTaskQueue | the `tasks` table, one worker thread, its `stop_event` | `enqueue`, `start`, `stop`, `run_forever`, `run_once` | server (start, stop, enqueue), other processes on the same file |
| `security.py` TokenBucketLimiter | a bucket per key, in memory or in SQLite | `consume`, pruning, the middleware call | request threads |
| `security.py` BruteForceProtector | a row per key | `status`, `reset`, `record_failure` | request threads |
| `sessions.py` / `auth.py` | table of revoked tokens, a cache per process | `revoke`, `is_revoked`, `cleanup_expired`, `verify_token`, `revoke_token` | request threads, other processes, the task queue |
| `eventhub.py` EventHub, SSESession | room, session and user indexes, a bounded queue and a `closed` flag per session | `register`, `join`, `leave`, `unregister`, `sse`, `broadcast`, `send_user`, `close`, `events` | worker threads of streams, WebSocket sessions, broadcasting threads |
| `websocket.py` WebSocketSession | send queue, `closed`, pending ping, writer and heartbeat threads | `recv`, `ping`, `close`, `_writer_loop`, `heartbeat` | its handler, the hub |
| `router.py` | routes, singleton cache, per-request cache | `resolve`, `execute`, dependency resolution, and the async versions | both servers |
| `async_server.py` | semaphore, the asyncio server | `handle_client`, `shutdown` | router |
| `parser.py`, `request.py` | receive buffer, absolute deadline | `read_headers`, `read_exact_body`, `read_chunked_body` | server |
| `orm.py` | tables, with the largest key ever given | `insert`, `save`, `delete`, queries | request threads, other processes on the same file |
| `html5.py`, `static.py`, `middleware.py` | the files, the browser's copies of them | `serve_html5_file`, `static_response`, `HTML5App.mount`, the compressions | router, browsers, whoever saves a file |
| `validation.py`, `multipart.py` | none | coercion of JSON into dataclasses and their schemas; forms and their files | handlers, `openapi()`, ORM, file system |
| `template.py`, `responses.py` | none | | server, router |
| `acme.py`, `crypto.py`, `sandbox.py`, `cli.py`, `config.py`, `testing.py`, `logging_utils.py`, `errors.py`, `utils.py` | none, or outside the process | | |

What is hard in it: threads that meet at a semaphore, at a pool that may be shut
down under them, and at flags that are read without a lock; SQLite connections in
autocommit mode, where every statement is a transaction; clocks that are read
before a lock is taken; caches in several processes; a worker process that dies
between two statements; bounded queues whose overflow ends a session.
`PROJECT.json` lists these under `hazards`, each at its line with the properties
that would notice it.

What makes each component correct:

- *server*: permits are conserved, every admitted connection is closed, a kept
  alive connection stays in step with its requests, background tasks follow their
  response, `shutdown()` ends and leaves nothing running;
- *task queue*: a task is run, recorded, retried a bounded number of times, and
  never forgotten or run by two workers;
- *rate limiter*: no window admits more than capacity plus refill; the advice to
  retry is enough (up to the millisecond that its rounding drops);
- *blocklist*: a revocation holds at once where it was made and within the cache
  lifetime elsewhere; nothing else is refused;
- *request reader*: a request is read as it was sent, in whatever pieces it arrives; what
  is buffered is bounded, and the absolute deadline ends every wait;
- *WebSocket session*: it is closed once, by whichever thread comes first; a client whose
  answer has been recorded is not timed out; its threads end with it;
- *event hub*: a subscriber that misses an event is closed, closed connections
  leave the indexes, closed streams end;
- *models*: what the published schema admits is accepted, what a handler gets has the
  declared type, a row reads back as it was saved, and an object never overwrites another;
- *files*: a browser is told to keep only what is current, ranges fit together, a body is
  encoded as its headers say, a form is read as it was written.

Where the code keeps such a promise only up to a case, the property names the case, and the
section on what the properties except says what happens in it.

## Modules

### SovereignServer (`server.py`)

`mainPc` is the statement of `serve_forever` the main thread has reached, `shutPc[t]`
the statement of `shutdown()` of each caller: `main` through the `finally` clause and
`app`, any other thread. `connection_sem` is the semaphore's counter, `workq` and
`doing` are the queue and the threads of the pool, which also runs the transient
background tasks. `phase[c]` is where connection `c` is, from `away` to `closed`;
`refused` is a connection closed for want of a permit, `dropped` one whose `submit()`
was refused because the pool had been shut down. Each statement that another thread
can observe is an action. Parsing, routing and the handler are nondeterministic
outcomes (return, HTTP error, other exception, client gone); a write fails before or
after its first byte. `heads`, `bodies` and `late` are history: what was written on
the connection and how many requests were begun after the stop.

### TaskQueue, TaskLedger (`tasks.py`)

`TaskQueue` has the columns `status`, `attempts` and `next_run` (as seconds still to
wait) and, for each queue object, its thread: one action per SQL statement, because
the connections are in autocommit mode. The local copy of `attempts` is `tries`.
`ThreadDies` is a database error outside the `try`, `RecordDoneFails` one inside,
`Crash` the end of the process. `TaskLedger` is the promise: rows are added, begun,
succeed, or fail and are retried until `max_retries`, each in one step. `LedgerSpec`
states that `TaskQueue` implements it (`Ledger`, with the columns of the table for the
ledger's variables); the thread variables are hidden.

### TokenBucket (`security.py`, TokenBucketLimiter)

One key. The clock of the code is a float; it advances here by fractions of a second, of
any resolution (`Second`), by any amount of `Steps` at a time. Tokens are counted in units
(`Cost` of them to a token), so that the refill of one fraction is `Requests` of them: the
floats are taken for the rationals they stand for, without their rounding. A caller stamps its call with the clock (`Stamp`),
takes the lock and reads (`ReadBucket`), writes the decision back (`WriteBucket`).
`MaxLag` bounds how long a caller may wait between stamp and lock; without such a
bound, pruning may remove a bucket newer than the waiting caller's clock. `Prune` is
the `DELETE` executed by calls for other keys. `since` is history: the admissions since
an observer started counting (`Observe`), at any moment.

### JwtBlocklist (`sessions.py`, `auth.py`)

One token, several threads in several processes. The cache is read without the lock
(`CacheHit`), the row is read and the answer stored under it, with a lifetime counted
from the clock read before the lookup. `revokedAt` (first revocation), `known`
(processes whose `revoke()` has returned) and `informed` (calls that began after that)
are history. Every process has the same clock here.

### EventHub (`eventhub.py`)

One room and one user. `hub.lock` covers the indexes, so a step is one locked section
(`Register`, `Join`, `Unregister`, `Broadcast`'s snapshot) or one operation on a
session between them. `SSESession.close()` is three steps, since its test, its
assignment and its `put` are not atomic. A stream's worker registers, joins, registers
again, and either starts its generator or, when the head cannot be sent, abandons it.
A WebSocket is its `closed` flag and send queue; `Visit` does not see that flag because
`WebSocketConnection` copies it when the connection is made. Senders broadcast to the
room or to the user, kick a session or take it out of the room.

### WebSocketSession (`websocket.py`)

One session: the handler (`recv()`, and between two of them anything the application may do:
send, ping, close, return), the heartbeat, the writer, and the client. `pc` says where each
sending thread is; the test of `closed` and the `put` in `_enqueue_frame` are two steps, and
so are the frame, the `None` and the shutdown of the socket in `close()`, under
`_close_lock`. The writer sets `closed` without that lock. A ping's random payload is
either the newest (`ping`, `pong`) or an earlier one (`oldping`, `oldpong`): a new ping turns
everything under way into old. `recv()` takes a pong and records it in two more steps, the new
`last_pong` and the end of `_pending_ping`; `answered` is history, and says from the moment a pong is taken
that the newest ping has had its answer. `recv()` and `sendall()` may time out at any moment. That
covers a race of the code the length of a timeout would show: both threads set the timeout of
the one socket object, so that a reader can find the writer's shorter one. The threads of
the hub, which call `send_text` and `close()` as well, are left to `EventHub`.

### Dependencies, AsyncServer (`router.py`, `async_server.py`)

`Dependencies` is the resolution of one handler's dependencies by each task: `Needs` lists
their scopes in the order the providers are called (a nested dependency before the one
that injects it). On the event loop another task runs only while a provider is awaited, so
`Lookup` and `Provide` are the steps: the test of the cache, and the store when the provider
returns. Instances of the singleton are numbered. `AsyncServer` extends it with
`handle_client`: a permit of the semaphore, the keep-alive loop, an error page on any
exception, and the exception of an error page that cannot be written, which leaves
`handle_client` and makes asyncio close the transport. A response is written whole, with a
body or without one, whatever the method of the request is (`head_only`); `bodies` counts
the responses as the client does, for whom the body of a HEAD is one more, and `stray` says that
there has been one. A connection that is
closed forgets what its loop knew (`Closed`). Reading a request, routing,
middleware and handler are outcomes. `shutdown()` is left out: nothing in the package
calls it, and whether `wait_closed()` waits for connections depends on the version of Python.

### BruteForce (`security.py`, BruteForceProtector)

One key and one guard object. A caller stamps its `status()` with the clock, reads the
row under the lock, resets an expired block in a locked section of its own, is refused or
goes on to a handler that lasts any time, and then records a failure or deletes the row.
The two statements of `record_failure` are two actions with the lock held between them;
the other locked sections are one. Times are ages: `old` of the row's `updated_at` (a
block is the flag `blocks` together with `old < Block`), `lag` of a caller's clock reading,
`until` the seconds of block left that it was told. `fails` counts what was recorded
since the row was last deleted, `early` holds the calls that had a status before the
block was set. Sleeps of the tarpit are delays before and after the handler.

### RequestReader (`parser.py`)

One connection: the stream of the client, `SocketReader` and `parse_request`, in the
keep-alive loop of `server.py`, which makes a reader for every request. The stream is made of
tokens: what starts a head and announces its body, a header field, the blank line, a chunk
size, a line end, a byte; limits count tokens. `Receive` takes any number of them up to
`RecvSize`. `mode` is the place in `parse_request`, and `BeginRecv` is one round of the
loops of `_read_until` and `read_exact`, which test the limit and the deadline. `Respond` drops
the buffer with its reader. `firm` counts the requests the client sent in order: after
the response to the one before, and behind no trailers. Left out: what makes
a header line valid (one kind of request, `invalid`, stands for all that are refused), the
spooling of large bodies, and that `int()` takes signs and underscores in a chunk size.

### Validation, OpenApi, OrmColumns, SqliteOrm, ModelApi (`validation.py`, `orm.py`)

In `Validation` a Python value is a pair of a tag and a payload, a declared type a tuple, and
a call ends with a value, with a `ValidationError` or with another exception; the difference
shows in unions, where only the first leads to the next alternative. `coerce_value` is a
recursive function of the nested calls that are left: `Coerce[n]` is what it returns when its
nested calls return what `Coerce[n - 1]` says, and without any call left it raises, as Python
does at its recursion limit. The JSON values, the Python values around them, the values of a
declared type (`Of`) and the types that leave no choice (`Unambiguous`) are functions of a
level in the same way, so that all of it can be proved about. `ValidationAssumption` says what
a program's declarations are: types made of types, no union of nothing but `None` (Python makes
`Union[None]` the class of `None`), dataclasses with distinct field names and defaults of the
declared type. A tuple type of so many items (`fixed`) and a type that the validator returns unchecked
(`mapping`, for `Literal`, `NewType` or `Sequence[int]`, validation.py:61) are among them, and
a value is judged by what they say. `MaxFloat` stands for the largest integer that `float()`
takes, `Surrogates` for the strings that JSON can escape and UTF-8 not write; both make the code
raise something that is no `ValidationError`. Left out: `frozenset`, keys of a dict that are not
`str`, and that two NaN are not equal in Python (they are one value here).

`OpenApi` has the published schema, read from the same declaration, as what it says: the set of
JSON documents it admits. `json.loads` also reads `Infinity`, which is no JSON and in no schema.
`OrmColumns` is the way of a value into its column and back: `_encode` after
`dataclasses.asdict`, JSON, the affinity SQLite gives a column of that type, `_decode`. The code
looks for `NoneType` in the arguments of any generic, and so does `Args`: a `dict[str, None]` is
read as an optional `str`, and a `list[None]` has no column (`NoColumn`). A NaN is stored as NULL, and an integer
beyond `MaxInteger` is refused by SQLite. `asdict`,
`json.dumps` and the schemas are functions of a level like `Coerce`; the levels (`MaxNesting`)
are enough for whatever the validation can return.

`SqliteOrm` is the table: threads of several processes, each with an object. `insert`,
`delete` and `get` are one statement; `save` is an `UPDATE` and, when it hit no row, an
`INSERT`, with the lock of the process's ORM object held between them. `origin` is history,
the insertion that an object or row goes back to, and `by` the thread that inserted a row.
What is stored is left to the constants `Encode`, `Decode`, `Writable`, `Readable`, so that
the proofs about the table hold for any of them. `ModelApi` composes validation and table: a
class and a body are chosen, the body is validated, and the object that results goes through
the table. `ModelColumns` adds the columns of its classes and their published schemas; the
configuration, and the hypothesis `ColumnsOfP` of the theorem about them, give the table's
constants these conversions.

### Multipart, AssetDelivery, AssetUpload (`multipart.py`, `html5.py`, `static.py`, `middleware.py`)

`Multipart` is `MultipartParser.parse` over a body cut into the pieces it tells apart:
`ReadSoFar` is the state of its loop before each position of the body, and a segment is taken
(`Step`) where the next separator stands. The reference, `EncodeForm`, is a form as a client
writes it, with a separator that occurs in no content and names that are read as they are written (`Names`:
ASCII, without the semicolons, quotes and blanks at the ends that the header parser splits at or strips).
A field is decoded (`Decode`), which replaces what is not UTF-8 (`Binary`). `AssetDelivery` serves one URL: the
request finds its file (`Locate`, with the fallback of single page applications), takes the
ETag from a `stat` and compares it (`Stat`), and reads the body, cuts the range and passes the
compressions in the order they were registered (`Chains`, `Read`). An `Accept-Encoding` header
is a set of entries, each with its spelling and its weight; the code searches the header for the
name, in lower case or as it is (`CodingsNamed`, `CodingsFound`), and does not look at the weight. Names that
contain another (`x-gzip`) and `*` are left out. Files are written in place between
these steps, as `UploadedFile.save` does it: truncated, then chunk by chunk. The browser
keeps its last full copy, with the ETag, and puts a download together from ranges that came
under one ETag. A file is its modification time and its chunks, each written by one write
only. `AssetUpload` composes both: the files of an accepted form are what is saved.

## Runs

| run | module, cfg | instance | distinct states | shows |
|---|---|---|---|---|
| `server_live` | MCSovereignServer, MCSovereignServer.cfg | 2 connections, 2 workers, 1 permit, 2 requests each, task lists up to length 2 | 146,410 | permits, framing, safety and quiescence at shutdown; queued connections are closed, a stop leads to the exit |
| `task_queue` | TaskQueue, MCTaskQueue.cfg | 2 tasks, 1 worker, 3 retries | 4,116 | accounting, refinement of the ledger, every pending row settles |
| `task_queue_crash` | TaskQueue, MCTaskQueueCrash.cfg | the same | violated | a crash after the claim strands the row |
| `token_bucket` | MCTokenBucket, MCTokenBucket.cfg | 2 callers, 2 per 4 s, a clock of half milliseconds that advances by 1 s or 0.9995 s, pruning after 6.5 s, lag 1 s, time 8 s | 6,298,847 | admission bound, Retry-After up to a millisecond |
| `jwt_blocklist` | MCJwtBlocklist, MCJwtBlocklist.cfg | 3 threads in 2 processes, ttl 1, expiry 2, time 3 | 3,008,537 | how stale a cached answer may be, and where it may not |
| `event_hub` | EventHub, MCEventHub.cfg | 1 sender, 1 stream, 1 socket, queue of 1 | 217,908 | overflow, wake-up, order, membership, collection of closed connections, end of closed streams |
| `request_reader` | MCRequestReader, MCRequestReader.cfg | 2 requests of 10 shapes, pieces of up to 3 tokens, head limit 3, body limit 3, idle 1 and 2 s, deadline 3 s | 340,101 | bounded buffers, the deadline, requests parsed as sent |
| `websocket` | WebSocketSession, MCWebSocketSession.cfg | beats of 1 s, queue of 1, one unread client frame | 394,431 | closing from several threads, pongs against beats, end of the threads |
| `async_server` | MCAsyncServer, MCAsyncServer.cfg | 3 connections, 2 permits, 2 requests each, four dependencies | 1,842,579 | permits and framing on every path, a singleton settles |
| `brute_force` | MCBruteForce, MCBruteForce.cfg | 3 callers, blocked after 2 failures for 3 s, pruned after 12, lag 2, 4 failures in a row | 112,342 | failures counted, later calls refused, blocks not lifted by late failures |
| `models` | MCModelApi, MCModelApi.cfg | 36 declared types, 40 bodies; 3 threads in 2 processes make 5 calls on one class and 1 on each other | 6,319 | schema against validator, coercion, columns, keys and conflicts of `save` |
| `assets` | MCAssetUpload, MCAssetUpload.cfg | 3 kinds of URL, 4 chains of compressions, 7 Accept-Encoding headers, 3 requests, 10 ranges, 2 changes of files, 401 forms | 966,968 | revalidation, ranges, encodings and routes while files are rewritten; forms read back |

Why these bounds are enough to be interesting. Two connections with one permit
reach refusal and release, and a queue that is not empty when the pool is shut down; two
workers run a connection and a background task at once. Two connections served at once are
left to the proofs, which hold for any number of permits: with two of them the liveness
properties are out of TLC's reach. Two requests reach both ends of the keep-alive loop. Three retries reach
`pending`, the delay, and `dead`. For the bucket, `MaxTime` lets it empty, refill
to its capacity and be pruned; the lag makes time go backwards between two
callers; a step of 0.9995 s leaves a wait of 1.0005 s, which the code rounds down. In the blocklist two threads share a process and so a cache, the third is in
another; time passes both the cache lifetime and the expiry of the token. Three
callers let two failures block a key while the third is in its handler, and its own
failure then renews the block; the age of the row passes the block and the pruning age. A WebSocket queue of 1 is
full behind every unsent frame, so that `close()` finds room for both, one or none of its
two entries. A hub
queue of 1 overflows, and lets a reader drain it between `Full` and `closed`; several
senders are left to `EventHubProofs`, as two of them with both kinds of connection are out of
TLC's reach. A head of four tokens passes a limit of three in one piece and is refused in
others; bodies of 2, 3 and 4 lie on both sides of theirs. The declared types have each kind
of `coerce_value` once at the top and the containers once more inside another; the bodies have
each kind of JSON value, a NaN, an integer beyond `MaxFloat`, one beyond `MaxInteger` and half a surrogate
pair, and for each type some that conform, some that can be converted and
some that are refused. Five calls of three threads suffice to insert, read, delete, miss an
`UPDATE`, and have the key taken by the other process before the `INSERT`. Contents of
forms begin and end with everything the parser looks for. Three requests with two saves let a
copy be fetched, overwritten and revalidated, and two ranges be fetched around a write; ranges
lie on both sides of both ends of the file, which is empty when it has just been truncated.
Every action fires in some passing run, and every property of a run has a mutant of the code
model (defined next to the action it changes) that violates it.

Type invariants are proved for all modules with proofs (`TypeOK`, or a part of `Inv`), so
the runs leave them out; that of `RequestReader`, which bounds its buffer, is also checked.

Deadlock is not checked for `AsyncServer` and `RequestReader`, where each task or connection
ends, and the run then stops, nor for `ModelApi` and `AssetUpload`, where the calls,
requests and saves are counted.

### Fairness

- *Server.* Threads that can take a step take one; a handler returns, a client socket
  has a timeout on every read and write, so each phase of a connection ends; `accept`
  has a timeout of one second. No fairness on the calls of clients or on anyone
  calling `shutdown()`. Streams and WebSocket handlers that never return are not
  covered: the code does not bound them, and `shutdown(wait=True)` waits for them.
- *Task queue.* A live thread is scheduled, a task function returns, time passes, and
  a dead worker is started again, which is what `restart: unless-stopped` in the compose
  files does. There is no fairness on database errors not happening for ever: `Work`
  as a whole is fair, not its success.
- *Event hub.* Workers and senders are scheduled, `queue.get` has a timeout and writes to
  the client have the socket's. Nobody is obliged to broadcast.
- *WebSocket.* The threads are scheduled, `recv` and `sendall` have timeouts, time passes.
  The application and the client are not obliged to do anything.

### What the properties except

- `SingletonSettles`: two requests that come before the first instance is cached each build
  one, and a request can be given the first and a later one the second (router.py:208-210).
  After the last of these builds all are given the same.
- `SessionEnds`: a `close()` that finds the queue full cannot queue its `None`. If the writer
  then sends the whole queue before `close()` has shut the socket down, it waits in `get()`
  for ever (without the exception `lost`, TLC finds this).
- `HeartbeatJustified` speaks of pongs that `recv()` has taken: a handler that does not
  receive has its client timed out. It excepts a beat that falls between the taking of the pong
  (websocket.py:99) and the two statements that record it (101, 102): it still sees a ping
  pending and an old `last_pong`, and closes the session of a client that has answered. It does not promise a whole interval to answer either:
  when the application pings just before a beat, `_pending_ping` is set, `last_pong` is old,
  and the beat closes the session (websocket.py:132).
- `RetryAdviceSuffices` gives the client a millisecond more than it was told. `int(wait + 0.999)`
  (security.py:89) rounds up unless the fraction of the wait is under a thousandth: with one
  request per 3 s, consumed at 0 and refused at 1.9995, the wait is 1.0005 s, the advice 1 s,
  and the call at 2.9995 is refused again.
- `AnsweredInStep` is about connections on which no HEAD has been answered with a body. In
  HTTP/1.1 the response to a HEAD ends with its head, and server.py:54 leaves the body out;
  `write_response_async` (async_server.py:130-132) writes it and keeps the connection. `HTML5App`
  registers HEAD routes that return the whole file (html5.py:278-286), so that a client takes the
  file for its next response (`stray` in the model). Without the exception TLC finds this with one
  connection and two requests.
- `BlockRefusesLaterCalls` excepts calls that had their status before the block: any number
  of concurrent calls can pass the check before the first failure is recorded.
- `LostPermitOnlyAtExit`: a connection accepted while another thread shuts the pool down
  stays open and keeps its permit until the process ends.
- `ParsedAsSent` is about clients that wait for a response before they send the next
  request. A client that pipelines loses what its last reader had over-read (server.py:156), and
  its next request is lost, refused, or read with bytes of a body before its
  request line. Trailers do the same: one line behind the last chunk is consumed
  (parser.py:82), the comment above it speaks of the trailer section.
- `DeadlineKept` bounds the waiting, not the thread: bytes that are buffered already are
  parsed whatever the time. The `keepalive_timeout` that server.py:182 sets on the socket is
  overwritten by the first `_recv_some()` of the next request, so between two requests
  `header_idle_timeout` applies, and its end is answered with a 408. The millisecond that a receive waits at
  least (parser.py:20) is below the unit of the model's clock.
- A request's `Transfer-Encoding` is absent or exactly `chunked` in the model; parser.py:145 reads no
  chunks for any other value.
- `KeepAliveFraming` does not cover HEAD of a `StreamResponse`, whose chunks are written
  (server.py:42-51): only an application that registers such a route meets it.
- `DocumentedIsAccepted` excepts (`Documented`) bare classes such as `list` and types that are not looked
  into, which the schema
  calls strings (validation.py:177), and sets of items that are not hashable, where `set()`
  raises after the items were accepted. It also excepts (`Ordinary`) bodies with an integer above
  about 10^308, for which `float()` raises `OverflowError` (validation.py:44), and with half a surrogate
  pair, for which `encode()` raises `UnicodeEncodeError` (55): the code catches neither.
- `CoercedConforms` excepts (`Unchecked`) `tuple[int, str]` and the like, whose items are all coerced to the
  first argument (validation.py:83), and what is returned as it came (61).
- `ConformingKept` is about declarations without a choice: `Union[str, int]` turns 7 into "7",
  and `Union[int, float]` turns 1.5 into 1, because the first alternative that converts is
  taken. A tuple type uses its first argument for every item (validation.py:83). An infinite
  float given for `int` raises `OverflowError`, which ends a union at that alternative.
- `LoadedAsSaved` is about types a column keeps (`Storable`), and values other than a NaN, which
  SQLite keeps as NULL, so that it is loaded as `None`. A `dict[str, None]` is loaded as its JSON text, and
  a class with a field `list[None]` cannot be registered: `next()` finds no other argument and raises
  `StopIteration` (orm.py:17, 42). A field of type `Any` or of a
  union meets TEXT affinity and comes back as text; `Optional[Union[int, str]]` is read as an
  `int`, so that a stored word makes the row unreadable; a set cannot be written
  (`json.dumps`); a tuple or an object inside a container comes back as list or dict. An object
  is kept when its fields are of types JSON keeps and its defaults are JSON values.
- `RowIdentity` holds for keys that AUTOINCREMENT gives. A key type that is not an integer, or a
  key the program sets itself, is the program's business.
- `NotModifiedIsCurrent` assumes that every write advances the modification time (the ETag
  is time and size). A body may be newer than its tag, since the tag is taken first
  (html5.py:219, 236): the next revalidation then fetches it again.
- `PartsOfOneFile` excepts ranges that were read after a write that came behind their
  `stat` (`torn`): they carry the old tag with new bytes. `If-Range` is not looked at.
- `EncodedOnce` promises a coding that the header names, not one that the client takes: the code searches
  the header for the name (html5.py:244, middleware.py:84, 87, 106), so `gzip;q=0`, which
  refuses gzip, is answered with gzip. It says nothing of `Content-Range`: a 206 that a middleware compresses keeps the
  positions of the uncompressed file. The ETag is the same for every encoding, and
  `Vary` is overwritten by CORSMiddleware (middleware.py:35) and by the compressions. Under the
  async server these middlewares get a coroutine from `call_next` and fail; the docstring of
  `execute_async` says that middlewares must await.
- `FormRoundTrip` promises files as they were, and fields where they are text: `decode(errors="replace")`
  (multipart.py:140) loses every byte of a field that is not UTF-8. It is about forms that end with their closing separator; a body cut off before
  it is accepted with the parts it has (multipart.py:118). Two saves to one path at a time
  would mix their chunks; the model has one writer.

### Disagreements with the documents

- `task_queue_crash`: README.en.md:26 promises "Persistent Background Tasks using
  SQLite Queue with retry logic". A row set to `running` (tasks.py:75) is looked at by
  nobody but the thread that set it; after a crash, or a failed `UPDATE` in the `except`
  clause, it stays `running` in every later process.

Two queue objects on one file would run a task twice: `SELECT` and claim are two autocommit
statements, and the claim does not test the status (tasks.py:70-75). A server has one
(server.py:69), and the run and the proofs are about one worker per database (`OneWorker`).

## Proofs

All theorems are of the form `Spec => P` and hold for every value of the constants that
the modules' `ASSUME`s admit. 

- `SovereignServerProofs`. The inductive invariant `Inv` conjoins types, *ownership* (a
  connection is in exactly the place its phase says: in `workq` once when `queued`, with
  one worker when served, with the main thread before), the *stages* of the shutdown
  (what a `shutPc` implies of the flags), *drained* (a caller past `join` leaves an empty
  pool), *framing* and *late*. None of the safety properties is inductive alone: that
  `release()` never exceeds the initial value needs ownership (two workers never close
  the same connection), and quiescence needs the stages. Permits are counted with
  `Cardinality`, from the library's facts on finite sets.
- `SqliteProofs`, the task queue, assumes `OneWorker`. The invariant says that the row a thread holds is
  `running`, and that every other `running` row is in `lost`; from it each step of
  `TaskQueue` is a step of `TaskLedger` or a stutter (`QueueImplementsLedger`).
- `TokenBucketProofs`. The admission bound follows from an invariant that relates tokens
  and admissions since the observation to the time of the latest update, with the lag of
  each waiting caller; the arithmetic is linear once the products are named.
  `RetryAdviceHonest` holds for any number of requests and any resolution of the clock: adding 0.999
  before truncating falls short of the wait by less than a thousandth of a second.
- `JwtBlocklistProofs`. Every cache entry "not revoked" expires within the lifetime of a
  clock reading made before the revocation, and every thread about to store such an entry
  read its clock before it; mutual exclusion of the lock gives that no such thread exists
  in the revoking process once `revoke()` is between its `INSERT` and its cache entry.
- `BruteForceProofs`. A caller between the two statements holds the lock and has read what
  is still in the row; a block belongs to at least `max_attempts` failures; while the key
  is blocked, a call that is not `early` has been told exactly the rest of the block. The
  last part needs the second (the age of a blocked row advances with the clock), and
  `BlockKept` needs `MaxLag < Block`: a failure that waited for the lock longer than a
  block lasts would shorten it.

- `AsyncServerProofs`. Types, framing (a request being served has had no part of its
  response, every one before it the whole, as long as no HEAD had a body) and the count of permits are inductive together;
  every step moves the set of permit holders by at most its own task. That a singleton
  settles needs that a task waits for a provider only in `resolve` and before its last
  dependency, so that no other step can touch what is being built.

- `EventHubProofs`. One fact carries most of it: a thread that is to close a connection
  does so unless another has (`CloserGoesOn`). With it, an event is lost only to a
  connection that is closed or that its sender is itself about to close, which also keeps
  that sender from queueing a later one; and a connection that has registered once and is
  registered no more was taken out by a thread that closes it, which accounts for the
  members that `join()` adds after they were unregistered. The reader of a closed stream
  has its waker until the `None` is in the queue or the queue is full.

- `SqliteProofs`, the ORM. `RowIdentity` is not inductive: a row can come back from any object with
  its id, so two objects with one id must go back to one insertion (`OriginPerId`), and a new
  key must be larger than any object's. `ConflictIsForeign` needs `Held`: a thread whose
  `UPDATE` hit no row holds its process's lock, and a row that has taken the place since is
  another process's. Nothing is assumed of the conversion of values.
- `SqliteProofs`, validation. What a type accepts at one level of nesting is made of what its
  arguments accept one level down, so the proofs go by induction over levels: the result of
  coercing at level `n` is a value the program can hold (`Python[MaxDepth + n]`) and an
  instance of the type (`Of[MaxDepth + n][T]`), and for the declarations `Unambiguous[n]` an
  instance comes back as it was. Nothing is assumed but the typing of the constants. The
  proofs of the table hold for any values, and `ApiRows` carries them over to `ApiSpec`.
- `SqliteProofs`, the columns. A JSON value passes `asdict` and `json.dumps` unchanged at every
  level (`AsDictKeeps`, `DumpsKeeps`), and what the validation gives for a type of `Plain` is
  one (`PlainGives`). So the value of a storable type has one of a few shapes (`Shape`), and each
  is written and read back as it was (`RoundTrip`); a number through the affinity of its column,
  a tuple as a list, an object as the dict of its fields. The invariant `ColumnInv` says of every
  row that its columns are what its value was encoded to, and of every value in a row or an
  object that it is of such a shape (`Keep`), which what was read back is again.
- `SqliteProofs`, the schemas. At each level, a call that fails on a document fails with a
  `ValidationError`, and on none that the schema one level down admits (`DocumentedAnswers`). In a
  union both must be known, as another exception would end it before the alternative that the
  document is admitted by; for a set, that what its item type gives is hashable (`HashableGiven`).

- `ConnectionProofs`, the WebSocket session. That one close frame and at most one frame of each
  other thread come behind it needs to know of every thread that is between its test of
  `closed` and its `put` that it has queued nothing since `closed` was set, and of the holder of
  `_close_lock` that nobody has closed before. `HeartbeatJustified` needs that a pending ping is
  the newest, and that when its pong has been taken and a ping is still pending, the handler is between the
  two statements that record it.
- `ConnectionProofs`, the delivery. The invariant `DeliveryInv` holds, for every tag a client can
  have (its copy's, its download's, the pending request's), that a file which
  still has this modification time has the content the tag was given for (`Dated`, `Tagged`);
  as every write advances the clock, a time names one file and content (`Written`). That
  a response is encoded once is proved for any chain of the two middlewares, by induction over it. The
  proofs are about `AssetDelivery`'s steps with files of any length, and
  `UploadInvariant` carries the invariant over to `AssetUpload`.
- `ConnectionProofs`, the reader. Types need what the stream of a request is made of
  (`StreamTypes`), by induction over its chunks. `ReaderInv` adds that a recv() is only waited in by
  a loop that has not come to its end, with no more buffered than the greatest limit and a timeout
  within what is left of the deadline.
- `ConnectionProofs`, `ParsedAsSent`. The invariant `Faithful` needs, for the request that is
  being read, what is left of it: buffer and wire together (`Under`) begin with the rest of
  that request (`Fit`), all of it unless the client has left, and nothing else unless it has
  sent more. `Underway` says which rest that is in each mode of `parse_request`: behind the
  i-th chunk size, that chunk and the chunks from the next on, with the sizes read so far
  those of the request (`Counted`). Each step of the parse takes what the request has there and
  leaves the next rest, answers it as it was meant, or refuses it for what it is (`Outcome`). Between two
  requests nothing is left but the line end behind a trailer (`Over`), which is why a
  request behind a trailer is not promised anything.

Induction over data is done with recursive functions (`ChunksFrom`, `SumFrom`, `Through`): a
recursive definition on `1..n+1` is a function because one exists (`BackwardFunction`), and what
holds at `n+1` and from `i+1` to `i` holds on all of it (`Downward`; `Upward` from 0), all from
the library's least element of a set of naturals.

- `ConnectionProofs`, the form. `FormRoundTrip` is proved for forms of any number of parts, any
  contents and any limits. An encoded part begins with the only separator in it (`PartEncoded`),
  so the segment between two separators is one part (`FormBody`, `Between`), of which `Trim`
  leaves the headers and the content (`PartTrimmed`), and the first blank line separates them
  (`PartHeaders`), whatever the content begins or ends with. By induction over the parts,
  when the separator behind the n-th part has come, the parser has come to what the first n
  parts say, or has refused the form (`Says`, `StepSays`): the last part of a name has replaced
  those before it (`LastGrows`), and the limits are passed at the part that passes them. The
  fields are what `Decode` makes of them (`FieldsRead`), which for text is the text (`TextDecoded`).

Proved only: `TasksAfterResponse`, `ReadIsFresh`, `RefusalJustified`, `RunningIsHeld`,
`LossClosesConnection`, `ReaderIsWoken`, `EndedIsForgotten`, the type invariants, and
whatever needs more than one sender in the hub or two permits of the server.

Only model-checked: all liveness properties (the prover handles neither liveness under
fairness nor ENABLED) and the violations. Every invariant and action property of a passing run
is stated by a theorem.

## Not modelled, and the plan

Left out for good: encodings and cryptography (`crypto.py`, the bytes of tokens and
frames), text (templates, logging, the wording of OpenAPI), configuration, container files,
the ACME client (a wrapper around an external program), security headers, CORS and CSRF
(headers of one request), `AssetManifest` (a listing), the queries of the ORM, which only read.

Order of the work, with what is done marked:

1. [done] `SovereignServer`, `TaskQueue` refining `TaskLedger`, `TokenBucket`,
   `JwtBlocklist`, `BruteForce`, `EventHub`, and `AsyncServer` over `Dependencies`,
   `WebSocketSession` and `RequestReader`, with proofs.
2. [done] `Validation`, `OpenApi`, `OrmColumns` and `SqliteOrm`, composed in `ModelApi` and
   `ModelColumns`, with proofs; `Multipart` and `AssetDelivery`, composed in `AssetUpload`, with proofs.
3. The threaded path of `router.py`, where store and fetch of a cached instance are two steps.
4. The reader of `async_server.py`, whose timeouts are combined in another way.
5. Composition of `SovereignServer` with the task queue: `enqueue` from a request, `stop()`
   inside `shutdown()`.
