# A TLA+ model of ruby-pg

ruby-pg is the Ruby binding of libpq, the C client library of PostgreSQL. Most
of its methods wrap one call of libpq. What is ruby-pg's own, and what this
project models, is the code around these calls: the loops that connect, send
and wait without blocking the other threads of the process, the methods that
keep a connection usable whatever happens in a block or a wait, the ownership
of the memory that libpq hands out, and the coders and type maps between bytes
and Ruby objects.

libpq, the server and the Ruby VM are not in this repository. They are modelled
from how the code uses them, and marked as external in `PROJECT.json`.

- `tlc -config X.cfg M` runs the checks; `PROJECT.json` lists module and
  configuration of each run, and for each property a change of the model that
  breaks it.
- `tlapm M.tla` checks the proofs of a module `M` whose name ends in `Proofs`.

## Inventory

### Connecting (`lib/pg/connection.rb`, `ext/pg_connection.c`)

*State*: the options left (`iopts`), `poll_status`, the stop time,
`connection_errors`, the `PGconn` and the memoized IO object of its socket.
*Operations*: `Connection.new`, `reset`, `polling_loop`, `remove_current_host`,
`reset_start2`, `socket_io`, `connect_poll`. libpq walks through a list of hosts
of its own, and changes the socket under way; the Ruby loop adds the timeouts
that libpq's polling API does not have, by starting again without the hosts it
has tried.
*Hard*: two host lists that must not diverge, time that passes in and out of
waits, a socket that changes behind a memoized IO object.
*Correct if* it ends, never waits longer than the timeout per host allows, waits
on the socket of the current attempt, and gives up only after each host.

### Statements on a connection

*State*: libpq's protocol state, its input buffer, unread results, the
statement's number; on the other side the server's session.
*Operations*: `exec` and its siblings are `discard_results`, `send_*`, `block`,
`get_last_result` and a check of the result; the program may also call
`send_query`, `get_result`, `get_copy_data`, `put_copy_data`, `put_copy_end` and
`discard_results` itself, in any order, and stop in between.
`transaction` and `copy_data` call these methods around a block.
*Hard*: each wait may be left by an exception (`Timeout.timeout`,
`Thread#raise`, `Thread#kill`), the connection may break, and the cleanup runs
through the same protocol and may fail too.
*Correct if* the next `exec` is never refused and returns its own result, the
cleanup methods end, and neither a transaction nor a COPY is left open.

### Sending and waiting

*State*: output and input buffer of libpq, the socket's buffers, `flush_data`;
of a wait its purpose, the time of its end and what is left until then; the list
of notifications.
*Operations*: `send_query`, `async_flush`, `wait_socket_readable`, called by
`block` and `wait_for_notify`, `discard_results`, `setnonblocking`, `notifies`,
`consume_input`.
*Hard*: a server that does not read while it cannot write, a client that must
not do the same; one socket for answers, notifications and notices, so that
whoever reads it may read what another wait is for; a timeout that is computed
before a flush and used after it.
*Correct if* nobody waits for the other without end, no data is waited for that
was read already, a call keeps to its timeout and does not report one for what
has arrived, and each notification is handed out once and in order.

### Session attributes and large objects (`ext/pg_connection.c`, `ext/pg.c`)

*State*: in the `PGconn` the notice handlers, the trace file, the encoding and
the mode; in the Ruby object what is remembered of them (the handlers and the
defaults they replaced, `trace_stream`, `enc_idx`, `flush_data`, and which
methods `setnonblocking` has put in place).
*Operations*: `set_notice_receiver`, `set_notice_processor`, `trace`, `untrace`,
`set_client_encoding`, `internal_encoding=`, `set_default_encoding`,
`setnonblocking`, the `lo_*` methods (which switch to blocking mode and back),
`reset`, `sync_reset`, `reset_start`, `finish`.
*Hard*: two copies of one attribute, and a reset that replaces one of them.
*Correct if* notices reach the handler that was set, strings get the encoding
they are sent in, `isnonblocking` tells the truth, and a trace never goes to a
descriptor that was closed.

### Cancelling (`ext/pg_cancel_connection.c`, `lib/pg/cancel_connection.rb`)

*State*: the `PGcancelConn`, its state and socket, and the IO object of it.
*Operations*: `Connection#cancel`; of a `PG::CancelConnection` `start`, `poll`,
`cancel`, `sync_cancel`, `socket_io`, `reset`, `finish`, garbage collection.
*Hard*: the same polling loop as for connecting, over a socket that each poll
may replace; methods that may come in any order, and twice.
*Correct if* success is reported only for a request that was sent, the
`PGcancelConn` is freed once, and no closed socket is waited on.

### Results and tuples (`ext/pg_result.c`, `ext/pg_tuple.c`)

*State*: the `PGresult` pointer of each `PG::Result`, the `autoclear` bit, the
objects of tuples and streams; of a tuple its values, type map and result.
*Operations*: creation, `clear`, `freeze`, `each`, the streams, garbage
collection, the notice receiver; of a tuple access, iteration, dump and load.
*Hard*: who frees; C code that calls back to Ruby, where the same object can be
used again, and which an exception of that Ruby code leaves halfway.
*Correct if* each `PGresult` is freed once, none is read afterwards, and a tuple
that has released its result has all its values, each cast by the type map it
was made with.

### Coders (`ext/pg_*coder*.c`)

*State*: positions in the input and output, escapes under way, levels of arrays.
*Operations*: CopyRow and Array in text and binary format, Record, Identifier;
the scalar coders.
*Hard*: escaping in place from right to left, NULL markers that values can spell
as well, lengths that come from the wire.
*Correct if* every value comes back, and malformed text is refused without
reading outside of it.

### Type maps (`ext/pg_type_map*.c`)

*State*: hashes from OID or class to coders, a cache of 256 entries in front of
each, the default map behind each map, the map a result was fitted with.
*Operations*: adding and removing coders, setting the default, fitting to a
result, casting a value; garbage collection and compaction.
*Hard*: caches of bare pointers, keyed by addresses or by a few bits of an OID;
maps that change after they were fitted.
*Correct if* cache and hash agree, and casts only use live coders and columns
that exist.

### Query parameters (`ext/pg_connection.c`, the type maps, the scalar encoders)

*State*: a memory pool on the stack with the arrays for libpq and the encoded
values, a chain of chunks on the heap, an Array of Strings to keep alive.
*Operations*: `alloc_query_params` asks the type map whether it fits and for a
coder per parameter, and calls each encoder twice, for the size and for the
data. `exec_params`, `exec_prepared` and their `send_` variants start with it.
*Hard*: sizes are estimates; one counter stands for the pool and for the chunks;
a map by column relies on a check that the maps before it have to pass on.
*Correct if* nothing is written outside of the memory that was asked for, and
libpq reads what the encoders made.

### Not modelled

The C and Ruby parts that are one call of libpq or one formatting step each
(errors, escaping, scalar decoders, GVL wrappers, setup); pipeline mode, whose
state machine is libpq's; the tables of the basic type registry, which are filled
once. Of modelled components: the replacements of `rb_io_wait` for Windows and
old versions of Ruby, the cancel request that is written in Ruby for libpq before
PostgreSQL 17, COPY BOTH, and the checks for frozen objects. `PROJECT.json` gives
the reason for each under "components".

The repository's README excludes the use of one connection by several threads
at a time, so there is one call at a time in the model. Asynchronous exceptions
and the other end of the connection still interleave with it.

## Modules

| Module | Models | Used by |
|---|---|---|
| `PollingLoop` | connecting and resetting | `MCPollingLoop`, `PollingLoopProofs` |
| `QueryProtocol` | statements, COPY calls, discarding, libpq and server | `MCStatements`, `Transaction`, `CopyData`, `QueryProtocolProofs` |
| `SerialExec` | what `exec` promises: one statement after the other, each with its answer | refined by `QueryProtocol` |
| `Transaction` | `Connection#transaction`, on top of `QueryProtocol` | `MCTransaction`, `TransactionProofs` |
| `CopyData` | `Connection#copy_data`, on top of `QueryProtocol` | `MCStatements`, `CopyDataProofs` |
| `SocketFlush` | flushing and waiting with bounded buffers | `MCConnection`, `ConnectionProofs` |
| `SocketWait` | waiting with timeouts, notifications | `MCConnection`, `ConnectionProofs` |
| `NotifyQueue` | what `notifies` and `wait_for_notify` promise: a queue | refined by `SocketWait` |
| `SessionState` | notice handlers, trace, encoding, mode, large objects, reset | `MCConnection`, `ConnectionProofs` |
| `CancelConnection` | `Connection#cancel` and `PG::CancelConnection` | `MCConnection`, `ConnectionProofs` |
| `ResultOwnership` | who frees a `PGresult` | `MCResultOwnership`, `ResultsAndMapsProofs` |
| `RowScanner` | bytes, fields and the scanner that the row coders share | the coders |
| `CopyRowText`, `CopyRowBinary`, `RecordText`, `ArrayText`, `ArrayBinary`, `IdentifierText` | one coder each | `Codecs` |
| `Codecs` | any one of the coders at work, with their common properties | `MCCodecs`, `CodecsProofs`, `CoderTextsProofs` |
| `TypeMapByOid` | maps by OID and by column, chained and fitted to results | `MCTypeMaps`, `ResultsAndMapsProofs` |
| `TypeMapByClass` | the cache of the map by class | `MCTypeMaps`, `ResultsAndMapsProofs` |
| `TupleFields` | a `PG::Tuple` | `MCTypeMaps`, `ResultsAndMapsProofs` |
| `ScalarEncoders` | the scalar encoders, as sizes | `QueryParams` |
| `QueryParams` | `alloc_query_params` and the chain of type maps it asks | `MCQueryParams`, `MCTypeMaps`, `ResultsAndMapsProofs` |

Actions and operators have the names of the methods and C functions where one
corresponds to one. Where a method waits, it is split at the wait, and an
exception is an action of its own that is enabled at each wait. Where C code
calls back to Ruby (a block, a cast, a notice receiver), it is split at the
call, as any other method may run there. All else is one step: the GVL is held.

`QueryProtocol` joins libpq and the server on both ends of two channels:
`toSrv` for what was sent and `inbuf` for what came in. A statement has a
number, and what the server sends has the number of the statement it answers;
this is how a result of an earlier statement is told from a result of the
current one. Rows are not modelled.

`PollingLoop` represents `iopts` as the set of the entries that are left of the
host list, as entries are only removed. `Reported` says what `conn.host` and its
siblings return while libpq connects to a destination.

The coders work on bytes. An encoder is the text it writes, with the escaping in
place modelled as moves in a buffer of the size the code allocates; a decoder is
one step per byte or length, with the states of the C loop.

`ScalarEncoders` leaves out what is written and keeps how much: for each encoder
and value, the size of the first call, the length of the second, and the last
byte of the buffer that is written to. They differ where an encoder converts in
place (`ToBase64`, `FromBase64`).

`TypeMapByOid` names the maps of the program, and the ones that `fit_to_result`
makes after the result and the map they replace (`Built`), so that there is a place
for each of them without a limit on their number. A chain of default maps ends at
the map for strings; `Long` bounds its length, and an assignment that would close a
cycle is left out.

`SessionState` has two records, `lq` for the `PGconn` and `cn` for the struct of
the Ruby object, so that an action shows which of them a call changes. Three
history variables say what the properties except: `encBy` (the encoding was last
changed by someone who does not tell ruby-pg), `managed` (the mode was last set
by ruby-pg) and `asked` (the handlers set since the `PGconn` is there).

`SocketWait` counts time in ticks, which pass during waits and between calls. The
two places where `wait_socket_readable` looks at the clock are actions of their
own (`BeginWait`, `WaitBegins`), and so are the flush between the second one and
the wait that uses it, and the recheck after it.

Modules that share no state are checked in one run where this is cheap: in
`MCTypeMaps`, `MCConnection` and `MCStatements` the variable `side` chooses the
one that moves.

### Refinements

- `ExecIsSerial`: `QueryProtocol` implements `SerialExec`. What a program sees of
  `exec` (called, sent, answered) is mapped from the position in the method and
  the result it returns; the unread results, COPY states and discarded rows in
  between are stuttering steps. It contains what matters most about `exec`: it
  is sent only once the server has executed everything before it, so that libpq
  never refuses it, and it returns the answer to its own statement.
- `NotificationsQueued`: `SocketWait` implements `NotifyQueue`, with what is on
  the wire and in libpq's list as the queue. That reading from the socket moves
  notifications from one to the other is a stuttering step.

## Runs

| Run | Instance | What it shows |
|---|---|---|
| `polling_loop` | three distinct hosts in random order, 2 ticks per host, one poll per attempt, one tick outside of waits | No wait beyond the number of hosts times the timeout; waits are on the live socket and in the right direction; giving up means that each host was tried and is named; a host that timed out is not tried again; connecting ends. |
| `polling_respelled` | two hosts, one reported in another spelling | *Violation*: connecting never ends (see findings). |
| `statements` | 3 statements, 1 exception (in a wait or of an argument), 2 CopyData messages per statement, loss of the connection; `copy_data` with and without coder, default coder and binary format | `exec` is serial execution whatever was left behind; `exec` and discarding end if the server answers; when `copy_data` is left, the COPY is over and the coder restored; its rescue clauses end. |
| `transaction` | 4 statements (BEGIN, two of the block, COMMIT or ROLLBACK), 2 exceptions, 1 CopyData message | The transaction is over when the method is left; no COMMIT after an exception; the cleanup ends, even though statements of the block may run forever. |
| `copy_coder` | coder, default coder and binary format together | *Violation*: the default coder is lost (see findings). |
| `result_ownership` | 3 results, 3 `PGresult`s, notice receivers that return or raise | None is freed twice, reachable or read once freed; each has one owner to free it, but for those of raising receivers and constructors. |
| `result_each_clear` | 2 of each, `clear` within `each` | *Violation*: freed memory is read (see findings). |
| `connection` | a request of 5 chunks with 3 chunks of answer for each, buffers of 2 | The client never waits for an event that cannot come; requests end. |
| | (waiting) timeouts of -1, 0, 2 and none, 2 notifications, 1 notice, 1 query, 1 exception | Calls keep to their timeout, report it honestly and return; the notifications are a queue. |
| | (cancelling) a timeout of 2, 4 sockets | Any order of the calls: success means sent, freed once, no wait on a dead socket. |
| | (session) 2 handlers, 2 descriptors, three encodings of which two are one in Ruby | Handlers, encoding, mode and trace agree with the `PGconn` through any order of calls and resets. |
| `session_reset` | the same, with `reset` in nonblocking mode | *Violation*: `isnonblocking` does not tell the truth (see findings). |
| `codecs` | values and texts of up to 2 to 4 bytes over the special characters of each format; binary texts cut off and changed at each byte | Rows, identifiers and arrays come back, escaping in place fits, decoders stay in bounds, texts are read exactly: NULL is told from strings, malformed binary text is refused, arrays nest. |
| `type_maps` | two maps by OID, two by column, one cache entry, 4 changes; three classes at four addresses with two cache entries; a tuple of two columns with and without equal names, two threads, two calls at a time | Caches agree with the hashes, casts use live coders and existing columns, tuples are complete when they release their result. |
| | (the fourth side) up to four parameters, chains of up to three type maps, a pool of 64 bytes | Encoders keep to the size they asked for, what they write stays within pool or chunk and is intact when libpq reads it; a map by column is asked for its columns only. |
| `from_base64` | one parameter with `FromBase64` around `Bytea` | *Violation*: the element encoder writes past the buffer (see findings). |

### Why the bounds are enough

- *Hosts*: three are the least with a first, a middle and a last one, and so the
  least where a restart leaves more than one host in another order than libpq's.
  The theorems hold for every list.
- *Statements*: two are needed for one to meet what is left of another; a third
  one meets what discarding the first has left. MaxData = 1 gives a COPY with
  data before its end, 2 lets a block stop halfway.
- *Exceptions*: one in the block or its calls, and one more in the cleanup.
- *Buffers*: request and answer exceed what two buffers hold together, which is
  the case where both sides can be stuck.
- *Waits*: a negative timeout, none, one that ends at once and one with a tick in
  between; a notice wakes a wait up for nothing, and a second notification has a
  first one to overtake.
- *Session*: two handlers are needed to see the wrong one, two descriptors for
  one to be given away, and two names of one Ruby encoding for the two
  directions of the table to differ.
- *Results*: an object, the copy made for its tuples, and one more.
- *Codecs*: each state of the decoders is left within four bytes for each
  special character. Escapes of one byte affect the byte before and after.
- *Caches*: one entry makes every two OIDs collide; two slots for four addresses
  have classes that collide and classes that do not.

- *Parameters*: `QUERYDATA_BUFFER_SIZE` is 4000 in the code. With 64 bytes the
  arrays of four parameters with types (80 bytes) go to the heap, and one or two
  Floats, which ask for 23 bytes each, fill what the arrays of two or three
  leave. Three values are needed for one to overflow, one to go to the chunk
  and one to be placed behind it. The theorems hold for every pool size.
- *Integers*: at and around each power of ten and of two that TLC's 32 bits hold.
  `IntegerSize` grows by a digit with three bits, the text with 3.3 bits, so that
  small numbers are the critical ones. What `__builtin_clzll(0)` returns is
  undefined; `ClzOfZero` is the 63 that x86 gives. With any other value the size
  is at least the one byte that zero takes as well.

Deadlock is checked in `polling_loop`, where the program can always go on. In the
others the bound on statements or on time, the end of a text, or the supply of
objects lets the model stop; that client and server do not block each other is
`WaitsForSomething` and `RequestEnds`.

### Fairness

- `PollingLoop`: the loop's own steps, with the ticks of the clock. Nothing is
  assumed of libpq or the network: that a wait ends is due to its timeout.
- `QueryProtocol`: the client's steps, and a server that starts what it was sent,
  ends a COPY after the end of data, and gets ready. That it also finishes each
  statement is a premise of `CallEnds` (`ServerAnswers`), not of the other
  properties.
- `Transaction`, `CopyData`: the steps of the method, and a server that starts,
  ends a COPY after the end of data, gets ready after an error, and runs BEGIN,
  COMMIT and ROLLBACK. A statement of the block may run forever, and a COPY TO
  STDOUT may be endless: the cleanup has to end without their help.
- `SocketFlush`: the client's loop, and a server that reads and writes when it
  can. The server is not assumed to read while it has output.
- `SocketWait`: the steps of a call and, during one, the clock. Nothing is assumed
  of the server, so that a call without timeout may wait forever;
  `WaitReturns` says when it does not.

All of it is weak fairness: a thread that can run is run by Ruby's scheduler
in the end, and the kernel reports a readable socket as long as it is readable.

## Proofs

Every safety property of the passing runs has a theorem, but for that
about arrays (see the end of this section). A theorem holds for every
value of the constants that satisfies the assumptions of the module; where it has
an assumption of its own, this is said with it.

### Connecting: `PollingLoopProofs`

`PollingLoopProofs` proves for every host list, every timeout and every bound:

| Theorem | States |
|---|---|
| `TypeCorrect` | the type invariant, with no wait scheduled beyond the stop time |
| `TotalWait` | `TotalWaitBounded`: the waits together are at most hosts times timeout |
| `LiveSocket` | `WaitsOnLiveSocket` |
| `AllHostsTried` | `GivenUpAfterAllHosts` |
| `NotRetried` | `TimedOutNotRetried`, for lists without duplicates (`Distinct`) whose entries are reported as they were given (`FaithfullyReported`) |

The assumptions are those of `PollingLoop`: a host list that is not empty, times
and bounds that are natural numbers, and a connection that reports a destination
either as it was given or as something that is not in the list.

The arguments:

- *Time* (`TimeInv`). The bound on the sum of the waits is not inductive, as it
  says nothing about the wait under way. What is: waits add up to no more than
  the time since the loop was entered, the clock is not beyond the deadline
  during a wait, and deadlines are not beyond the stop time.
- *Socket* (`SocketInv`). Besides the state of the wait itself: the IO object is
  never that of a closed socket, since `reset_start2` closes it and
  `connect_poll` is preceded by dropping it; and at the top of the loop
  `poll_status` is what libpq asked for, which a restart has to see to itself.
- *Hosts* (`HostInv`). Ruby's list and libpq's list are shortened
  independently. Each entry is still in the list or its destination is known to
  have been tried, for both lists separately; "known" is the current one, the
  collected errors and libpq's own errors.
- *Retries* (`RetryInv`). No entry in either list is one of a destination that
  timed out, and past the top of the loop the current entry is not in Ruby's
  list any more. The two assumptions are needed exactly there: a duplicate stays
  in the list, and so does an entry that is reported differently.

### Statements: `QueryProtocolProofs`, `TransactionProofs`, `CopyDataProofs`

For any number of statements of any kind, of exceptions and of rows:

| Theorem | States |
|---|---|
| `ExecRefinesSerial` | `ExecIsSerial`, the refinement of `SerialExec` |
| `TransactionsEnd` | `TransactionClosed` |
| `NeverCommittedAfterException` | `NotCommittedAfterException`, if no statement of the block is a COMMIT |
| `CopiesTerminated` | `CopyTerminated` |
| `CodersRestored` | `CoderRestored`, without the combination of the finding `copy_coder` |

- *The connection* (`QPInv`). `SerialExec` is about the moments at which `exec`
  sends and returns. What makes them right is what can be on its way in between,
  in either direction (`StreamInv`): a statement is sent only when the server has
  nothing else to execute, but for ends of COPYs that it has given up (`Outgoing`);
  all that comes in belongs to the last statement, its final result stands right
  before ReadyForQuery, and nothing stands behind that (`Stream`); a client that is
  idle has taken all of it, and one that is not has something to wait for
  (`InStep`). `ExecInv` adds where in `exec` the client is: it sends on an idle
  connection only, and the result it keeps is the final one of its own statement
  when ReadyForQuery comes next.
- *The refinement*. Every step of client, server and program maps to a step of
  `SerialExec` or to a stutter, by the invariant of the state before it.
- *Transactions* (`TxInv`). COMMIT and ROLLBACK go through `exec`, and when that
  returns, the server has executed them, whether they succeeded or not (`Ended`).
  That nothing is committed after an exception needs to know where the COMMIT can
  come from (`CommitDecided`): the one that the method sends is sent after a block
  that has ended, hence the assumption on the block's own statements.
- *COPY* (`CpInv`). Each clause of `copy_data` relies on which COPY can be open: that
  of the method itself, as other statements of the block open none (`OnlyKind`);
  after its end no other begins among the results still to read (`Past`).

### The connection: `ConnectionProofs`

*Flushing.* `NeverWaitsForNothing` (`WaitsForSomething`) holds for every size
of request and answer and every capacity of the kernel buffers. No chunk gets lost
between the buffers (`Conserved`), and a client that waits for input alone has sent
everything (`Flushed`) and has looked at the answer since the last read (`Looked`):
what is missing from the answer is then still on its way.

*Waiting.* For every set of timeouts and every bound:

| Theorem | States |
|---|---|
| `WaitsEndInTime` | `WaitInTime` |
| `TimeoutsAreHonest` | `TimeoutHonest` |
| `NotificationsAreQueued` | `NotificationsQueued`, the refinement of `NotifyQueue` |

- *Time* (`WaitPlanned`). Between the flush and the wait, the time left that was
  computed before the flush ends the wait at the end of the timeout, plus what
  the flush has taken; hence the flush in `WaitInTime`.
- *Honesty* (`WaitsUnready`). The socket is waited on only when the recheck after
  the flush has failed, and nothing else fills the buffers of libpq meanwhile.
- That a variable is a number or `Forever` is written as an implication there, as
  the translation to SMT takes every member of `Int \cup {Forever}` for a number.

*Cancelling.* `CancelIsSafe` (`CancelSafe`) holds for every timeout and
number of sockets. The request was sent in those states of libpq from which success
is reported (`Dispatched`), a running cancel has its object to itself (`InUse`), and
the poll between two waits has a socket (`OnSocket`).

*Session.* For every set of handlers and descriptors, every
table of encodings and every default:

| Theorem | States |
|---|---|
| `NoticesArrive` | `NoticesReachHandler` |
| `EncodingKept` | `EncodingAgrees` |
| `TraceSafe` | `TraceToOwnFile` |
| `ModeAgreesAlways` | `ModeAgrees`, if `reset` is not called in nonblocking mode |

- *Handlers* (`HandlersKept`). A proxy is installed exactly if the program has set
  a handler in this `PGconn`; what is saved as the default was saved before a
  proxy was installed, and survives a reset, after which it is still right since
  libpq has one default only.
- *Mode* (`ModeKept`). `flush_data` and the methods in place go together; the
  assumption is needed in the one step where they part.
- *Records* (`Shape`). The provers need to know which fields the two structs have.

### Results, tuples, type maps and query parameters: `ResultsAndMapsProofs`

*Results.* For any number of results and objects:

| Theorem | States |
|---|---|
| `ResultsAreOwned` | `ResultsOwned` |
| `NeverUsedAfterClear` | `NoUseAfterClear`, if no block of `#each` clears the result it iterates over |

- *Owners* (`OwnInv`). No two objects have one pointer, and whoever has one is alive
  (`Held`, `Apart`). This is not enough: an object that does not free has a pointer
  that libpq lends, that a raising receiver left behind, or that was never completed
  (`Borrowed`), a lent pointer is held by the object of the notice alone and ends
  with it (`Lent`, `Noticed`), one left behind is held by nobody who would free it
  (`Stranded`; it may still be read, and never is freed), an object
  that was never completed is out of the program's reach (`Reached`), and a stream
  runs on an object that frees, and has none between two rows (`Streaming`).
- *Use* (`EachHolds`). The pointer that `#each` keeps is still that of its object.

*Tuples.* For any number of columns, with and without equal names, any number of
threads and nested calls, `TuplesComplete` (`DetachedComplete`) and
`TupleValuesAreFixed` (`TupleValuesFixed`). `DetachedComplete` is not inductive: a
call that is about to release the result has cast its columns one after the other,
with other calls in between. `Underway` says of every call on every stack which
columns are done by now; it is stable since values are only ever added.

*The map by class.* `ClassCacheCorrect` (`ClassCacheAgrees`) holds for any classes,
addresses and cache size. Two classes never have one address (`Placed`), so that an
entry belongs to one class and an empty entry to none. The exception for classes
that got other ancestors while cached (`reopened`) is part of the property.

*The map by OID.* For every cache size, any OIDs (0 included), and any number of maps
chained in any order:

| Theorem | States |
|---|---|
| `OidCacheCorrect` | `OidCacheAgrees` |
| `CodersReadAlive` | `ReadsLiveCoder`, with its exception for a hash that a copy shares |
| `ColumnsAlwaysFit` | `ReadsFitColumns`, with its exception for a default that was set since |

- *Shape* (`Wired`). The maps of the program are chained among themselves; what was
  built for a result is reached from that result only.
- *Caches* (`CachesAgree`, `CopiesAgree`). A cached coder is that of the hash, in the
  maps themselves and in the copies in use. `HoldsCoders`: hash and columns hold
  their coders, so that an agreeing cache has live coders.
- *Columns* (`FitsStill`). Every map by column that a result reaches has as many
  columns as the result.
- What a result reaches is the set of maps on the way through the defaults
  (`Linked`). That a walk of at most as many steps as there are maps finds all of
  them is a lemma of its own, by counting.

*Query parameters.* For every pool size, every list of parameters and every chain of
type maps:

| Theorem | States |
|---|---|
| `EncodersKeepContract` | `EncodersObey`, from `InputsOK` |
| `QpInvariant` | the inductive invariant, from which the next three follow |
| `WritesStayInside` | `WritesFit`, given `EncodersObey` |
| `ParamsReadIntact` | `ParamsIntact`, given `EncodersObey` |
| `ColumnsExist` | `AskedColumnExists`, given `EncodersObey` |
| `ParamsAreSafe` | the last three together, from `InputsOK` |

`InputsOK` says what a program can pass: Integers that fit into 64 bits and larger
ones, doubles with the digits and exponents that doubles have, Strings of any
length; and maps of any coders, without `FromBase64` around a coder that writes to
the buffer. The run `from_base64` shows what happens with it.

- *Contract*. The size of an Integer is estimated from the number of its bits, and
  its text has as many bytes as it has digits. Both are recursive functions; that
  the one is never less than the other is shown through a least counterexample:
  without its last digit a number is at most an eighth of what it was, three bits
  less. Sizes of Floats are a bound on digits and exponent; those of Bytea and
  Base64 are arithmetic of the length.
- *Memory* (`RoomLeft`). `WritesFit` is not inductive, as it says nothing about
  the next value. The code asks whether there is room in the pool even when it
  writes to a chunk; this is right because the chunk in use always has at least
  the room that the bookkeeping of the pool says is left: a chunk is only made
  when the pool has less room than the new chunk, and from then on both shrink
  by the same amounts.
- *Values*. Each value ends at or before the point where the next one starts, or
  is in an earlier chunk, and nothing in the pool lies on the arrays.
- *Columns*. All maps before the one that is asked in the first phase fit, and
  the second phase only starts when all of them do.

### Coders: `CodecsProofs`, `CoderTextsProofs`

For every value, every text, every delimiter and NULL string:

| Theorem | States |
|---|---|
| `CodersStayInBounds` | `CodersInBounds` |
| `ValuesAlwaysComeBack` | `ValuesComeBack`, for what a format can hold (below) |
| `TextsAlwaysReadExactly` | `TextsReadExactly` |

- *Escaping in place* (`EscapeRoom`). The room between the two pointers is the number
  of bytes still to escape to the left of them; each move takes as much of one as of
  the other (`MarkedLast`), and leaves the bytes to the left alone. That the room is
  right at first is a count over the string where it was copied to (`MarkedMoved`).
- *Escape sequences* (`EscapeForward`). The text decoder of COPY takes up to four
  bytes at once, but goes on over bytes only that are not the NUL behind the text.
- *Lengths* (`BinaryInv`, `BinArrayInv`). A length is compared with what is left before
  it is used. That the number of dimensions is at most six has to be carried from
  the step that checks it to the one that multiplies with it.
- *Encoded texts* (`Base`). The decoder starts on whatever the encoder wrote, which is
  a sequence of numbers: for binary arrays this needs that their sizes are numbers
  (`BinArraysNested`), which TLC evaluates.

What a format can hold is an assumption of its module. `CopyReadable`: the delimiter
is not a letter or digit of an escape, and the NULL string is either a backslash
and a character that is no escape (`\N`), or free of delimiters, newlines and
backslashes and not one of the strings in the rows. With a letter as delimiter, which
PostgreSQL refuses, an escaped delimiter would be read as another byte; with a row
that has the NULL string in it, that string is NULL. `RecordReadable`: no NUL in a record.
`BinaryReadable`: rows with at least one field, and fields of less than 1 GiB.
`IdentifierNames`: names are strings. `ArrayReadable`: arrays are properly nested
(`Arrays`: one array, whose brackets match), have no NUL in their strings, and their delimiter is no
quote, brace, NUL or letter of NULL, since `NULL` is written and compared without quotes.

- *Layout* (`Layout`, `Laid`). A text is a sequence of tokens, each with what leads it,
  its bytes with their escapes, and what trails it. `at[k]` is where token `k` starts
  and `pos[k][m]` where its byte `m` ends. An encoder has laid out the tokens before
  the current one (`TripsInv`). While a field is escaped in place, its bytes to the
  right of the write pointer are laid out and those to the left of the read pointer
  are as they were copied (`Moving`); the two meet since the room was counted
  (`EscapeRoom`).
- *Following it* (`Spot` and the like). A decoder that has read `k` fields and `m` bytes
  is at `pos[k + 1][m]`, and its word is the first `m` bytes of the field. So what it
  sees there is what the encoder wrote: a byte, its escape, or the end. NULL is
  decided on the raw text; that no string is taken for NULL is where the assumption
  on the NULL string is used, and that its raw text differs from `\N` uses that a
  backslash is always written as two.
- *Arrays* (`ArrayTrip`). The text of an array is a layout, too, with the brackets as
  tokens of their own; the start quote of a string, which is written when its
  escapes are in place, and the end quote lead and trail its bytes. The decoder is
  about to read a token, within the bytes of an element or behind its end quote, or
  behind a subarray (`ReadingAt`), and has read the tokens before (`ArraySpot`). The flag that means
  both an escape and a subarray just read does no harm since only a delimiter or a
  closing bracket follows a subarray. That the innermost call ends where the array
  does uses that the stack of calls is as deep as what was read (`NestInv`). NULL is told
  from a string since the encoder quotes all strings that spell it, in upper or lower
  case. The encoder raises where it comes to an element, or an empty array, that is
  not as deep as its `dimensions`, and nowhere else; nothing it writes is
  refused by the decoder (`ArrayRefusals`).
- *Exact texts* (`TextsInv`). For texts that no encoder wrote there is no layout. The
  binary decoder has read a prefix that is the encoding of the fields so far; when
  it stops at the end, the text is the encoding of the row, and it stops with an
  error only where no row has the text (`BinaryExact`, `BinaryAccepts`). The text
  decoder of COPY looks at a byte after it skipped an escape; the reference counts
  the backslashes before it. By the parity of their number (`EscapedNext`) both agree on
  which delimiters end a field, and so far as many fields are cut off as the
  reference has ends (`CopySplit`). Arrays: the stack of calls is as deep as the nesting of what was
  returned so far (`NestInv`).
- *Induction*. The fields of a row and the backslashes before a byte are counted by
  recursive functions of a number. What needs induction on that number is shown
  for the least counterexample (`WFMin`, from `WellFoundedInduction`), as the
  induction rules of the library take an operator that the provers cannot instantiate.

### Only checked by TLC

- Liveness (`ConnectingEnds`, `CallEnds`, `CleanupEnds`, `RescueEnds`, `RequestEnds`,
  `WaitReturns`), which the prover does not reach.
- `BinaryArraysFit`. The layout of a binary array has sizes and counts that are
  products of its dimensions, and its items do not tell where a subarray ends: the
  decoder finds that from the number of items so far. What is proved of
  it is that the decoder stays inside of its text.

## Findings

Five runs show a disagreement between what the repository says and what the
code does:

- `polling_respelled`: `remove_current_host` finds the current host by comparing
  with what libpq reports. If that is not what was given, no entry is removed,
  and after each timeout the same list is tried anew, although the comment says
  that the total time is not exceeded (`lib/pg/connection.rb:783`, `:851`).
- `copy_coder`: the binary header is sent before `old_coder` is saved. With a
  default encoder on the connection this fails, and the ensure clause sets the
  default encoder to nil (`lib/pg/connection.rb:223`).
- `result_each_clear`: `pgresult_each` keeps the `PGresult` over the block, which
  may clear it (`ext/pg_result.c:1422`).
- `session_reset`: `reset` sets `flush_data` again (`lib/pg/connection.rb:883`), but
  leaves the methods in place that `setnonblocking(true)` has put on the object.
  Afterwards `isnonblocking` returns true while `send_query` and its siblings wait.
- `from_base64`: `PG::BinaryEncoder::FromBase64` asks for the size of the decoded
  data, and then lets its element encoder write the text to be decoded to that
  buffer (`ext/pg_binary_encoder.c:531`). An element encoder that makes a String
  (the usual case) or none is not affected.

Met while modelling, without a run of their own:

- A destination that is listed twice is tried again after it timed out
  (`lib/pg/connection.rb:857`; `:949` says otherwise). `TimedOutNotRetried` is
  stated for lists without duplicates.
- A cancel over a Unix socket that runs into `connect_timeout` raises NoMethodError
  instead of returning a message: the host has no `hostaddr`, so that
  `remove_current_host` does not find it, and `PG::CancelConnection` has no
  `parse_connect_args` to restart with (`lib/pg/connection.rb:816`;
  `LoopTimeoutUnixSocket`). The `PGcancelConn` is left to the garbage collector.
- An encoder that is assigned to a prepended module is not found, if that module is
  the first of the ancestors: this one is skipped, as it is "expected to equal klass"
  (`ext/pg_type_map_by_class.c:53`; `Searched`).
- If `reset_start2` raises, the errors of the attempts before are lost
  (`lib/pg/connection.rb:816`).
- `discard_results` has no way out of COPY BOTH (`ext/pg_connection.c:3381`), and
  raises on a connection without socket where its comment announces false
  (`:3378`, `:3356`).
- In `copy_data` an error of `discard_results` replaces the exception of the
  block (`lib/pg/connection.rb:239`; `spec/pg/connection_spec.rb:1587`).
- The block of `set_notice_receiver` is called without protection
  (`ext/pg_connection.c:3000`, `ext/gvl_wrappers.h:91`). If it raises, or freezes the
  result so that `pg_result_clear` raises, the jump skips `pg_result_clear` and the
  frame of libpq that would call `PQclear` (`NoticeRaises`): the `PGresult` of an
  `autoclear?` result is never freed, while `ext/pg_result.c:419` says that it "will be
  cleared at the end of a callback". The memory is leaked, not reused, so that
  `NoUseAfterClear` holds nevertheless; `ResultsOwned` excepts these `PGresult`s
  (`abandoned`) from having an owner. Without the exception the run ends with
  `NoticeBegin`, `NoticeRaises`.
- `pg_new_result2` calls Ruby code before `autoclear` is initialised
  (`ext/pg_result.c:206`). `ResultOwnership` lets the bit have both values; the
  leak that is possible then is excepted from `ResultsOwned`.
- `lo_lseek`, `lo_import` and `lo_export` convert arguments between switching the
  connection to blocking and back: a `TypeError` leaves it blocking
  (`ext/pg_connection.c:4199`, `:4041`, `:4067`). `ModeAgrees` excepts it.
- `sync_reset` and `reset_start` with `reset_poll` leave `enc_idx` and the mode of
  the session before, and so does a `SET client_encoding` of the program itself or
  one that is interrupted. `EncodingAgrees` excepts them.
- After a reset, `set_notice_receiver` returns a Proc as the previous one that is
  not in effect any more (`ext/pg_connection.c:3050`).
- `trace` leaks the duplicated descriptor when `fdopen` fails
  (`ext/pg_connection.c:2961`), and `untrace` without `trace` raises NoMethodError
  (`:2982`).
- A wait flushes without a timeout of its own (`ext/pg_connection.c:2626`), so that
  `wait_for_notify(t)` may take `t` and the time of the flush. `WaitInTime` says so.
- An asynchronous exception when `gvl_PQnotifies` gets the GVL back loses a
  notification (`ext/pg_connection.c:2697`).
- Where two encodings of PostgreSQL are one in Ruby, `internal_encoding=` and
  `default_internal` choose the last one of the table (`ext/pg.c:175`), e.g.
  EUC_JIS_2004 for EUC-JP.
- On MSVC `count_leading_zero_bits` uses `_BitScanForward64`, which counts from
  the other end, and its last branch shifts an `int` by 63
  (`ext/pg_text_encoder.c:142`, `:147`). The model has the branch for GCC and
  clang.
- The type maps have three cases that the properties except, as TLC finds them
  violated without the exception: a default map that is set behind a map in use
  is not compared with the columns of the result (`refit`); a copy of a map by
  OID shares the hash of the original, but a coder that is removed from the
  original stays in the cache of the copy (`shared`); and a class that includes a
  module after it was cached, or is replaced by another class at its address,
  keeps the encoder from before (`reopened`).

## Limits of the modules

- *QueryProtocol*: COPY BOTH, pipeline mode and single row mode are left out. An
  exception in the arguments of a statement ends `exec` before it sends
  (`exec_argument_error`); the statements that `transaction` and `copy_data` make
  themselves have no arguments.
  Results have no memory here; `ResultOwnership` has them.
- *Transaction*, *CopyData*: one call of the method per behaviour. A cancel ends
  the running statement or comes too late; the second connection it takes is in
  `CancelConnection`.
- *SocketWait*: one query at a time, and time that passes in waits only.
- *SessionState*: what a program does to the IO object of a trace, and a
  `PG::Connection` that is copied or frozen, are left out; so are the type maps and
  coders of a connection, which only the Ruby object has. Notices are not lost, and
  their handlers return: after one that raised, libpq parses the notice once more.
- *CancelConnection*: one object at a time, initialized once, with the libpq of
  PostgreSQL 17.
- *ResultOwnership*: one `#each`, one stream and one notice receiver at a time. An
  access to a value is one step: an element decoder written in Ruby that clears the
  result, while the array around its element is being decoded, is not split off. A
  notice processor that raises leaves the `PGresult` of libpq behind, too, but there
  is no object for it.
- *Codecs*: rows have at least one field, and the coders of the elements are
  those of strings. The delimiter is neither a newline nor a backslash, nor a
  letter or digit that escapes use. Text arrays are not nested deeper than
  `dimensions`, and binary arrays nowhere deeper than along their first elements,
  since what is nested deeper goes to the element's encoder. More than six
  dimensions are only given to the decoder. A binary array without items comes
  back as `[]`. The text of NULL in CopyRow has no NUL byte, at which the `strncmp`
  of the decoder would stop. The text array decoder that does not raise may look
  past the end: at the NUL that Ruby keeps there, and further by one byte for each
  nested array that the text does not close, or for a missing left brace. What it
  finds there decides nothing, since no error is raised (`ArrayEnd`); the model has
  NULs there (`At`), and there is no bounds property for this decoder.
- *TypeMapByOid*: one of the two formats; chains of defaults without cycles, as
  a cycle is endless recursion in the code; no assignment to copies that a
  program got from `res.type_map`. A read beyond the columns is undefined in C
  and yields "no coder" in the model, after the property has seen it.
- *QueryParams*: the program does not change the Array of parameters or its
  Strings while the call runs, from a coder or proc of its own or from another
  thread while libpq reads; and `GC.compact` does not move Strings whose bytes
  are in the object. A coder that a proc returns is not collected before it is
  used. The OIDs in `types[]`, and coders of arrays and records, are left out.
- *ScalarEncoders*: Strings that `to_i` turns into a Bignum, `DB_LOCAL`
  timestamps and failing transcodings are left out.
- *TypeMapByClass*: only classes without subclasses change their ancestors.

## Plan

Done: the modules above. Next, in this order:

1. The basic type registry: the choice of array coders by the first element.
2. Pipeline mode, as far as `get_last_result` and `discard_results` meet it, and
   single row mode in `QueryProtocol`.
3. The composition of `CancelConnection` with `QueryProtocol`: a cancel that
   overtakes or misses its statement, also the next one on the connection.

Proofs to add:

- `Codecs`: `BinaryArraysFit`, which needs a layout of the items and the brackets that
  are between two of them as a function of the number of items so far;
- `QueryProtocol`: that `discard_results` on its own ends with an idle connection, as
  a theorem of its own and not only within `CopiesTerminated`.
