# TLA+ models of the MServer runtime

This directory holds TLA+ models of the concurrency and networking core of
MServer. The sources are under `src/`, and `spec.md` describes the intended
behaviour. Each module is translated from the code it names. `PROJECT.json`
lists the components, the TLC runs and their properties, the mutants, the map
from every definition to its source lines, the findings and the hazards.

## 1. Inventory

| Part (spec) | Source in `src/` | State | Operations | Status |
|---|---|---|---|---|
| Worker thread, C9 | `engine/src/lua_cpplib/lmongo.cpp` | `_query`, `_result`, the thread's run and busy flags, the wake bits for the main loop | `start`, `stop`, six submitters, `initialize`, `routine`, `do_command`, `uninitialize`, `busy_job`, `main_routine`, `on_ready`, `on_result` | modelled: `MongoWorker` |
| Chunked buffer, C3 | `engine/src/ev/buffer.hpp`, `master/cpp_src/net/buffer.h` | the chunk list; each chunk has `_used_pos` and `_free_pos` | `reserved`, `append`, `remove`, `check_used_size`, `check_used_ctx`, `get_used_size`, `add_used_offset` | modelled: `Buffer`, which refines `ByteStream` |
| I/O adapter, C7 | `engine/src/net/io/io.cpp` | the fd and the two buffers | `recv`, `send` | partly: as callers in `Buffer` |
| Backend, C4 | `engine/src/ev/ev_poll.inl` | `_fd_index`, `_poll_fd` | `modify`, `wait` | modelled: `PollBackend` |
| Reactor, C5 | not in `src/` | watchers, timers, the worker signal mask | `fd_event`, the tick, draining the wake mask | partly, from the spec: `PollBackend`, `MongoWorker` |
| Socket, C6 | `engine/src/net/socket.hpp` (header only) | status | `append`, `send`, `stop` | partly: `Socket::append` in `Buffer` |
| Packet framer, C8 | not in `src/` | | pack, on_readable | partly, from spec 4.6: `Pack` and `FramerConsume` in `Buffer` |
| Object pool registry | `engine/src/pool/pool.h` | `pool_stat[MAX_POOL]` | register and unregister | not modelled |
| Spin lock, C2 | not in `src/` | | lock, unlock | implicit: each locked region is one action |
| Async log | `engine/src/log/log.cpp` | the `_cache` and `_flush` lists, the context pools | `write_cache`, `allocate_one`, `set_ctx`, `swap`, `flush`, `flush_one_file`, `collect_mem`, `close_files` | partly: `AsyncLog`, which refines `LineQueue` |
| Lua class binding | `master/lua_cpp/lclass.h` | the class metatable, its `_notgc` weak table, the userdata | constructor, `cnew`, `push`, `gc` | partly: `LuaClass` |
| HTTP socket | `master/lua/lhttp_socket.cpp` | parser, `_cur_http`, `_cur_field`, `_old_field`, `_http`, `_upgrade` | parser callbacks, `is_message_complete`, getters, `next` | partly: `HttpSocket` |

How the parts interact:

- The Reactor's main thread calls `backend.wait()`, which calls `fd_event` for each ready fd.
- Socket callbacks run inside `fd_event`. They move bytes between the fd and the buffers through `IO::recv` and `IO::send`, frame messages, and may call `modify()` on any fd while `wait()` is still walking its array.
- Worker threads talk to the main thread only through their locked queues and the wake bits (`wakeup_main`). The Reactor drains those bits after the fd events of a tick.

## 2. Modules

### `MongoWorker.tla`

Models the database worker. MC module: `MCMongoWorker.tla`.

Variables:
- `query` and `result` are the two FIFOs. A query is abstracted to a sequence number and its `qid`.
- `wstate` is where the worker thread is: connecting, pinging, idle, routine, drain, command, failed or stopped.
- `busy` and `active` are the Thread flags.
- `main_ev` holds the posted wake bits. `main_pc` is where the main thread is inside `main_routine`.
- `submitted`, `delivered`, `consumed` and `ready_calls` are history variables for the properties.

Actions:
- Each region the code runs between `lock()` and `unlock()` is one action.
- `do_command` runs unlocked, between `RoutineTake` and `DoCommand`.
- `on_result` runs unlocked, between `MainPop` and `MainOnResult`.
- `Submit` is enabled while the main thread is idle or inside a callback, so Lua may submit from inside `on_result`.
- The Thread base class and the Reactor's mask handling are not in `src/`. `WorkerWake`, `Start`/`Stop` and `MainClearMask` follow spec 4.4 and 4.8.
- The variable `mask_first`, chosen at start from the constant `MaskOrders` and fixed for a behaviour, says when the Reactor clears the wake mask:
  - FALSE follows spec 4.4 step 5: call `main_routine(bits)`, then clear the mask.
  - TRUE takes the bits and clears them before calling `main_routine`.

### `ByteStream.tla`

The abstract promise of a buffer (spec 4.3): a FIFO of pending bytes.
- `Put` appends bytes.
- `Take` moves a prefix of the stream to `out`.

### `Buffer.tla`

Models one buffer and its callers. MC module: `MCBuffer.tla`.

Variables:
- `chunks` is a sequence of `[beg, data]`. `beg` is `_used_pos`. `data` is the used region, so `_free_pos = beg + Len(data)`. The dead bytes before `_used_pos` are never read again and are not kept.
- `out` records every byte handed to `::send` or to the framer's sink.
- `crashed` records that `remove()` dereferenced a null `_front`.

Definitions:
- The chunk and buffer operators are one each: `Reserved`, `AppendLoop`, `RemoveLoop`, `CheckUsed` and `CopyLoop`. The loops are `RECURSIVE`.
- `remove` and `append` come from `master/cpp_src/net/buffer.h`, because the engine's `buffer.cpp` is not in `src/`.
- The callers are `SocketAppend`, `IoRecv`, `IoSend`, `Pack` and `FramerConsume`.
- `SpanMessages` says whether the framer may ask for a message that spans chunks.
- `RefinesByteStream` checks `INSTANCE ByteStream WITH stream <- Content(chunks)`.

### `PollBackend.tla`

Models the poll backend. MC module: `MCPollBackend.tla`.

Variables:
- `fd_index` is `_fd_index`. It keeps the code's values: -1 or a 0-based slot.
- `poll_fd` is `_poll_fd`. Slot `i` of the code is `poll_fd[i+1]`.
- `stale` is the storage past `size()` that `pop_back` left behind, nearest first: the popped entries' `fd` and `revents`. `resize` overwrites the first of them. The walk reads `Storage == poll_fd \o stale`, live slots first, then stale ones.
- `interest` holds the Reactor's watcher masks. These are the `old_ev` values it passes to `modify`.
- `phase`, `p` and `ev_count` are the state of `wait()`'s pointer walk.
- `ready` and `dispatched` are history variables for the current `wait()`.

Actions:
- `Modify` uses `ModifyTable`, which translates the registration, the events encoding and the swap-remove of `modify()`.
- `Poll` fills `revents` with any subset of each slot's events plus hangup.
- `ScanSkip`, `ScanDispatch` and `CallbackReturn` are the steps of the `for` loop. Between `ScanDispatch` and `CallbackReturn`, the callback may call `Modify`.
- Once the walk passes `_poll_fd.size()` with `ev_count > 0`, `ScanSkip` and `ScanDispatch` read the stale entries, as the build does: a popped entry's bytes stay where they were.
- `ScanOverrun` is the step where the walk passes the stale entries too. That storage is uninitialised, and the model stops there.

### `AsyncLog.tla`

Models the double-buffered log. MC module: `MCAsyncLog.tla`.

Variables and state:
- `cache` and `flushq` are `_cache` and `_flush`.
- An entry keeps what `set_ctx` works with: its clamped `_len`, the index `term` where the terminator is written, and the pool `allocate_one` chose, and the file it goes to. `LOG_CTX_SIZE` is scaled from {64, 1024, `LOG_MAX_LENGTH`} to <<1, 2, 4>>.
- `files` is the set of paths whose `FILE*` is open in `_files`. `out` records every line `flush` handled, with whether the whole line reached the file.

Actions:
- `WriteCache` is the main thread's step.
- `Swap`, `FlushOne`/`FlushEnd` and `CollectMem` are the log thread's steps, in that order. The AsyncLog driver is not in `src/`. This order is what the comments of the three functions describe: `flush` runs on the log thread, and `swap` and `collect_mem` run under the caller's lock.
- `FlushOneFile(p)` is `flush_one_file` with `flush_one_ctx`, as the set of outcomes it can have. A cached `FILE*` is reused. Otherwise `fopen` may fail: the `NULL` is cached, the function returns false, and `flush` still marks the line done, so the line is lost. `fwrite` errors are logged and ignored, so they lose the line too.
- `CloseFiles` is `close_files`. No code in `src/` calls it, so it may run between any two rounds of the loop.
- Formatting and the copy to stdout are left out.

Abstract specification: `LineQueue.tla` is what the log promises its callers. `Accept` adds one line to the end of a queue, and `Hand` passes the oldest line not yet handed on, under weak fairness. `RefinesLineQueue` checks `INSTANCE LineQueue WITH lines <- Lines, handed <- ids of out`. `Lines` is the non-empty lines in `write_cache` order. A zero-length line is a stutter of the queue, because `flush` skips it. A line lost to a failed `fopen` or `fwrite` is still handed on, with `ok = FALSE`: the code's policy is to drop it, not to retry it.

### `HttpSocket.tla`

Models the HTTP socket of the master tree. MC module: `MCHttpSocket.tla`.

Variables and state:
- `stream` is what the peer sends: a list of messages (url, headers, body, whether it asks for an upgrade) and bytes after them. `wire` is that stream as tokens, one per byte, each tagged with the part of the message http_parser sees it in.
- `cur_field`, `old_field`, `cur_http`, `http` and `upgrade` are the members of the same names. `p_upgrade` is `http_parser::upgrade`.
- `pos` counts the bytes read and `consumed` the bytes the parser took. `seen` records what Lua read through the getters before each `next()`.

Actions:
- `Recv(k)` is a read of `k` bytes followed by `is_message_complete()`. `Execute` feeds the parser one token at a time into the callbacks (`AppendUrl`, `AppendCurField`, `AppendCurValue`, `AppendBody`, `OnMessageComplete`). Two successive calls of one callback act in this code as one call with the joined text, so this covers every way http_parser and the read boundaries can cut the text.
- `LuaNext` is Lua reading the front message through `get_url`, `get_head_field` and `get_body` and dropping it with `next()`. `next(peek)` and the other getters change nothing.
- `FairSpec` assumes weak fairness on reads and on `LuaNext`. The Reactor polls level-triggered, so a socket with bytes pending is read. The script's message handler is assumed to read every message while `is_message_complete` returns 1; its caller, `lsocket::message_cb`, is not in `src/`.
- http_parser is an external library. Its behaviour is taken from its documentation: it stops after an upgrade request, after `on_message_complete`, and at a byte that is not HTTP; once `upgrade` is set it takes no more bytes. A `-1` return drops the connection (spec 4.6).

### `LuaClass.tla`

Models object ownership under the Lua class binding, for one class. MC module: `MCLuaClass.tla`.

Variables:
- `has_notgc` says whether the class metatable has the `_notgc` table.
- `uds` holds the userdata: the object, the pointer it holds, its `_notgc` entry, and whether it is live, unreachable or finalized.
- `owner` says who owns each object, following `push`'s comment: `cnew` and `push(gc = true)` give the object to Lua, and `push(gc = false)` leaves it with C++. `deleted` holds the objects `__gc` deleted.

Actions:
- `Cnew`, `Push` and `Gc` translate `cnew`, `push` (with the `_notgc` table `subtable` creates) and `gc`.
- `Push(o, TRUE)` hands `o` to Lua only while no userdata of `o` exists. This is a caller's obligation: an earlier userdata would dangle once `__gc` deletes the object.
- `Drop` is the script dropping its last reference.
- The Lua stack is not modelled. `push` and `cnew` address fixed stack indices, which assumes an empty stack on entry and no constructor arguments. Both are listed as hazards.

## 3. Runs

| Run | Expect | What it shows |
|---|---|---|
| `mongo_safety` | pass | Under both mask orders and every interleaving of submits (also from callbacks), the worker's lock hand-offs and `main_routine`: results reach Lua at most once, only for non-zero `qid`, in submission order (`FifoDelivery`); `busy_job() == 0` seen from the main loop means all work is handled (`QuiescenceSound`); `on_ready` comes before any `on_result` (`ReadyBeforeResult`). With the mask taken before `main_routine`, every query is eventually answered unless the worker failed or stopped (`AnsweredWhenClearedFirst`). |
| `mongo_lostwake` | violation | In the spec's order, an `S_DATA` posted after the drain loop found `_result` empty is cleared with the mask, and its result is stranded. |
| `buffer_safety` | pass | With framer messages in the head chunk: the buffer refines the FIFO byte stream; no interior chunk is empty; `check_used_ctx` returns exactly the first `len` bytes; no chunk is written past `MAX_CTX`: each chunk's free position `beg + Len(data)` stays within it (`TypeOK`). |
| `buffer_span` | violation | `remove(len)` of a message that spans chunks compares each chunk with the original `len`. With chunks of 1 and 2 bytes, `remove(2)` drops 3 bytes. |
| `buffer_assert` | violation | `check_used_ctx`'s `assert(used == len)` fails when a message ends inside a later chunk. |
| `log_safety` | pass | Lines shorter than `LOG_MAX_LENGTH` are handed to their files exactly once, in write order and eventually: the log implements the `LineQueue` specification (`RefinesLineQueue`). This holds even when `fopen` or `fwrite` fails and `close_files` runs between rounds. Every `set_ctx` terminator stays inside its context (`CtxInBounds`). |
| `log_overflow` | violation | A line of `LOG_MAX_LENGTH` bytes or more is given the largest context by `allocate_one`, and `set_ctx` writes `_context[len]` past its end. |
| `poll_safety` | pass | `_fd_index` and `_poll_fd` stay inverse (`IndexConsistent`) and equal to the Reactor's masks (`TableMatchesInterest`), also when `modify` is called from callbacks during the walk; the table and the stale storage past it never span more slots than fds (`TypeOK`). |
| `poll_overrun` | violation | `DispatchOnce`: with f1, f2 and f3 all ready, f1's callback deregisters f2, so f3 moves into slot 1 and is dispatched there. `ev_count` is still 1, so the walk reads slot 2 past `size()`, where the popped f3 entry still holds its `revents`, and calls `fd_event(f3)` a second time. |
| `http_safety` | pass | Whatever the read boundaries, which split urls, field names and values across callbacks and join messages in one buffer: what Lua reads through the getters is, message by message, what the peer sent (`MessagesIntact`). Every request a peer sends before any non-HTTP byte or upgrade is eventually read by Lua (`EventuallyRead`). |
| `http_upgrade` | violation | After a request that asks for an upgrade, `_recv.clear()` discards the bytes that follow it in the same read, and every later read, while the connection stays open. |
| `lclass_leak` | violation | `push(c1, gc = false)`, then `push(c2, gc = true)`, then the script drops `c2`'s userdata and the collector runs `gc()` on it. `gc()` finds the `_notgc` table and a nil entry for it, and returns without deleting `c2`. |
Every property of a passing run has a mutant in `PROJECT.json`: the mapped definition is replaced by a plausible bug, and TLC finds the property violated. Examples: dropping the `is_busy()` term of `busy_job`, dropping the re-index of the moved poll slot, and removing the whole front size after a partial send.

## 4. Bounds

- **MongoWorker**
  - Bounds: `Qids = {0, 1}` and 3 queries.
  - Two qids cover both fire-and-forget and callback queries.
  - Three queries let one query be in flight while another is queued and a third is submitted from a callback.
- **Buffer**
  - Bounds: byte values `{0, 1}`, chunk capacity 2, at most 4 bytes written in a run, appends of up to 3 bytes, and framer lengths 1 to 3.
  - Appends longer than a chunk split across chunks.
  - Partial sends, reservations that skip a partly filled chunk, and messages spanning two or three chunks all happen within these bounds. The violation traces are 3 to 4 steps long.
- **PollBackend**
  - Bounds: 3 fds, one `modify` per callback, and one `wait`.
  - Three slots are needed for a removal from the middle to move the last entry behind the walk and leave it in the stale storage as well.
  - The fds are model values under symmetry, which is sound because the model never orders or compares fds beyond equality.

- **AsyncLog**
  - Bounds: 3 writes to two files, with lengths 0 to 3 in the passing run and 0 to 5 in the overflow run, against context sizes <<1, 2, 4>>.
  - Three lines over two files reach a failed open followed by a successful retry of the same file, a file closed and reopened between rounds, and a failure on one file while the other is open.
  - These lengths reach every pool, zero-length lines (which `flush` skips) and the clamp at `LOG_MAX_LENGTH`.
  - Three writes let a line arrive while the previous batch is being flushed.

- **HttpSocket**
  - Bounds: three peers, and reads of 1 to 3 bytes. The first peer sends four requests; the request `M1` has a two-byte url, a two-byte field name and a two-byte value. The second peer sends two requests and then a byte that is not HTTP. The third sends an upgrade request and then two frame bytes.
  - With reads of 1 to 3 bytes, a read boundary falls inside every name and value of `M1` and between any two messages. A read can also hold the end of one message and the start of the next.
- **LuaClass**
  - Bounds: two C++ objects, one object the script creates, and three userdata. The leak needs two pushes and one collection.

## 5. Fairness

`MongoWorker`'s `FairSpec` assumes the following:
- Weak fairness on every step of both threads. The main loop keeps ticking, and the worker's wait has a timeout (`Thread::start(5000000)`).
- Strong fairness on a successful routine ping. This stands for "the database is reachable infinitely often". Without it, a database that never answers keeps queries queued, and the code does nothing about that (listed as a hazard).

`AsyncLog`'s `FairSpec` assumes weak fairness on the log thread's loop, which runs continually. A failed open is an outcome of that step, not a stall, so fairness holds under failures.

`HttpSocket`'s `FairSpec` assumes weak fairness on reads and on the script's handler (see its module section). The buffer and poll models are checked for safety only. `LuaClass` has only the leak run.

`mongo_safety` checks its liveness property only in behaviours where the Reactor takes the bits first (`mask_first`); the other order is the `mongo_lostwake` finding.

## 6. Not modelled

- The Reactor, Socket, framer, codecs, Thread and SpinLock code is not in `src/`. In `socket.hpp`, `CS_CLOSING` has the value of `CS_OPENED`, so `is_closed()` calls a closing socket open; `stop` and `close_cb`, which set and read the status, are only declared, so this is a hazard with no property. Only the parts of them the modelled code calls are modelled, from the spec.
- The pool registry (`pool.h`) is not modelled. Its failure is a count: one chunk pool, three log pools and two per `LMongo` fill the 8 slots at two `LMongo` instances, and how many the scripts create is outside `src/`. Its unlocked registration races a chunk pool first built on another thread, and that thread is outside `src/` as well. Both hazards are listed.
- In `lclass.h`, `def`, `set` and `tostring` only fill the metatable or format, and `fun_thunk` only reads the pointer. In `lhttp_socket.cpp`, the destructor and `accept_new` are not modelled. In `log.cpp`, only the formatting (`print_time`, `FORMAT_TO_SCREEN`) and the synchronous error loggers are left out.
- `reserved(len)` strands the back chunk's free space, which spec 3 (b) forbids. The code's comment above `reserved` accepts it, so no run treats it as a violation. `NoEmptyInterior` and `RefinesByteStream` check what must survive it.
- The master `buffer.h` chunked buffer does not compile (missing return types, and no `;` after its do-while loops). Its `chunk_t::append` copies to `_ctx`, not to the free position. Its `check_used_ctx` and `check_all_used_ctx` copy into the static `continuous_ctx[MAX_PACKET_LEN]` without checking the length. `Buffer` follows the engine's `buffer.hpp` where the two trees differ. Both defects are listed as hazards: the first is what `RefinesByteStream` rejects, and the second depends on the framer's length check, which is outside `src/`.
- BSON, Lua values and byte contents beyond two values are abstracted away. No property depends on them.

## 7. Plan for later sittings

1. A composition of `PollBackend` with buffer-owning sockets that close themselves from their read callback.
2. A worker model with `do_command` failures and a disconnect or reconnect path.
3. The pool registry (`pool.h`) as its own module, with the engine-side `LMongo` lifetime (`~LMongo`, lines 17-41) that registers and releases its two pools. `LuaClass` models the master tree's binding, so it cannot be composed with the engine's `LMongo`.
