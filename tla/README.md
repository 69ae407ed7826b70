# Verification of the lynks backend

TLA+ models of the backend server in `network/main`, TLC runs that check them on
small instances, and TLAPS proofs of what matters most. Paths are relative to
`network/main` of the repository unless they say otherwise; line numbers refer to it.

## 1. The system

The backend is one process with four threads:

| thread | runs | started in |
|---|---|---|
| main | `while (true) server.update(-1, true)` | `main.cpp` 41 |
| context | the server's `io_context`: accepting, reading, writing, every request coroutine | `network_server.hpp` 38 |
| Janus | the Janus client's own `io_context`: its sockets and timers, start-up, long poll | `janus_context.cpp` 24 |
| clean-up | `session_handler::cleanup_task` | `network_session_handler.cpp` 10 |

A request travels: client socket -> `connection::read_request` (context) -> the
shared `queue` -> `update` / `on_request` (main) -> a coroutine on the context:
`router` -> `user_service` -> `session_handler`, `user_repository` (MySQL),
`janus_repository` (Janus, over the Janus thread's sockets) -> `send_response` posted
to the context -> `write_response` -> client socket.

### Inventory

| component | state it keeps | operations | correct when |
|---|---|---|---|
| `session_handler`, `session_token` | vector of tokens, `mtx`, `cv`, `clean`, `panic_clean` | `new_session`, `validate_session`, `get_username_by_token`, `clean_inactive_sessions`, the clean-up loop, the destructor | a token lives `max_life_ms` after its last validation, belongs to the user that logged in, at most `max_sessions` are kept; a refused login leads to a sweep; the destructor returns |
| `queue<T>` | deque, `mtx`, `cv`, `cv_mutex` | `push_back`, `wait`, `is_empty`, `pop_front` | each item comes out once, in order; nobody waits for ever |
| `server_interface`, `connection`, `main` | `connected_clients`, the request queue, per connection: socket, `responses`, the pending read and write | accept, read, dispatch, `send_response`, write, disconnect | each request is answered at most once, writes of one socket do not overlap, handlers do not outlive their connection, a failing client harms itself only |
| `router`, `user_service` | none of its own, one coroutine per request | `/login`, `/create`, `/list_participants`, anything else | meetings need a login; the session outlives the request; each request ends |
| `user_repository`, `user`, `db_connection` | connection pool | `find_user_by_username` | a row, nothing, or an error within 15 s |
| `janus` client, `temporary_connection`, `request_mapper`, `janus_repository` | `session_path`, `videoroom_path`, long-poll socket, context | start-up, long poll, `send_request`, `stop` | start-up is orderly and ends; calls return; polling goes on and events reach the buffer |
| message classes | none | parse or throw | only complete bodies are accepted |
| `response_buffer` | `messages`, `waiters` | `push`, `wait_for_transaction` | an outcome goes to the call it is for, once; a push ends the wait for it, and every wait ends |
| crypto, common headers, scripts, containers | - | - | not modelled |

Hard behaviour: two locks and a condition variable in the queue; two atomic flags used
outside the mutex in the session handler; completion handlers with a raw `this`;
exceptions in handlers; coroutines that check a session and then await twice; time-outs
against late answers in the response buffer, on two threads; a Janus that answers
anything or nothing. `PROJECT.json` lists each hazard with its line and property.

## 2. The modules

| module | models | refines |
|---|---|---|
| `SessionHandler` | session handler, tokens, clean-up thread, clock | `SessionStore` |
| `SessionStore` | abstract: tokens that run out | |
| `RequestQueue` | the queue, lock by lock, as the server uses it | `Channel` |
| `Channel` | abstract: first in, first out | |
| `HttpServer` | server, connections, main loop, from the start on | `Exchange` |
| `Exchange` | abstract: the way of a request from its arrival to its answer | |
| `UserService` | router, service, repositories; its sessions are an instance of `SessionStore` | |
| `Backend` | `HttpServer` and `UserService` together: a request's coroutine is its service | both of them |
| `JanusMessages` | the requests the message classes build and the bodies they accept | |
| `JanusClient` | context, start-up, long poll, requests, destructor; uses `JanusMessages` | |
| `ResponseBuffer` | the buffer, container access by container access | `Mailbox` |
| `Mailbox` | abstract: an outcome is handed over at most once, unless it went astray to a call of its transaction | |
| `SessionHandlerProofs`, `RequestQueueProofs`, `HttpServerProofs`, `UserServiceProofs`, `JanusClientProofs`, `ResponseBufferProofs`, `BackendProofs` | theorems about the modules they are named after | |
| `ExchangeProofs` | where each request is, and that `HttpServer` implements `Exchange` | |
| `MC...` | instances for TLC | |

The modules meet at these seams. `UserService` includes `SessionStore`'s actions and
`SessionHandler` implements that module, so the service is checked over the promise and
the handler against it; that the service asks no more of it is `ServiceUsesStore`. `HttpServer` takes the queue as a sequence, whose locks
`RequestQueue` has; `RequestQueue` is shown to implement `Channel`. `HttpServer`
leaves open what the router does (answer or throw) and assumes that it ends;
`Backend` composes the two modules, and there both follow from the service; it is
proved to do nothing that one of its parts does not do, so that what is proved of the
parts holds of it.
`JanusClient` keeps the buffer as a sequence; `ResponseBuffer` has its containers.
Those two are not composed: in the code no message gets from the one to the other
(run `janus_events`), so `push` would never be taken.

### State and actions

An action is a call that runs wholly under one lock, one completion handler, the part
of a coroutine between two awaits, or, where threads share state without a lock, one
access. Names are those of the source. What differs:

* **SessionHandler.** `sessions` is the set of tokens in the vector (their order is
  never used); owner and time stamp are functions of the token. `pc` is where a caller
  is in the part of `new_session` that runs after `mtx` was released (41-43);
  `cleaner` is where the clean-up thread is in `wait_for` and its loop. `now` is the
  wall clock in ticks, the age is `% Word` as in the code's `uint64_t`. `generate_token`
  never returns the same token twice. `issued` and `unswept` are history.
* **RequestQueue.** The main thread stands for `wait`, `is_empty` and `pop_front` as
  called in `update(-1, true)`. `emplace_back` repeats `push_back`, the other members
  are not used on the shared queue.
* **HttpServer.** `peer` is the client's end, `socket` the server's; `ReadArrives` and
  `WriteArrives` complete an operation whose handler runs later, so that a socket may
  be closed in between. `Start` is `server.start()`; when it throws (`StartFails`),
  `main` returns through the destructor. `terminated` says that, or that an exception
  left `context.run()`. A connection is `Owned` while `connected_clients`, a queued
  request or a coroutine has a `shared_ptr` to it; a handler that runs for one nobody
  owns is undefined in the code and ends the process in the model
  (`HandlerOfDestroyed`). The erase of a client that has gone is two steps, the search
  by `std::remove` and `erase` up to `end()`: `end` is what the search has seen, and a
  client that the context thread accepts between the two may be erased with the rest.
  `raced` records that this could happen. `Erased` is what the search finds.
  A request leaves the queue with the step that ends its handling by the main thread.
* **Backend.** No state of its own. A request that is in `tasks` takes the steps of
  `UserService`; a step that answers or throws is also `CoroutineAnswers` or
  `CoroutineThrows`. All other steps of the server leave the service alone.
  `BackendSpec` is the composition, for the proofs; `BackendFairSpec`, which TLC runs,
  adds the fairness of the threads and timers.
* **Exchange.** One phase per request. "answered" covers the posted lambda and the
  queue of the connection: `send_response` only posts, and no caller can tell the two
  apart. The order of the answers is left open, as the code leaves it.
* **UserService.** `stage` is where a request's coroutine is; `waited` is the time in
  its present await. A query is one await (three in the code, 15 s), a Janus call one
  (four of 5 s and one of 30 s). `Rows` gives what the table holds per name: no row, a
  NULL column, values `validate_user` rejects, or a usable user.
* **JanusClient.** `step` is where a `send_request` is, `request` what it carries: a
  kind, a transaction and the path. `get_path` reads the two strings of the path on the
  server's thread, one after the other, while start-up assigns them on the Janus thread:
  `Call` is the first read, `ReadHandle` the second, and anything may fall between. Bodies are
  records with the fields the parsers read; a field is a value or missing. `known` is
  what Janus has: it answers with a room or an ack only to a path it knows, and forgets
  all when it restarts (`JanusDrops`). `Destroy` is `~janus` on the main thread.
* **ResponseBuffer.** An outcome is named by the call it answers, so that a message can
  be told from another with the same transaction. `thread` is the server's thread,
  which the segments of the waits share; `push` runs on the Janus thread, for
  `dispatch(strand, use_awaitable)` (`janus_response_buffer.cpp` 30) resumes a wait on
  its own executor and not on the strand, where root `README.md` 259 places all
  accesses. So a wait may erase the entry `push` has found (`Dangling`), and `push` then
  writes, signals and erases through an invalid iterator. The model takes these outcomes
  of each of the three: the freed memory is intact and leads to the old waiter (`Deliver`,
  `Signal`), or was given to the next one registered (`Emplace`); it leads to nothing of the program
  (`ReachesNothing`); the process ends (`Crash`). `pushed` and `stray` are history:
  what Janus has sent, and the outcomes whose entry was erased before they were written.
  `Mailbox` lets those, and only those, go to a call of another transaction or to nobody.

## 3. The runs

| run | instance | shows |
|---|---|---|
| `session_store` | 1 caller, 3 tokens, 2 places, life 2, tokens symmetric | `TypeOK`; the handler implements the store while the clock is not set back |
| `session_cleanup` | 2 callers, 1 token, 1 place, clock may step back by 1 | no refused login is forgotten (`RefusalRemembered`) and each is swept for (`RefusalSwept`); expired tokens go (`ExpiredErased`); the destructor returns (`JoinReturns`) |
| `queue` | 2 producers of 3 items, deadlock checked | lock order (`LockOwners`), no pop of an empty deque, `Channel` is implemented, `push_back` returns; an item whose push did not go unnoticed is pulled (`PulledUnlessMissed`) |
| `http_server` | one client with two pipelined requests, one with one | `EachRequestInOnePlace`, `OneWriter`, `DispatchedIsSettled`; the exchange is implemented (`ImplementsExchange`): a client's requests leave the queue in its order; a handler outlives its connection only if a client was accepted during an erase (`HandlersOwnTheirConnection`); otherwise only a client that has gone ends the process (`OnlyGoneClientsEndIt`) |
| `janus_client` | 2 calls, two ids, a Janus that may restart | start-up sets the paths in order, and what Janus acknowledges carries the whole path although a call reads its halves apart (`StartupOrder`); start-up ends (`StartupEnds`) and calls return (`ReturnsWhileRunning`) |
| `buffer` | 3 calls, two share a transaction | a call returns an outcome of its transaction unless it was written through an erased entry (`OwnTransaction`); `NoDeadWaiter`; no outcome is in two places, and in none only if its entry was erased (`OutcomeInOnePlace`), though it may be lost with a call that returned nothing; `WaitEnds`, up to a crash; the mailbox is implemented (`ImplementsMailbox`) |
| `service` | 3 requests, one usable and one NULL user, one session | `SessionOutlivesRequest`, `MeetingRestsOnLogin`, `OneCreator`; each request is answered, but for a login on a NULL column and a call of a stopped Janus client (`RequestEnds`) |
| `backend` | one client with two pipelined requests, a usable and a NULL user | a request is routed once and its response is on its way exactly when it was answered (`RoutedOnce`); what `http_server` assumes of coroutines holds while the Janus context runs (`CoroutinesEnd`); a stopped one holds meeting requests only (`OnlyMeetingsHang`) |

### Runs that find a disagreement

| run | the documentation | the code |
|---|---|---|
| `queue_lost_wakeup` | root `README.md` 346: requests are pulled from the queue | `network_queue.hpp` 91-96: a push between the test and the wait is not noticed; the request stays until the next |
| `http_read_failure` | `network_connection.hpp` 102: if the reading fails, the connection will close | 111, 117: `shutdown()` throws for a client that reset the connection, the exception ends the process |
| `janus_events` | `janus_context.cpp` 275: long-poll responses are added to the buffer | 300-303: every message passes for a keep-alive and is dropped. The property speaks of reads only, and the trace reads an event with the connection up |
| `janus_poll` | `janus_context.hpp` 98: continuously polls the Janus server | `janus_context.cpp` 262, 296: a dropped connection is only logged, and the task goes round on the dead socket for ever (this is the trace). The property also fails when a body that is no JSON throws outside the `try` (305) and ends the detached task |

### Bounds, and why they are enough

* Two producers, two callers or two calls give each pair of interleaved operations;
  a third adds an overtaking one (three items per producer, three requests, three
  calls in the buffer). Three tokens for two places fill the vector, refuse a login and
  let a place be used again.
* `MaxTime` bounds the clock: with a life of 2 and a clock to 3 a token is issued late,
  expires, is renewed just in time and is seen one tick after its end. `Word` = 16
  exceeds every time, as 2^64 does; a clock set back makes an age wrap in both.
* `MaxRequests` = 2 and 1 on two connections: pipelining on one, an independent client
  beside it. Bodies of requests do not matter to the server.
* In `service`, `MaxLife` = 3 with limits 1 + 1: the limits only have to be less than a
  life together, as 65 s are less than the 300 s of `max_life_ms`.
* `backend` has one connection with two requests: the requests of one client share
  its socket and its queue of responses, which is where one could hold up the other.
  With two connections the product of the two modules takes more than five minutes;
  `http_server` has them. Its limits are 0: an await ends within the tick it began in,
  and `service` has the clock.
* `janus_client`: two ids tell the session from the handle and an old session from the
  one after a restart; two calls overlap each other and start-up.
* A connection is used once; a new client of the real server is another connection.

### Fairness

Weak fairness of a thread's next step: the operating system runs threads that can run,
and an `io_context` runs its ready handlers. Two stronger assumptions. `SF(Timeout)` of
the clean-up thread: `wait_for` with a predicate waits for one deadline however often it
is woken. Strong fairness of the threads that take a mutex (`RequestQueue`) or share a
thread (`ResponseBuffer`): a mutex or thread that is free again and again is obtained at
last. Nothing is assumed of clients, of the database, of Janus, of spurious wake-ups or
of the clock; where they stay silent only the code's own time-outs are fair.
The second read of a call's path (`ReadHandle`) is fair as a step of the server's thread.
A read of the long poll is cancelled after 35 s (`ReadFails`), so the run
`janus_poll` is no matter of a task that merely waits. `WaitEnds` allows a crash
through an erased entry in place of the end.

`HttpServer` assumes that every coroutine ends. `Backend` does not: it assumes only that
the timers of the database and of a running Janus context fire, and derives that
assumption (`CoroutinesEnd`) up to the case in which it is false, a stopped Janus
context (`OnlyMeetingsHang`).

Actions that nothing obliges (a call, a push, a client, the destructor) have no fairness.

`CHECK_DEADLOCK FALSE` stands where the model really ends: the handler is destroyed,
all calls have returned, the clients have gone, the process has terminated. `queue` checks deadlock: its main
thread can always be woken, spuriously if by nothing else.

## 4. The proofs

TLAPS proves these for all values of the constants. The named assumptions on them
(`SetsAssumption`, `NumbersAssumption`, `ThreadsAssumption`, `MaxPushAssumption`,
`ServiceAssumption`, `LimitsAssumption`, `NoneAssumption`, `MaxRequestsAssumption`,
`ClientAssumption`, `BufferAssumption`, `BackendAssumption`) are evaluated by TLC on the runs of their module.

**`SessionHandlerProofs`**

| theorem | states | argument |
|---|---|---|
| `TypeCorrect` | `Spec => []TypeOK` | `TypeOK` is inductive; the cardinality conjunct needs that `sessions` is a finite subset of `Tokens` and that a token is added only below the limit |
| `RefusalNeverForgotten` | `Spec => []RefusalRemembered` | not inductive alone: clearing `panic_clean` would break it for a caller refused before. `RefusalInv` says that for each unswept caller past the raising the flag is up, and that while the clean-up thread is about to clear the flag (`cleaner = "clear"`) nobody is unswept: a login is refused under `mtx`, which the thread holds from the sweep to the clearing |
| `HandlerImplementsStore` | `MaxStepBack = 0 => (Spec => ImplementsStore)` | step by step: each call maps to the store's, a tick to `Elapse`, a sweep and every step of the threads to a stutter. `StoreInv`: no time stamp lies in the future, so the unsigned age is the plain difference, and a refused caller found `MaxSessions` tokens issued |

The hypothesis `MaxStepBack = 0` is needed: after a step back the unsigned age wraps
and a live token ends early, which the store does not allow.

**`RequestQueueProofs`**

| theorem | states | argument |
|---|---|---|
| `TypeCorrect` | `Spec => []TypeOK` | together with `NeverPopsEmpty`, because an empty deque has no front |
| `PopsAreSafe` | `Spec => []NeverPopsEmpty` | inductive: producers only append, and the main thread, which saw an item, alone takes |
| `LocksAreNested` | `Spec => []LockOwners` | inductive: each step that changes a thread's place changes the lock it names |
| `QueueImplementsChannel` | `Spec => ImplementsChannel` | a push appends to `popped \o q`, a pop moves its border by one, every other step is a stutter |

**`UserServiceProofs`**

| theorem | states | argument |
|---|---|---|
| `TypeCorrect` | `Spec => []TypeOK` | `TypeInv` adds that a query is for a name and a live token has an owner: the owner read after a validation is then no empty optional |
| `SessionOutlives` | `Spec => []SessionOutlivesRequest` | `LivesInv`: in the first await, what its session has left and what the request has waited make a whole life; in the second, they and one `DbLimit` do. No call shortens a session, time takes from the one what it gives to the other, and `DbLimit + JanusLimit < MaxLife` leaves something |
| `MeetingsRestOnLogins` | `Spec => []MeetingRestsOnLogin` | `RestInv`: every live session has a login that was answered with its token and named its owner, and a meeting request that passed the check keeps such a login to its answer. An answered request never moves again, so a login, once there, stays |
| `RoomsAreCreatedOnce` | `Spec => []OneCreator` | `RoomInv`: a request answered with a room was served by Janus, which is before its answer is read; of two creates the second was served when the room was there and got a plugin error, which the response class rejects |

`ServiceUsesStore`, `Spec => Sessions!Spec`, needs the same `TypeInv`: a session is
issued to a name, never to an empty optional, and between two awaits a handler makes one
call that changes the store. With `HandlerImplementsStore` this closes the seam between
the two components.

**`HttpServerProofs`**

| theorem | states | argument |
|---|---|---|
| `TypeCorrect` | `Spec => []TypeOK` | `ServerInv` adds that nothing is read, written or routed of a connection that was never accepted (`FreshInv`), that the queue has the request that is being taken and that a running write has its response (`StepInv`) |
| `WritesDoNotOverlap` | `Spec => []OneWriter` | in `ServerInv`: the posted lambda starts a write only for a queue that was empty, the write handler only for what is left |
| `HandlersAreSafe` | `Spec => []HandlersOwnTheirConnection` | `KeptInv`: unless an erase has raced, `connected_clients` keeps every connection there has been, since the search looks for a pointer that was reset |
| `EndsForGoneClients` | `Spec => []OnlyGoneClientsEndIt` | each exception that leaves `context.run()` is traced to a client that closed or reset; `ClosedInv`: a read outlives its socket only if a write failed, for want of the client |

**`ExchangeProofs`**

| theorem | states | argument |
|---|---|---|
| `RequestsAreInOnePlace` | `Spec => []EachRequestInOnePlace` | the property counts; the invariant does not. `PlaceInv`: each request `IsAt` one of seven places, nothing stands twice in `posted` or a queue of responses, a response waits on its own connection, and the requests of a client stand in the queue in the order of their numbers (`InOrder`), so nothing stands twice there either. Each action of the server `Moves` one request from one place to another, or none. `TimesDistinct` takes the count of a sequence back to membership |
| `ServerImplementsExchange` | `Spec => ImplementsExchange` | a move is a step of the phase (`MovesGoes`), except from `posted` to the queue of responses, a stutter. That no earlier request of the client is left unread or queued is `InOrder` |

**`BackendProofs`**

| theorem | states | argument |
|---|---|---|
| `CompositionIsServer` | `BackendSpec => Spec` | a step of a coroutine is an answer, an exception or, in between, no step of the server |
| `CompositionIsService` | `BackendSpec => Service!Spec` | the other way round; it needs that `tasks` holds requests only, an invariant of the server |
| `ServiceKeepsItsPromises` | `BackendSpec` implies `SessionOutlivesRequest`, `MeetingRestsOnLogin`, `OneCreator` of its service | from `UserServiceProofs`, whose assumptions on the constants follow from `BackendAssumption`. `Proved` is that module over the constants of `Backend`; the lemmas `Same...` say that its actions are those of `Service` |
| `ServerKeepsItsPromises` | `BackendSpec` implies `OneWriter`, `HandlersOwnTheirConnection`, `OnlyGoneClientsEndIt`, `EachRequestInOnePlace`, `ImplementsExchange` | from `HttpServerProofs` and `ExchangeProofs` |
| `RequestsAreRoutedOnce` | `BackendSpec => []RoutedOnce` | `StageInv`: the stage of a request fits its place (`Fits`): new until it is dispatched, in an await only while it runs, answered from the posted lambda on. Neither half is inductive without the other: that a routed request is not routed again needs that it has left `tasks`, and that needs `PlaceInv` |

**`JanusClientProofs`**

| theorem | states | argument |
|---|---|---|
| `TypeCorrect` | `Spec => []TypeOK` | `ClientInv` adds that a request that has returned has a result (`ReturnedInv`): the id that becomes a path is then of a body the constructor accepted |
| `StartupIsOrdered` | `Spec => []StartupOrder` | `PathInv`: each half is assigned once, so a half that a call has read is missing or the client's, whatever falls between its two reads; Janus acknowledges a request only if its path is `Whole`; whatever Janus does leaves paths and requests alone |
| `EventsAreLost` | `Spec` implies that the buffer stays empty and that no acknowledged request gets its event | what `push` would be given, a message, is what `keep_alive_message` accepts (`KeepAliveTakesAll`). The run `janus_events` shows one lost event; here every one is, whatever Janus sends |

**`ResponseBufferProofs`**

| theorem | states | argument |
|---|---|---|
| `TypeCorrect` | `Spec => []TypeOK` | `WaiterInv` adds what `push` holds (`PushInv`): a sent outcome and, once it has found one, a waiter, whose entry stands and is the outcome's unless the outcome is `stray` |
| `TransactionsMatch` | `Spec => []OwnTransaction` | `TransactionInv`: waiters are registered under their own transaction, and answered under it unless the outcome is `stray` |
| `WaitersLive` | `Spec => []NoDeadWaiter` | a wait erases by key, so its own entry is gone when it returns, whosever that is; only a scan that found nothing adds one |
| `OutcomesAreInOnePlace` | `Spec => []OutcomeInOnePlace` | the property counts five places: with `push`, buffered, held by a waiting call, returned, lost with a call that was handed it and returned nothing. `PlaceInv`: each outcome sent is buffered, under way, `stray` or handed to a call, and no two calls were handed the same; with `OnceInv`, below, it is counted once. That an outcome reaches a caller is not stated, for it is false: it may be lost with its call |
| `BufferImplementsMailbox` | `Spec => ImplementsMailbox` | `HandInv`: a call is handed nothing before it waits in the map, and one that `push` is about to write to is unanswered and has no outcome, whether its entry stands, was erased, or its memory was given to the next waiter (`DanglingWaiter`). `OnceInv`: what is buffered or under way has not been handed, and no outcome is buffered twice. A scan that finds a message, a refused `emplace` and a wait that resumes map to `Return`, the last with an outcome that goes astray if `push` stood on its entry; `Deliver` maps to `Hand`; storing, signalling, erasing, what reaches nothing and a crash are stutters |

Model-checked only: liveness under fairness and `ENABLED`, which are beyond the prover
(`RefusalSwept`, `ExpiredErased`, `JoinReturns`, `PushReturns`, `PulledUnlessMissed`,
`DispatchedIsSettled`, `StartupEnds`, `ReturnsWhileRunning`, `WaitEnds`,
`RequestEnds`, `CoroutinesEnd`, `OnlyMeetingsHang`). Every invariant and every refinement
that a passing run checks is also proved; what the violation runs check is false.

## 5. Not modelled

* `server_interface::stop` and `~janus` after a start that succeeded: the main loop has
  no end, so they are reached only when the start fails (`StartFails`, `Destroy`).
* Torn accesses to objects that two threads share without a lock: `connected_clients`
  (`network_server.hpp` 71, 135) beyond the range that is erased, `session_path` and `videoroom_path` are read while
  start-up may write them (`janus_context.cpp` 137), a waiter's timer is awaited on one
  thread and cancelled on another (`janus_response_buffer.cpp` 15, 52), and the containers of the
  buffer are searched on one while the other changes them. The models have every order
  of such accesses, of the two reads of a path as well, not what a torn one reads; the
  use of an erased entry by `push` is the one case whose outcomes are modelled.
* `response_buffer::push` has neither `co_return` nor `return`. No message reaches it
  (see `janus_events`), so the buffer is modelled by what the body of `push` does.
* The participants in a list, and `create_room_response`, which nobody constructs.
* The order of responses to pipelined requests: the models have every order, as the
  code does, and no document promises one.
* The connection pool, Boost.Asio and Beast, MySQL and Janus, except by how they answer.
* Hashing, JSON text, HTTP headers, logging; `get_info` and `find_user_by_id`, which
  nobody calls.

* What becomes of a live session token when the clock is set back: the run
  `session_cleanup` has such a clock, but only `ExpiredErased`, `RefusalSwept` and
  `JoinReturns` are checked with it. `ImplementsStore` is false there and assumes the opposite.

Met while reading, without a run: a client accepted while the main thread erases may be
erased with the others (`network_server.hpp` 71, 134-135), and its pending read then runs
on a destroyed connection (the model reaches it, see `raced`); after a restart of Janus
every meeting request carries the old path until the backend is restarted
(`janus_context.cpp` 165); a client that has gone stays in `connected_clients`, for line 134
resets the pointer that `std::remove` then looks for (`network_server.hpp` 134-135), where root
`README.md` 346 has the server manage its clients' lifetime; accesses to the response buffer are not
serialized by the strand, whatever `README.md` 259 and `janus_response_buffer.hpp` 10 say
(`janus_response_buffer.cpp` 30, 57: the model reaches it, see `Dangling`); what is pushed between
the scan of a wait and its registration, or signalled before it has begun, does not end the
wait (33-55), where the header (48) has it wait until the message has been pushed; both
VideoRoom requests use the constant transaction `"test123"` (`janus_messages.cpp` 141, 232), where
`README.md` 238 speaks of unique identifiers, so that of two calls one may get the outcome of
the other; a NULL column throws out of `login_user`, which answers nothing
(`user_repo.cpp` 49-50; the model reaches it, see `NoUser`); a create that times out may have made the room, and its retry
then fails (`janus_messages.cpp` 141); `network/scripts/test_api.ps1` 77-82 posts the user
inside `"users"`, where `network_user.cpp` 24-25 reads top-level fields.

## 6. Plan

Order of work: the session handler (with its abstract store and proofs), the queue, the
server, the service, the Janus client, the buffer with its mailbox, and the composition
of server and service: all modelled and checked now. What is left:

* `user_repository` and the connection pool in detail: a query is one await, and a pool
  without a free connection only one of the ways in which it fails.
* `response_buffer` inside `JanusClient`, once messages reach `push`.
* Proofs for the next step: that `RequestQueue`'s channel is what `HttpServer` takes the
  queue for, with its producer and consumer in place of `requests`; the single-await
  query against its three awaits.
