# A TLA+ model of the chat servers

This directory holds TLA+ modules for the chat system of this repository, the
TLC configurations that check them and the TLAPS proofs about them. Line numbers
refer to the sources under `src/`; `PROJECT.json` maps every definition to its
lines.

## 1. The system

    client --TCP--> load balancer "fl" --TCP--> logic server
    logic server --TCP--> load balancer "ld" --TCP--> data server --> MySQL
    logic server, data server --UDP heartbeats--> load balancers

| Part | State | Operations | Interaction |
|---|---|---|---|
| data server, chats (`data_server.c`, `chat_manager.c`) | MySQL tables chats, chat_participants, messages; the locals of `handle_action` | CREATE_CHAT, ADD_TO_GROUP_CHAT, SEND_MESSAGE, GET_CHATS, GET_CHAT_MESSAGES, GET_CHAT_INFO, REMOVE_FROM_CHAT, EXIT_CHAT | one forked child per connection, one request each; children meet only in the tables, with no transaction |
| data server, users (`user_manager.c`) | table users | VALIDATE_USER, CREATE_USER, GET_USER_INFO | as above; a login is two requests on two connections |
| heartbeat daemons (`udp_lb_daemon.c`, `heartbeat_manager.c`) | per load balancer: send addresses, or OK | a datagram per second; OK and AUTH from the balancer switch the state | UDP |
| load balancer, health (`proxy.rs`) | per server: `is_up`, `addr_identifier`, `last_heartbeat` | `listen_for_heartbeats`, `check_heartbeat_expiry` | two tasks under one tokio Mutex, held across a sleep |
| load balancer, forwarding (`proxy.rs`) | `next_index`, one task per connection | choose a server that is up, connect, copy bytes, or answer 503 | reads the same list under the same lock |
| logic server, session (`logic_server.c`) | `current_request`: action, request, auth_state, key, database socket | local answers, token check and injection, forwarding, two-step login | one forked child per client; one connection to a data server at a time |
| logic server, cipher and tokens | the buffers it works in | `cesar_encrypt`, `cesar_decrypt`, `create_token`, `validate_token` | called on every read and every answer |
| queue library (`lib/queue`) | a linked list on the heap | enqueue, dequeue, first, reverse, clear, copy, destroy | used by the prototype only |
| prototype server (`server/server.c`) | `request_queue`, descriptors | accept, read, enqueue, fork, answer | the queue and the descriptors are copied by `fork` |
| cJSON | | | vendored |

What is hard here: children that interleave between any two statements; values
read in one statement and used after others; a child killed half-way; UDP loss,
duplication and restarts on either side; a lock held over a sleep; a server
chosen a moment before it goes away; a session whose only memory of what was
asked is one global record; loops that stop only at a `'\0'` in a buffer that is
used again; memory that runs out half-way through a loop; undefined behaviour
(double frees, uninitialised variables, overrun arrays) on ordinary paths. The
list, line by line, is `hazards` in `PROJECT.json`.

What makes each part correct:

- chats: rows never refer to something that is not there, a deleted chat stays
  deleted, an acknowledged message is stored, chats keep an admin, only admins
  remove, children exit;
- users: two accounts never share a name, a token is for the account whose
  password was compared, a known account is refused only for a reason;
- health: only identified servers with a recent heartbeat get traffic, live
  servers come (and stay) up, dead ones go down;
- forwarding: every connection is served in spite of the sleep with the lock,
  traffic goes round, a dead server is chosen only for a bounded time;
- session: a token only for a checked password, a right login refused only after
  a failure, no answer under the wrong request, the token's identity on forwarded
  requests, one reply each, a reply or a closed connection for every request;
- cipher: both sides read what the other wrote, the loops end inside their
  arrays;
- queue: the list behaves as the sequence of `queue.h`, nothing leaks, calls
  return;
- prototype: nobody gets another's answer, connections end.

## 2. Modules

| Module | What it is |
|---|---|
| `ChatTables` | what the data server promises about its chat tables (abstract) |
| `ChatStore` | the chat operations of the data server; implements `ChatTables` |
| `Accounts` | the users of the data server, with several sessions at work |
| `Heartbeat` | one list of a load balancer and the daemons on it |
| `ReverseProxy` | the forwarding tasks, composed with `Heartbeat` |
| `LogicSession` | one child of the logic server between a client and a data server |
| `Cesar` | the cipher in the buffers of the logic server |
| `Fifo` | what `queue.h` promises (abstract) |
| `Queue` | the linked list of `queue.c`; implements `Fifo` |
| `PrototypeServer` | the prototype server, its children and descriptors |
| `MC...` | request sets, model values and symmetry for TLC |
| `...Proofs` | theorems about the module they are named after |

Definitions named `X_Y` after a definition `X`, under a comment "Mutant", are
plausible mistakes in `X`; no specification uses them. Each property of a
passing run is violated when `X` is replaced by its mutant.

### ChatStore and ChatTables

`chat`, `last`, `members`, `admins`, `owner`, `nextChat`, `nextMsg` are the
tables; `pc`, `req`, `loc` are a child's position, request and the locals of
`handle_action`; `answer` is what the slot's last client got. One `mysql_query`
is one action, because nothing is in a transaction; memory-only code belongs to
the step before it. `Accept...` are the heads of the `case` branches with their
parameter tests, the actions named after functions of `chat_manager.c` are those
functions' queries, and the loops over participant_ids are turns of
`AddToChat` / `InsertMessage` / `UpdateLast` (with `AfterMessage` leading back
to the loop). `QueryFails` takes the error return of whichever statement is next;
`ChildDies` kills a child between statements.

`ChatTables` has the tables only: chats are opened, joined, left, posted to and
closed with all that belongs to them. That every statement of every child, in
any order and with any failure, is one of these operations or changes nothing is
the refinement `ImplementsTables`. It is what rules out an UPDATE of
`last_message_id` or a promotion that hits a chat or a participant that has gone.
That admins are participants is the shape of the table, not a property: `is_admin`
is a column of `chat_participants`, and `AdminsAreMembers` only a conjunct of the
inductive invariant.

Undefined behaviour is nondeterministic: an entry that is not a number leaves an
array element with any value (`Slot`), a list longer than `participants[]` or
more rows than `messages[]` may end the child (`OverrunParticipants`,
`Overrun`), and so may the items that EXIT_CHAT frees and `cJSON_Delete` frees
again (`AbortBeforeSend`). An unassigned `response_code` is the value
`Uninitialised`. Where the code has a bound (`FirstRows`) it is part of the
statement, and no property repeats it.

MySQL is external. The repository has no schema; keys are inferred:
`reset_database` switches FOREIGN_KEY_CHECKS, and chat_participants is addressed
by (chat_id, user_id). `Cascade` stands for the two things a schema may do when a
chat that has rows is deleted. `CanAdd`, `CanInsert` and `Referred` are these
keys, and the results below hold only with them. Contents, names and times are
left out: a `since` query returns any suffix of the messages, or any subset of
the chats with messages.

### Accounts

`users` is the table, the position of a row its user_id; `pc`, `req`, `hash` are
where a session is, its `current_request` and the hash it was sent. A session
asks (`Ask`), a child of the data server runs one query (`CreateUser`,
`ValidateUser`, `GetUserInfo`), the session compares (`Compare`). A query that
fails, or the balancer's 503, makes of either step of a login 401 "Invalid
credentials" (`QueryFails`, `logic_server.c:543`); the client cannot tell it from a
wrong password. A connection that ends without an answer leaves the session
without one (`SessionFails`). `hit` records that such a fault ended the session's
last request, so that `DeniedForAReason` holds of every login that had none itself,
whatever failed before or elsewhere. Both queries of
a login select `username = key OR email = key` and take the first row; `Selected`
is the oldest such row, which is the order of the primary key. SQL promises no
order without ORDER BY: with another order the two queries may pick different
rows, and the mutant `Selected_Newest` shows that `TokenForChecked` then fails.
`CREATE_USER` with a field that is no string goes on with pointers that were
never assigned: the row may hold anything (`Rubbish`) or the child dies
(`CreateUserCrashes`). `Cut` is the copy of 64 characters in `validate_user`: a
longer hash is stored whole, does not match itself and matches its beginning.
Uniqueness of username and of email is the schema's.

### Heartbeat

`up`, `ident`, `age` are a `Server`'s `is_up`, `addr_identifier` and the cycles
since `last_heartbeat`; `turn` is the alternation of the two tasks;
`inbox` the receive buffer; `alive`, `state`, `gap`, `replies` the daemons.
`check_heartbeat_expiry` sleeps for a second with the guards, and tokio's Mutex
is fair, so a cycle is: check, sleep, at most one datagram handled. This cycle
is the clock: a daemon sends at least every second cycle (`MaxGap`), and two
completed sleeps are more than two seconds (`Expired`). `Mode` selects what the
FL and LD listeners do differently: FL marks a server up when it sends its
addresses, LD does not. `Daemon` selects how the state starts: the
data server's `auth_done` is uninitialised. ReverseProxyLd has two such lists
that do not influence each other but for the time of the sleep, so one is
modelled. Addresses that are not in the configuration file change nothing and
are left out.

### ReverseProxy

`task` is where the task of a connection is, `dest` the server it took and has
not yet connected to, `next_index` the shared counter. `GetAvailableBackend`
needs the lock (`Unlocked`: the expiry task is not asleep with it) and is one
atomic choice: `Take` goes to the element of `available` with `next_index` modulo
its size others ahead of it in `Order` (that the counter would wrap at 2^64 is
not modelled); `ConnectBackend` comes later and may find the server gone, which
is a 503 although others are up. `Queued` is the fairness of tokio's Mutex: the
expiry task does not get the lock again before those who wait. `ListStep` is
every step of `Heartbeat`, with the connections unchanged, so all of that module's
behaviour is here too. `StopServing` is the TCP process dying while the daemon
goes on. `GetAvailableFrontend` is a data server's connection to LD: it advances
the same `next_index`.

### LogicSession

`cur`, `auth`, `key` are `current_request`; `db` is the connection with the one
request the data server reads from it and the answer on its way; `sent`, `read`,
`out` are the client's side. Each reply records the request it answers, and whose
answer of the data server it is made from. A token is the user it was made for;
`BadToken` is a missing-signature, malformed or expired one. `ReadClient` may
read several requests at once, of which only the first is parsed. A local answer
is freed twice, so the child may exit after it. The data server and the load
balancer are here what the child can see of them: an answer, an immediate 503,
an answer in two pieces, or the end of the stream. The first piece is no JSON
(`ReadGarbled`, 500); what is left may be none either, or begin with a JSON value,
which goes to the client as it is or as a failed login (`ReadLeftover`). `ahead`
says, for the whole session, whether the client sends before it has its answers,
or waits for them.

Left out: a client request split over two reads; `errno` left over from
an earlier call when `recv` returns 0 (taken not to be EAGAIN). The cipher is
transparent here, which is what `Cesar` shows of it.

### Cesar

A character is its code. `wire` are the bytes the client has sent and the server
has not read, cut by `recv` anywhere; `buffer` is the one buffer of
`handle_client`, used for both directions and never cleared; `copy` is the
`strdup` that is encrypted. Each turn of the loops of `cesar_decrypt` and
`cesar_encrypt` is a step, as they stop at a `'\0'` only. `said`, `heard`,
`answered`, `seen` are what went in and came out. `logic_server.c` defines the
cipher functions twice and the shift twice, so as committed it does not compile;
the model takes one definition of each, the shift as the constant `CESAR_SHIFT`
(1 in `logic_server.c:16`, 3 in `logic_server.h:32`).

### Queue and Fifo

`head`, `tail`, `size` are a queue's fields and `next`, `data`, `used` the heap; a
freed block reads as `Lost` and its address is used again. Functions without a
loop are one action; `reverse` recurses (`ReverseDown`, `ReverseUp`, with the
elements of the frames in `call.stack`), `clearQueue`, `destroyQueue` and
`copyQueue` loop, one turn a step. `malloc` may fail in each. `Fifo` is a sequence
per handle. The refinement mapping (`Contents`) puts what is on the stack of
`reverse` back together with what is in the list, and lets clear and destroy take
effect when they begin. The one place where `Fifo` is weaker than `queue.h` is
`Starve`: without memory, `reverse` and `copyQueue` lose elements and say nothing.

### PrototypeServer

`parent` and `cur` are the loop of `main`, `open` its descriptors, `queue` the
`client_fd`s in `request_queue`; `child`, `copy`, `fds` are a child and what
`fork` copied. `enqueue_request` stores a request that nobody filled in, so its
descriptor is any value of `Garbage`; the child answers to that. It reaches a
client only if it happens to be a descriptor the child has, and the parent has
closed the other clients' by then.

## 3. Runs

| Run | Bounds | Result |
|---|---|---|
| `ChatStore_concurrent` | 2 children, 3 requests of 6, 1 fault, 1 chat | the four invariants, `DeletedForever` and the refinement `ImplementsTables` hold in all interleavings |
| `ChatStore_sequential` | 1 child, 4 requests of 33, 2 chats, small arrays | one admin per chat, newest last message, removal by admins only, deletion with one participant left |
| `ChatStore_liveness` | 2 children, 2 requests of 6, one with a list of 11, 1 fault, no cascade | every child exits |
| `ReverseProxy_outages` | 1 server, buffer of 2, 4 faults, 1 connection, LD, logic daemon | live servers come up for good, dead ones go down and are not chosen, none is taken out without a fault, every connection is served |
| `ReverseProxy_turns` | 2 servers, buffer of 1, 2 connections, no fault, LD, data daemon | only identified, recently heard servers are up; connections take turns |
| `Heartbeat_fl_dead` | 1 server, 1 fault, FL | violation: a server that dies before its first OK stays up |
| `LogicSession_clients` | 21 requests when the client waits, 5 when it sends ahead, 3 per session, 2 faults | tokens and answers belong to their requests, no second reply but after a 500, right logins refused only after a fault; a reply or the end of the connection for each |
| `LogicSession_token_only` | 12 requests with the token alone | violation: a request is forwarded without the token's identity |
| `Accounts_sessions` | 2 sessions, 11 requests, 4 of them sent, 3 users, 1 fault | tokens are for the password checked, refusals have a reason: an older account, an over-long hash, or a fault of that login |
| `Cesar_stream` | buffer of 4, 6 characters, 2 answers, shift 1 | both sides read what the other wrote, loops end inside their arrays |
| `Queue_list` | 2 queues, 4 addresses, 2 values, 3 elements, 1 failure of malloc | the list implements the sequence, nothing leaks, calls return |
| `PrototypeServer_children` | 3 clients, 3 descriptors, 1 failure | answers are the client's own, connections end |

Why these bounds. Races in ChatStore are between two children over one chat;
three requests are one that creates the chat and two that race, and the request
set holds every operation that writes. A fault can hit any statement. In the
sequential run four requests reach a chat that is created, extended, left by its
admin and left by the last user; ids of a second chat come to be used.
Children are interchangeable (symmetry); users are not, as ids are ordered.
For heartbeats a handshake goes wrong by one loss or restart and may be hit
again while it recovers; buffer 2 is enough for it to be full, and for a datagram
of a dead server to be handled late. Two servers are the least among
which there are turns, and two connections race for `next_index`. A login
takes two connections, so three requests and two faults cover a failed login
followed by others. Four requests of two sessions are the creation of
two accounts that share a string, and a login with an account created
between its two steps. The texts of `Cesar_stream` wrap at both ends of the
printable range, do not fit the buffer, and contain what the cipher
leaves alone; six characters make reads of all sizes follow one another. Four
addresses let `reverse` and `copyQueue` of two elements run with and without
a free block, and use a freed one again.

Fairness. A forked child is scheduled until it exits (weak fairness of its
steps); nobody has to connect and nothing has to fail. Daemons and tokio tasks
are scheduled, the Mutex is fair and a `connect` comes to an end; faults are
finitely many, as otherwise nothing can be promised over UDP. A call of the queue
library runs until it returns. The processes of the prototype are scheduled, and no
client has to connect or to speak. `AnsweredUnlessCutOff` assumes that the data
server answers or closes; the code cannot do without this assumption, see below.
A child of the data server that waits in `read` for a client that says nothing is
not modelled: `EveryChildExits` begins with the request.

`ReverseProxy_outages` uses the logic server's daemon: after a restart of the
balancer its state is that of a data server's daemon that started with
`auth_done` set, so `LiveComesUp` covers both. `LiveStaysUp` does not hold for
the other: that daemon may get an AUTH that is older than its OK.

### Where documents and code differ

`Heartbeat_fl_dead` refutes what the report of the load balancer says of dead
backends, and `LogicSession_token_only` what the logic server's README says at
line 80: "the client only needs to provide the token". Where the code replaces the
user's field (`logic_server.c:348`), `cJSON_ReplaceItemInObject` does nothing if
the field is not there, so such a request goes on without an identity and the data
server finds its parameters invalid. Both have an entry in `findings`. The models
contain more, visible in single definitions or in the condition of a property:

- EXIT_CHAT of a user who is not in the chat, or a second one of a user who has
  left, deletes a chat with one other participant and answers "Chat deleted as last
  participant." (`data_server.c:482`, `:499`); hence `DeletedWhenOneLeft` counts
  and does not ask who.
- Of two senders that overlap, the older message may stay in `last_message_id`
  (`chat_manager.c:64`); hence `LastIsNewestBetweenRequests` is about requests
  that do not overlap.
- `RemovalByAdmin` needs requests that do not overlap: with two children the
  admin may have left since the check (`data_server.c:431`).
- EXIT_CHAT may close without an answer (`data_server.c:527`), CREATE_CHAT and
  ADD_TO_GROUP_CHAT may answer with an unassigned code (`data_server.c:129`), and
  an answer is cut at 4096 bytes (`data_server.c:550`).
- ADD_TO_GROUP_CHAT keeps neither the ten participants of the documentation nor
  to group chats (`data_server.c:196`); GET_CHAT_MESSAGES has no limit
  (`chat_manager.c:171`).
- After a login whose second connection failed, the later requests of the session
  are never answered (`CutOff`, `logic_server.c:574`), where the logic server's
  README has errors "returned as JSON responses".
- With three live servers on one list, each is heard every third second and is
  taken out although nothing failed (`proxy.rs:560`).
- A server whose daemon outlives its TCP process is chosen for ever
  (`StopServing`, `logic_server.c:868`), and a server that is gone at `connect`
  is a 503 although others are up (`proxy.rs:138`).
- Data servers that connect to LD advance the `next_index` of the logic servers'
  connections, so with two servers one may get all of them (`proxy.rs:580`);
  hence the condition of `RoundRobin`.
- The 15 second timeout of the database socket has no effect, since `poll` has
  none (`logic_server.c:694`).
- A login during an outage is answered with 401, not 503 (`logic_server.c:543`);
  hence the faults in `RefusedForAReason` and `DeniedForAReason`.
- An answer in two pieces is relayed as an error and a second reply
  (`logic_server.c:742`).
- The README of the logic server promises a token from CREATE_USER and 404 for
  an unknown action; the code forwards the answer as it is, and answers 400.
- The result of `decrypt_cesar_message` is used for the log only; what is
  parsed is the buffer that was decrypted in place before.
- `queue.h` describes the result of `isEmpty` the wrong way round, and
  `isEmpty(NULL)` follows the pointer; `reverse` and `copyQueue` report success
  when elements were lost (`queue.c:120`).
- `enqueue_request` never fills the request in (`server.c:27`): the prototype's
  greeting usually goes nowhere, and `main` waits in `read` for a silent client
  while others queue (`server.c:89`).

## 4. Theorems

TLAPS checks all of them for every value of the constants, from the named
assumptions of the modules (finite sets of users, requests of the right type,
natural bounds, disjoint keys, a shift of 0 to 95). A theorem that needs more
says so in its ASSUME. Every safety property of a passing run, invariant,
action property or refinement, is one of them.

- `ChatStoreProofs`: `TypeCorrect`, `LastIsSound`, `OrphanFree`,
  `AckedIsStored`, `DeletionIsFinal`, `Refinement`. None of the
  properties is inductive alone. The invariant `IInv` adds what each child knows
  at each position: its chat id was given out (below `nextChat`), the message id
  it is about to write into `last` is a message of its chat unless the chat has
  gone, ids not yet given out are unused. Every action moves one child, so
  lemmas say what a move must satisfy, that other children keep their part when
  the tables change in one of the allowed ways, and for each writing statement
  that it is such a change; `Combine` puts them together. `Refinement` takes
  each writing statement to its operation of `ChatTables`, with `IInv` for the
  operations' conditions. `HandlersKept` adds which statements belong to which
  request (`InHandler`).
- `ChatStoreProofs`, requests that do not overlap (`OneChild`): with
  `ReadsKeptSequentially`, what `is_user_admin` and `get_participant_count` found is
  still so when the handler acts on it, so that `OnlyAdminsRemove` and
  `DeletesAtMostOneParticipant` hold with any failures and deaths. The other two
  are about complete requests and need `MaxFaults = 0`: `LastIsNewest` (between
  the INSERT and the UPDATE the newest message is the one in the child's hand)
  and `OneAdmin` (the invariant says, for each position in EXIT_CHAT and
  CREATE_CHAT, how many admins the chat has; it needs creators that exist and a
  schema that deletes a chat's rows with it).
- `HeartbeatProofs`: `TypeCorrect`, `OnlyIdentifiedUp`, `OnlyFreshUp` (LD only:
  for FL it is false). The strengthening bounds the age of a server that is up
  by the place in the cycle: one less than the timeout while the expiry task
  sleeps. `AloneStaysUp`: with one server, the logic server's daemon, room for two
  datagrams and no fault, nothing that is up is taken down. `PaceInv` counts the
  datagrams in the buffer exactly (one if the daemon has sent in this cycle, one
  if the listener has the guard) and says that a heartbeat one cycle old is
  followed by a cycle in which the daemon has to send. With room for one it is
  false, as TLC shows.
- `ReverseProxyProofs`: `ChosenIsIdentified`, `ChosenIsFresh`, `DeadIsLeftOut`,
  `AloneStaysUpForConnections`, `ProxyTypeCorrect`, `TurnsAreFair`.
  Every step of the composition is a step of `Heartbeat` or leaves its
  variables alone, so the first two and the fourth follow from its invariants. For
  the third, a datagram of a dead daemon has, with its place in the receive
  buffer, waited since it died, so it is handled within `MaxInbox` cycles of that;
  and the cycles since its death are at most `MaxInbox` plus its server's age.
  For `RoundRobin`, there is exactly one server at each index of `available`
  (`OneAtEachIndex`: the numbers of servers ahead of each are an injection into
  0 .. n - 1, so by the library's cardinality theorems a surjection), entry k of
  `log` was taken with `next_index` at k - 1 as long as no data server took part,
  and different numbers below the size apart have different remainders.
- `LogicSessionProofs`: `TypeCorrect` and `NoSecondReply` for every client;
  `TokensAreEarned`, `NoForeignAnswers` and `RefusalHasAReason` for one that waits
  (`~ahead`, which the properties say themselves), with any requests and faults.
  The invariant says that a connection's request comes from `cur`, that an answer
  is one the data server gives to it, that VALIDATED means the password of `cur`
  was checked for `key` and the outstanding query is for that key, that an
  unanswered request is the last one sent, and that the rest of a torn answer
  comes after the 500 for its first piece (`TornTold`). For `RefusalHasAReason` it
  adds, while nothing has failed, that the answer to a right login is a success
  and finds the state it needs (`OnCourse`). For `NoSecondReply`, `cur` has no
  reply yet while an answer may come, or only the 500 of a first piece.
- `AccountsProofs`: `TypeCorrect` (with the uniqueness of names),
  `TokenIsForChecked`, `DenialHasAReason`. Rows are only appended, so the oldest
  row with a key stays the oldest; the invariant says that a hash in hand is
  that row's, and after the comparison its copy is the password. `DenialHasAReason`
  asks for no fault in the login itself (`hit`), and allows any elsewhere.
- `CesarProofs`: `TypeCorrect`, `LoopsEndInside`, `Understood`, `Readable`, for
  every shift, text, buffer size and way of cutting. The invariant says that the
  buffer is decrypted before `i` and encrypted from `i` to a `'\0'`, that the
  wire holds the encrypted rest of what was said, and the same of the copy.
- `PrototypeServerProofs`: `TypeCorrect`, `AnswersAreOwn`. `main` has no
  connection open but that of `cur`, so a child inherits its own client's only,
  and there is one child per client.
- `QueueProofs`: `TypeCorrect`, `ListsAreProper`, `NothingLeaks`, and `Refinement`
  to `Fifo`. `TypeCorrect` bounds the fields and says that no head or tail was
  read out of a freed block; where the links lead is `ListsAreProper`. All steps
  on a list are a node put at the end (`Link`) or one taken from the front
  (`Drop`), so two lemmas carry the heap. The invariant adds that nodes of queues
  hold elements, that queues which are NULL hold nothing unless `copyQueue` is
  filling them, and that its position is a node of the queue it reads. For the
  refinement, `Turned` describes the stack of `reverse`, the elements that are
  back and those it did not reach as one sequence; the lemmas on it say that a
  call down, a call up and the return leave it alone or remove one element.
  `CopyInv` says which elements the copy has: a prefix, or a selection in order
  (`Picked`) when memory ran out.

Only model-checked: the liveness properties (`EveryChildExits`, `LiveComesUp`,
`DeadGoesDown`, `EveryConnectionServed`, `AnsweredUnlessCutOff`, `CallsReturn`,
`EndsUnlessStalled`), which rest on fairness and so on ENABLED, which the provers
do not handle; and the violations of `Heartbeat_fl_dead` and
`LogicSession_token_only`.

## 5. Not modelled, and the plan

cJSON (third-party), the bytes the load balancer copies and the parsing of its
configuration (I/O), signatures of tokens (libjwt), contents and lengths of
messages and the test scripts stay out. Left, in this order:

1. the steps towards liveness that need no fairness, as action properties: a
   quantity of each call of the queue library, and of each child of the data
   server, that every step of it makes smaller;
2. `Polling`: created_at at a resolution of one second and
   last_update_timestamp (`chat_manager.c:155`), where a message stored later
   in the second of a poll is not returned by the next one.
