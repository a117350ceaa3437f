# A TLA+ model of ChainKV

ChainKV is a key-value store in C: servers keep a hash table of sorted lists,
clients call it over TCP with Protocol Buffers messages, and ZooKeeper is to
arrange the servers in a chain along which writes are replicated. This
directory models the program as it is written in `source/` and `include/`,
checks it with TLC on small instances, and proves what matters most for every
instance with TLAPS.

The most consequential fact, which decides how the rest is modelled: **in the
program as built there is no chain.** `chain_watcher`, the only function that
sets `is_tail` and `next_server_path`, is registered nowhere. So every server
keeps `is_tail == 0` and an empty successor for ever, refuses every operation
that only reads the table, and forwards no write. This is not assumed: module
`Membership` shows it (`NoServerInChain`, proved for all instances), and
`KVServer` builds on it; `ChainKV`, which composes the two, proves that it may.

## 1. Inventory

### Components

| Component | Code | State | Operations | Modelled in |
|---|---|---|---|---|
| Sorted list | `list.c`, `list-private.h` | chain of nodes, counter `size` | add, get, remove, size, get_keys | `TableOps`; load by load in `SharedList` |
| Hash table | `table.c`, `table-private.h` | array of lists, statistics | put, get, remove, size, get_keys | `TableOps`, `Table`; abstractly `KVMap` |
| Entry, block | `entry.c`, `block.c` | key string, data bytes | create, compare, duplicate, destroy | records of a key and a value; their memory in `Ownership` |
| Server network layer | `server_network.c` | one thread per connection, `connected_clients` | accept loop, `handle_client`, receive, send | `KVServer`; byte by byte in `Framing` |
| Skeleton | `server_skeleton.c` | table, ZooKeeper handle, `node_path`, `is_conected`, `is_tail`, `next_server_path` | `invoke`, `replicate_to_successor`, `server_skeleton_init`, `connection_watcher`, `chain_watcher` | `invoke` in `KVServer` and `ChainKV`, the rest in `Membership` |
| Server main | `server_hashtable.c` | - | initialise, bind, serve, clean up | `Membership`, `KVServer`, joined in `ChainKV` |
| Client network layer | `client_network.c` | socket | connect, send-and-receive with a limit of 5 s, close | `KVServer`; byte by byte in `Framing` |
| Client stub | `client_stub.c` | `rtable` | `rtable_*`, `get_tail_address` | `KVServer`; the lookup in `ChainKV` |
| Command line | `client_hashtable.c` | - | one command after another, quit | `KVServer` |
| Framing | `message.c` | - | `read_all`, `write_all` | `Framing`; at the grain of messages in `KVServer` |
| Messages | `htmessages.proto` | opcode, content | - | `KVServer` |
| Statistics | `stats.h`, `table.c` | counters, a mutex | update, report | `connected_clients` in `KVServer`; their memory in `Ownership` |
| Serialization | `serialization.c` | - | key arrays to and from bytes | not modelled: not compiled, never called |
| `ZooKeeper/*.c`, `zookeeper_client.h` | examples; declarations without code | - | - | not part of the program |

### How they interact

- `main` of the server runs `server_skeleton_init`, which calls `table_create`
  and `zookeeper_init`. The ZooKeeper library starts its own threads in that
  call, and calls `connection_watcher` for session events. From there on two
  threads write the skeleton without a lock (its mutex is initialised and
  never taken).
- After `bind` and `listen` the main thread accepts connections, each of which
  gets a detached thread in `handle_client`: receive, `invoke`, send, until
  `network_receive` returns NULL. All of them share the table, without a lock.
- A client finds an address through ZooKeeper, connects, and sends one request
  at a time. When the answer does not come within five seconds the call fails,
  and the *same* socket serves the next call.
- The kernel is part of the picture: a process that ends closes its
  connections in order, or resets those with unread bytes; a `read` at the end
  of the stream returns 0 (which `read_all` does not notice); a `write` to a
  connection known to be reset raises SIGPIPE (which nobody handles).

### What is hard, and what makes each part correct

- *Lists and tables*: boundary cases of a hand-written sorted list, a counter
  kept beside the chain and trusted as a loop bound, copies of copies. Correct:
  each slot strictly sorted, only its own keys, the counter right; together, a
  map; no pointer to freed memory.
- *Handlers*: `table_put` is three list calls with other handlers between
  them, and a list call is many loads and stores with other handlers between
  *them*. Correct: calls that do not overlap leave the lists well formed;
  insertions that overlap lose at most each other; an acknowledged key stays
  unless its own insertion overlapped another one, or memory was misused.
- *Connections*: time limits, late answers, partial reads and writes, full
  sockets, a peer that leaves in the middle. Correct: every request is answered
  once and in order, waits end, the count of clients is right.
- *Membership*: a watcher that runs before the fields it uses are assigned,
  events that come late, sessions that are resumed, expire, or belong to a dead
  process. Correct: what a server believes of its registration is true, and
  the znode of a dead process never comes after that of its successor.
- *The whole*: three calls of a client to find a server, between any two of
  which servers die, restart and register again; a znode that exists before
  its server listens. Correct: the lookup does not prefer a dead process, and
  what the clients see is what the servers alone would show them.

`PROJECT.json` lists 34 hazards, each with its line and with the properties
that would catch it. Three have a note instead: the exhaustion of threads and
descriptors by clients that left (`server_network.c:38`; a server of the model
has as many threads as it has clients), the messages that `handle_client` never
frees (`server_network.c:61`, the memory of messages is abstract), and command
lines longer than the buffer of `fgets` (`client_hashtable.c:34`, a matter of
text).

## 2. The modules

| Module | What it is | State | Lines of |
|---|---|---|---|
| `TableOps` | the functions of `list.c` and `table.c` as operators | none | `list.c`, `table.c` |
| `KVMap` | abstract specification: a map with put, get, remove | `map`, `out` | what `table.c` implements |
| `Table` | one caller of the table | `tbl`, `out` | `table.c` |
| `Ownership` | the memory of the table and of its caller | `Table`'s, and `live`, `mine`, ... | `table.c`, `list.c`, `entry.c`, `block.c` |
| `SharedList` | one list under unlocked threads, load by load | nodes, pointers, threads | `list.c` |
| `KVServer` | server processes, handler threads, connections, clients | see below | `server_network.c`, `invoke`, `client_*.c`, `message.c` |
| `Wire` | abstract specification: a connection of whole messages | `requests`, `held`, `answers`, ... | what `message.c` is to implement |
| `Framing` | one connection, byte by byte | `stream`, `in`, `out`, ... | `message.c`, `client_network.c`, `server_network.c` |
| `Membership` | initialisation of servers against ZooKeeper | see below | `server_skeleton.c`, `server_hashtable.c` |
| `ChainKV` | `Membership` and `KVServer` in one, with the lookup | all of theirs, and `look` | `client_stub.c`, `server_hashtable.c`, `invoke` |
| `MCTable`, `MCSharedList`, `MCKVServer`, `MCFraming`, `MCMembership`, `MCChainKV` | instances for TLC | - | - |
| `TableOpsProofs`, `TableProofs`, `OwnershipProofs`, `SharedListProofs`, `KVServerProofs`, `FramingProofs`, `MembershipProofs`, `ChainKVProofs` | proofs; `TableOpsProofs` about the operators that four of the others use | - | - |

`KVServer`, `Table` and `SharedList` extend `TableOps`, `Ownership` extends
`Table`. `Table` is shown to implement `KVMap`, `Framing` to implement `Wire`,
and `ChainKV`, which instantiates `Membership` and `KVServer`, to implement
`KVServer`. `SharedList` shows of each list call that, when nothing overlaps
it, it is the operator of `TableOps`, and of insertions that overlap, that they
leave one of the lists of `Overlapped`; `KVServer` takes the effects of its list
calls from these two.
The definitions whose comment begins with "Mutant" are variants of their
neighbour with a plausible bug; each property is tested against one of them.

### TableOps, Table, KVMap

A chain of nodes is the sequence of its entries; `size` is kept beside it, as
in the code. Keys are integers, whose order stands for that of `strcmp`; the
hash is a constant function, so the proofs hold for every hash. A function that
dereferences a null pointer returns `SEGV`, and nothing happens afterwards.
Allocation is assumed to succeed. `list_add` keeps its three regions (head, the
loop with its two exits, tail) because the order of the tests is where such
code goes wrong.

### Ownership

Every step is a step of `Table`, or a call that leaves the lists alone
(`table_get_keys`, the caller's `block_destroy` and `table_free_keys`,
`table_destroy`). Beside it stand the objects that the call allocates and frees:

| Variable | Meaning |
|---|---|
| `live` | objects allocated and not freed |
| `mine` | those that the caller was given and has to free |
| `calls`, `puts` | calls that allocated; those of them that were `table_put` |
| `misused`, `destroyed` | something was freed that was not allocated; `table_destroy` ran |

An object is named by the variable or field it is first stored in and by the
number of the call that allocated it. The value of an entry is the number of
its `table_put`, so what the table can reach is computed from the table, and
leaks are what is neither reachable nor the caller's.

### SharedList

| Variable | Code |
|---|---|
| `head`, `size`, `next`, `entry` | `struct list_t`, and `struct node_t` of each node |
| `pc`, `call`, `cur`, `tmp`, `got`, `new` | a thread in `list_get`, `list_remove` or `list_add`: `current`, `temp`, the value it loaded last, `new_node` |
| `freed`, `dangling`, `broken` | freed nodes, nodes whose entry is freed, memory was misused |
| `pre`, `settled`, `rest`, `adders`, `asked`, `everFreed`, `reused` | used by the properties only |

A step is one load or store of a pointer or counter that another thread
writes. The Makefile compiles without optimisation, so each access of the source is one
of the program; a step may add reads of a node's key, which never changes while
the node is in use. `Get`, `RemoveStart`, `UnlinkHead`, `RemoveWalk`, `Unlink`,
`FreeNode` and `Decrement`, `Allocate`, `AddFirst`, `AddWalk`, `LinkBetween`,
`Replace`, `AddLast` and `Increment` are the pieces of the three functions;
`Noted` is what each step adds for the properties. `Fault` is an access through
NULL or to freed memory, after which a C program may do anything and the model
stops.

`Allocate` is the `malloc` of `list_add`: it returns memory never used before,
or that of any node freed meanwhile. The second case needs no misuse of memory
to do harm. A thread that has copied `current->next` at line 96 only stores it
at line 97; if the node was unlinked, freed, handed out again for a smaller key
and linked in front in between, the store closes a cycle although every access
was to allocated memory. `reused` is set when `malloc` returns a node to which
the list, another node or a thread still leads, and `ChainEnds` and
`CallsReturn` say nothing of what follows. Such a return is reachable with the
two threads of the run; a cycle after it needs three threads and three keys,
where a simulation found one. A variable that its thread will not use again
does not count as leading anywhere. Where a step stores a pointer that it
loads in the same step (`Allocate`, `add_front`, `copy`), it does so into the
thread's own new node; after such a return another thread could see that store
half done, which no property depends on.

### Wire, Framing

| Variable | Meaning |
|---|---|
| `stream[x]` | the bytes on their way to end `x`, at most `Capacity` |
| `out[x]`, `in[x]`, `need[x]` | what `x` still has to write; what it has read of a message, and up to which length it reads |
| `pc[x]` | idle, in `write_all`, in `read_all` for the size or the body, in `invoke`, ended, or turning for ever |
| `sent`, `got` | calls of the client, the last answer it took |
| `torn` | directions in which the client left in the middle of a message |

`write_all` and `read_all` move any positive number of bytes that the socket
allows. `Limit` is `SO_SNDTIMEO` and `SO_RCVTIMEO`: it strikes when the client
is blocked, at any byte, and the call fails while the socket stays in use.
`Size` and `Unpack` take the bytes for what they are if they are what the other
end wrote as one message, and otherwise for anything: an absurd size, a message,
or no message. `Wire` has whole messages only: the numbers of the requests under
way, of the one in the hands of the handler, of the answers under way and of the
last answer taken; each new request has a greater number than all of these, and
each end takes the least. This is the grain at which `KVServer` works. A request
is under way from its first byte in the socket on (`Messages`, `Reading`), an
answer from the moment it is packed (`Writing`).

### KVServer

| Variable | Code |
|---|---|
| `up`, `tbl`, `connected` | a server process, `server->table`, `statistics->connected_clients` |
| `flight[s]` | the `list_add`s that run, and those that ended while one ran that they overlapped |
| `wild[s]` | a list call overlapped one that frees memory |
| `raced[s]`, `lost[s]` | slots in which insertions overlapped; keys that they left out |
| `h[c]` | the handler thread of client `c`: program counter, message, opcode of the answer; whether it is inside a list call (`inside`), and the keys whose insertion that call has met (`met`) |
| `srv`, `link`, `req`, `rep` | the client's connection: other end, state, bytes under way in each direction (whole messages) |
| `cl`, `cur`, `sent`, `res` | the client program: where it is, its current call, how many it made, what the last one returned |

Handlers take no lock. A list call therefore has two steps: `Begin`, and its
end, which has the effect that the calls in between allow. There are three
cases, told apart by the calls on the same list that it overlaps (`Mates`):

- *None.* The effect is that of `TableOps` (`SoloCallsAtomic` of `SharedList`).
- *Insertions and lookups, none of which frees memory.* The insertions take
  effect together when the last of them ends (`Settle`), with one of the lists
  of `Overlapped`: nothing that was there is lost or changes its order, but new
  keys may be missing (`lost`) or misplaced, and the counter may be too small
  (`OverlapsAsAssumed`). A lookup or removal may find a key it has met (`met`)
  or miss it. From then on `raced` holds the slot.
- *A call that frees memory* (`Frees`: a removal of a key that is or may be
  there, or an insertion that replaces an entry), *next to any other.* The other
  one may follow a pointer into memory that is free or used for something else.
  `Spoil` gives up on the lists of the server: each list call may return with
  any result or never (`Misused`, which no fairness forces), and the process may
  end at any moment (`Collapse`).

A handler's other steps are one call of the network layer each:

| Action | Code |
|---|---|
| `Accept` | `accept`, `pthread_create`, `connected_clients++` |
| `Receive` | `network_receive` returns a message, `invoke` branches |
| `Begin` | the first step of each list call |
| `PutGet`, `PutRemove`, `PutAdd` | the ends of the three list calls of `table_put`; the last one with the rest of `OP_PUT` |
| `Misused`, `Collapse` | list calls, and the process, after memory was misused |
| `Delete`, `PostDelete` | the end of `table_remove`; then `msg->entry->key` in `handle_client`, where `msg->entry` is NULL |
| `Refuse` | every other operation on a server that is not the tail: `OP_ERROR`, or the request itself for GETKEYS, which has no such branch |
| `SendReply`, `SendToClosed` | `network_send` to a client that is there, or gone |
| `ReceiveEnd`, `ReceiveReset` | `read` returns 0 (the thread loops) or -1 (the thread ends) |
| `Send`, `SendToDead` | the writes of `network_send_receive` |
| `ReadReply`, `Timeout`, `ReadReset`, `ReadEnd` | its reads: an answer, five seconds, a reset, the end of the stream |
| `Connect`, `ConnectRefused`, `Quit`, `Kill`, `Start` | processes and connections coming and going |

`Die` is the end of a server process, whether it crashed or was stopped.
Requests carry a number that the protocol does not have; only properties use
it, never a guard.

`link` records what either end may know of the other: `serverFin` and
`clientFin` for an orderly close, `serverRst` and `clientRst` for a reset,
`serverGone` and `clientGone` once a call has reported the reset. That is what
decides whether a read returns 0 or -1 and whether a write succeeds, fails or
raises SIGPIPE. Where the outcome depends on how fast a reset travels, the
action allows each.

### Membership

| Variable | Code |
|---|---|
| `pc`, `life` | the main thread in `server_skeleton_init` and `main`; number of starts |
| `w`, `info` | the library's thread in `connection_watcher`; its `server_info` |
| `node_path`, `is_conected`, `is_tail`, `next_server_path` | the fields of the skeleton (`GARBAGE` before they are assigned) |
| `sess`, `events` | state of the session in the library; events not yet delivered |
| `znodes`, `alive`, `nextSeq` | ZooKeeper: children of `/chain`, its sessions, the sequence number (external) |

`StoreHandle`, `StorePort` and `StoreFlags` are the assignments of
`server_skeleton_init` after `zookeeper_init`, between which the watcher may
run; `OnConnected`, `CreateSucceeds`, `CreateFails` and `OnDisconnected` are
`connection_watcher`, split at the call of `zoo_create`. An unassigned handle
is undefined behaviour; of its outcomes, `UseUnsetHandle` is the end of the
process and `CreateFails` an error return. `chain_watcher` is an operator,
because no action calls it; `NoServerInChain` states in addition what it would
do if it were called.

ZooKeeper and its library are external, modelled from what the code uses:
ephemeral sequential znodes, sessions that are resumed or expire, a request
whose connection breaks and that may have been executed, events in order.

### ChainKV

| Action | Code |
|---|---|
| `Boot` | `main` up to `server_network_init`, or its failure: steps of `Membership` alone |
| `Listen` | the port is bound: `Bind` of `Membership` and `Start` of `KVServer` in one step |
| `Stop`, and the end of a process in `Serve`, `ReadTable` | `Crash` of `Membership` and the end of the process in `KVServer` in one step |
| `ZooKeeper` | the watcher, the library, sessions: steps of `Membership` alone |
| `Serve` | a handler's step that is not a read of the table, also on misused memory |
| `ReadTable` | `invoke` on GET, SIZE, GETKEYS, GETTABLE, STATS, with the server's own `is_tail`: both branches, by the opcodes each may set |
| `ListChildren`, `NoChild` | `zoo_get_children`, `qsort`, the last child; with no child, `children.data[-1]` |
| `GetAddress`, `NodeVanished`, `ZooKeeperFails` | `zoo_get` of that child, which may be gone; its data has no null character, so the port that is read may be another |
| `Connect`, `ConnectNowhere` | `network_connect` to a server that listens or not, or to a port that is no server's |
| `Use` | the commands of a connected client |

`Serve`, `Use` and `Connect` are the actions of `KVServer`; what `ChainKV` adds
to each is what it means for the other half. `replicate_to_successor` is not an
action: without a successor it prints a line, and with one it would connect to
port `atoi("/chain/...")`, which is 0, and fail without telling its caller.

## 3. The runs

| Run | Instance | Shows |
|---|---|---|
| `table` | 4 keys in 2 slots; any calls of one thread, 5 of which allocate | `Table` implements `KVMap`; lists well formed; sizes and key arrays agree with `table_get`; no dangling pointer, and only the known leaks |
| `sharedlist` | 2 threads, 3 keys, every initial list; 420 000 states | what survives overlapping list calls, that calls without overlap are those of `TableOps`, and that overlapping insertions leave what `KVServer` assumes |
| `kvserver` | 1 server, 2 clients, 2 requests each, 2 keys in one list; PUT, DEL and GETKEYS; the server may be stopped and restarted; 1.1 million states | the invariants of the servers below |
| `kvserver_live` | the same with one key, PUT and GETKEYS; 180 000 states | `WaitsEnd`, `RequestsHandled` |
| `framing` | 4 calls; sizes of 2 bytes, requests of 2 and answers of 3, sockets of 3; 20 000 states | `Framing` implements `Wire`; calls end |
| `membership` | 2 servers, 2 starts each, 1 broken connection; 1.3 million states | the invariants of membership below |
| `membership_live` | 1 server, 2 starts, 3 broken connections | `RequestRegisters` |
| `chainkv` | 2 servers, 2 starts, 1 broken connection, 1 client with 1 request, PUT or GETTABLE; 506 000 states | `ChainKV` implements `KVServer`; the halves agree; what a lookup finds |
| `put_crashes`, `del_answered`, `ok_put_stored`, `acked_replicated` | small instances | violations: disagreements of the code with its documentation, section 5 |

The properties, in words:

- `WellFormed`: lists sorted, without repeated keys, with a correct counter,
  whatever one caller does (`Table`), and however the list calls of unlocked
  handlers interleave until insertions into the slot overlap or a call overlaps
  one that frees memory (`KVServer`).
- `SizeAgrees`, `KeysAgree`: the counter-based functions agree with `table_get`.
- `PutNeverReplacesInPlace`: the leaking branches of `list_add` are out of the
  reach of a single thread.
- `ImplementsMap`: refinement of `KVMap`.
- `NoDangling`: what the table reaches is allocated, what the caller was given
  stays so until it frees it, and nothing is freed twice. `OnlyCopiesLeak`: the
  lost objects are the first copies made by `table_put`, one pair for each
  call, the part built by a `table_get_keys` that meets an empty slot, and the
  mutex of a destroyed table.
- `SoloCallsAtomic`: a list call that nothing overlaps does in many steps what
  `TableOps` says in one, faults included. `InsertsKeepSettled`,
  `LookupsFindSettled`: as long as calls are lookups and insertions of absent
  keys, overlapping calls lose only each other's insertions: what was in the
  list when it was last at rest stays and is found. `OverlapsAsAssumed`: what
  insertions of different absent keys leave, alone or overlapping, is what
  `KVServer` makes of them. `ChainEnds`: no overlap of any calls makes a cycle,
  as long as `malloc` has not returned a freed node that something leads to.
  `CallsReturn`: every call ends, or memory was misused, or there was such a return.
- `FoundKeyHeld`, `AnsweredPutHeld`, `LastPutHeld`: from `list_get` to
  `list_remove`, and from the acknowledgement of a PUT on, its key is held:
  in the table, or in the window of another overwrite of the key, or in the
  moment between a removal and the crash that follows it; or one of two things
  went wrong. Its own insertion overlapped another one into the same list and
  lost, which the client is not told; or a list call overlapped one that frees
  memory, after which nothing is promised. So an acknowledged write *can* be
  lost without a crash, but only in these two ways: an insertion that ended by
  itself is safe from all later ones.
- `Pipeline`: on an open connection the requests are answered in order and
  exactly once, whatever calls have given up in between; and a client waits
  only for an answer that is to come. This is at the grain of whole messages; a
  message that a time limit tears apart is `Framing`'s subject.
- `ConnectedCountsThreads`: the statistic counts the running handlers exactly,
  those that turn for ever included. Connections that wait for `accept` have no
  handler and are not counted.
- `WaitsEnd`: a call returns or its program ends without the help of the time
  limit, except where the code really keeps it: at the end of the stream with no
  answer left, where `read_all` never returns (a finding of section 5), and on a
  server whose memory may have been misused. `RequestsHandled`: a request that
  has reached a server is handled although its client left, unless the server
  goes down or its memory may have been misused.
- `ImplementsWire`: as long as no time limit strikes inside a message, both
  ends see whole messages, once and in order, however reads and writes split
  them. `CallsEnd`: every call of the client returns, also when both ends are
  blocked in `write`, unless the server was left with half a request.
- `ConnectedIsRegistered`: a server that believes it is connected has, events
  apart, a live session and a znode. `NodePathIsOwn`: its `node_path` names a
  znode of its own session. `RestartSupersedes`: sequence numbers are unique
  and a restarted server's are larger. `NoServerInChain`: see above.
- `RequestRegisters`: a request for a znode is eventually granted.
- `ProcessesAgree`: a server takes connections exactly while `main` serves, and
  open connections and running threads belong to such servers.
  `LookupTakesNewest`: the child a client picked is not that of a process whose
  successor was registered when it looked, and the address it reads is the
  owner's or no server's. `ImplementsServers`: seen from the clients, the whole
  is `KVServer`, so sessions, znodes and lookups change nothing that `KVServer`
  promises.

### Bounds, and why they suffice

- Keys and slots: chains of 0 to 3 nodes next to a one-node chain reach each
  branch of `list_add` and `list_remove`. In `kvserver` two keys share the only
  list, so a removal meets an empty list, the key alone, and another key alone,
  and two insertions overlap with different keys and with the same one.
- Two clients: the interleavings of `table_put` are between pairs of handlers.
  Two requests each: a late answer needs a request that timed out and a next
  one. `MaxSent` is the only counter of `KVServer`; servers restart without bound.
- Two starts and one broken connection per run of `membership`: an old znode
  beside a new one, a resumed session, an expired one. `MaxLives` and
  `MaxLosses` bound these; `membership_live` has three breaks of one
  server's connection instead. The proofs need neither bound.
- `table`: five allocating calls (`MaxCalls`) are an insertion, an overwrite
  and a copy for the caller next to two other entries; calls that do not
  allocate are unbounded.
- `sharedlist`: each thread makes one call. Three keys give a position before,
  between and after the nodes, and each pair of the three operations meets at
  each of them. Three threads on two keys (9.9 million states up to symmetry)
  satisfy the same invariants and action properties.
- `framing`: a message never fits into a socket whole, so both ends block, and
  the size itself is split. Four calls: two that time limits leave behind, the
  one that completes a torn message, and one after it. `Garbage` holds a size
  that is too small, one that is empty and one that is too large.
- `chainkv`: `MaxStarts` bounds the starts of both servers together, so the runs
  are two servers once or one server twice. One request suffices: what
  several do to each other is `kvserver`'s question, and the step-wise
  refinement is proved for all numbers.
- Symmetry is used for clients and for servers in runs that check only
  invariants and steps. Both are interchangeable there: no constant
  distinguishes them, and the lookup compares numbers of znodes only.
- Deadlock is checked in `kvserver` and `kvserver_live`, where a server can
  always be stopped or started. The other systems really stop: `Table` after a
  crash, `SharedList` when each thread has made its call, `Framing` when the
  client has no call left, `Membership` and `ChainKV` when all starts are used up.

### Fairness

`KVServer` assumes weak fairness of the handler thread and of the client's
reads, for each client: threads are scheduled by the operating system, no
handler waits for a lock while others run, and calls of the kernel that can
proceed do. Nothing is assumed of users, of stopping and starting servers, of
the time limit, or of what misused memory does (`Misused`, `Collapse`). `Membership` assumes weak fairness of the main thread until
it serves, of the library's callback thread, and of the library's attempts to
connect, which it repeats by itself. Broken connections, expirations and
crashes are never forced. `SharedList` assumes weak fairness of each thread
inside its call, and not that a call begins. `Framing` assumes it of each end's
transfers and of the handler, and of the time limit, which the kernel enforces
when the client is blocked for good. `ChainKV` and `Ownership` are about
safety and assume none.

## 4. What is proved

All theorems hold for every value of the constants that satisfies the named
assumptions: `TableAssumption` (keys are integers, at least one slot, the hash
maps keys to slots, NULL is no value), `ServerAssumption` (among others:
finitely many clients, which the count of threads needs),
`SharedListAssumption` (a process has finitely many threads and keys, and
values are told apart by the thread that adds them), `FramingAssumption`
(lengths and capacities are positive),
`MembershipAssumption` and `ChainAssumption` (names of no server and of no
value are different from servers and flags). They are checked by TLAPS to the
last leaf.

| Theorem | Statement |
|---|---|
| `TableProofs!TypeCorrect`, `SlotsWellFormed`, `PutUnlinksFirst` | `TypeOK`, `WellFormed`, `PutNeverReplacesInPlace` are invariants of `Table` |
| `TableProofs!SizeIsKeys`, `KeysAreFound` | so are `SizeAgrees` and `KeysAgree` |
| `TableProofs!TableImplementsMap` | `Table` implements `KVMap` |
| `OwnershipProofs!TableOwnsMemory`, `OnlyTheseLeak` | `NoDangling`, `OnlyCopiesLeak` are invariants of `Ownership`, for any number of calls |
| `SharedListProofs!SharedListTypes`, `NoCycle`, `SettledStay`, `SettledAreFound` | `TypeOK`, `ChainEnds`, `InsertsKeepSettled`, `LookupsFindSettled` are invariants of `SharedList`, for any number of threads |
| `KVServerProofs!TypeCorrect`, `TablesStayWellFormed` | `TypeOK`, `WellFormed` are invariants of `KVServer` |
| `KVServerProofs!FoundKeysStay`, `AnsweredPutsStay` | `FoundKeyHeld`, `AnsweredPutHeld` are |
| `KVServerProofs!ConnectedIsCount`, `AnswersInOrder`, `LastPutsStay` | `ConnectedCountsThreads`, `Pipeline`, `LastPutHeld` are |
| `FramingProofs!FramingTypeCorrect`, `FramingImplementsWire` | `TypeOK` is an invariant of `Framing`, and `Framing` implements `Wire`, for any lengths and capacities |
| `MembershipProofs!MembershipTypeCorrect`, `RestartsSupersede`, `NodePathsAreOwn`, `NoServerEverInChain`, `ConnectedAreRegistered` | `TypeOK`, `RestartSupersedes`, `NodePathIsOwn`, `NoServerInChain`, `ConnectedIsRegistered` are invariants of `Membership` |
| `ChainKVProofs!HalvesAgree` | `ProcessesAgree` is an invariant of `ChainKV` |
| `ChainKVProofs!SystemImplementsServers` | `ChainKV` implements the steps of `KVServer` |
| `ChainKVProofs!LookupTypeCorrect`, `LookupsTakeNewest` | `TypeOK`, `LookupTakesNewest` are invariants of `ChainKV` |

The arguments:

- *Lists* (`TableOpsProofs`): each list function maps a well-formed list to a
  well-formed list, changes what `list_get` returns for its own key and for no
  other, and returns what its header says or `SEGV` on an empty list. The hard
  part is `list_add`: at the first node where the loop stops, or at the last
  one, the neighbours of the new node have keys on its two sides. These lemmas
  carry over to a table and are all that `Table` and `KVServer` need.
- *Sizes and keys*: `table_size` and `table_get_keys` are folds over the slots.
  The library's induction theorems cannot be used, so each is proved by a least
  counterexample: the smallest set of slots (the shortest prefix of the
  lists) for which the fold is not the number (the sequence) of the keys in it
  is not empty, and without one of its members it would still be one.
- *Table*: the inductive invariant is well-formedness plus the type of the last
  call; the refinement follows from it step by step, with `table_get` as the
  mapping.
- *Ownership*: `OwnIInv` adds to the invariant of `Table` that the entries in the
  table come from different calls (`OneEach`), that everything allocated is
  either reached by the table or has one of the names that only copies and key
  arrays have (`Held`), and that for each `table_put` exactly one first key and
  one first block are allocated that nobody has (`Counted`). An entry that is
  freed then shares no object with those that stay, which is what `NoDangling`
  alone does not say.
- *SharedList*: what a thread overwrites may be stale, so nothing about the
  chain is kept by single stores except an order, and that only until `malloc`
  returns a node that something leads to (`Pointed`). `Ordered`: there is a strict
  order of the nodes in which every link, and every link that a thread is about
  to store, leads upwards; hence no cycle, whatever is lost. The order is not
  that of the keys, which overlapping calls do break: it is chosen anew when a
  node is linked, which is possible because a node that no pointer leads to yet
  (`Fresh`, of new memory and of memory that comes back) is unrelated to all
  others. `Intact`, as long as nothing was unlinked (`Clean`), gives `Paths`:
  there are the nodes `S` that were in the list at rest, and for each `s` of
  them a set `U[s]` of nodes, the head among them, from which each link leads
  on to a node of `U[s]` until `s` is reached. A store of the other threads
  respects that, because a new node that takes over the rest of the chain at a
  node of `U[s]` belongs to `U[s]` itself; so a store through a stale pointer
  loses only nodes that are not in `S`. When the list comes to rest again, `S` is chosen anew
  as what the walk meets (`RestPaths`), which ends because of `Ordered`. That no
  access faults (`NotBroken`) follows from it.
- *KVServer*: two invariants. `TypeInv` is typing with tables that are well
  formed outside `raced` and `wild`, and that a `list_add` that runs is in
  flight (`Inserting`): so an end of a list call that finds no other insertion
  in flight has the effect of `TableOps`, and the others set `raced`.
  `AnsweredPutHeld` alone is not inductive: it says nothing about an answer not
  yet sent. `HeldInv` strengthens it to what each connection *knows*: the key of
  a handler that is about to remove or to send "ok" for a PUT is kept (`Kept`:
  held, or lost to an overlap, or memory misused), so are the keys that a list
  call has met, and so is the key of each "ok" on its way. The core lemma is
  that a step of any handler leaves kept keys kept (`Stable`): a removal inside
  `table_put` moves the key to the window of its own thread, the end of the last
  overlapping insertion moves each key from `flight` to the table or to `lost`
  and touches no other key, a DEL moves its key to the window before the crash,
  and the crash closes the connections that know of the key.
- *Connections* (the second half of `KVServerProofs`): the count is inductive by itself, with one element added to
  or removed from the set of running threads at a time. `Pipeline` speaks of
  the sequence of all pending requests; its inductive form gives each answer,
  the request in the handler's hands and each request its place, counted from
  the youngest, so that taking, answering and reading one moves a border and
  changes no number. `LastPutHeld` is strengthened to where a last PUT can be
  (`LastPlace`): at the end of the waiting requests, or in the hands of a
  thread inside `table_put` with none waiting behind it, or kept; and kept keys
  stay kept by the lemma above.
- *Framing*: the flow to an end is what it has read of a message, what is in the
  socket and what its peer has still to write; writes and reads leave it alone.
  As long as nothing is torn it is a sequence of whole messages with growing
  numbers (`Framed`), stated for each byte together with its whole message, so
  that no induction over the sequence is needed; both ends agree on where in a
  message they are (`InStep`, `Rest`), and the numbers are ordered from the
  last answer taken to the youngest request (`InOrder`). Then `Genuine` cannot
  fail, the first chunk of a request is `Send` of `Wire`, unpacking is `Take` or
  `Deliver`, and every other step is none of its business.
- *Membership*: `MemberInv` adds to the types that sequence numbers are below
  the next one and grow with the lives of a server, that the two chain fields
  are never set to anything but their initial values, and that `node_path` is
  the path of the session's own znode. For `NoServerInChain`, `ChildNames` is
  shown to enumerate the names (each name has a different number of names
  before it), and a full path is different from each of them. 
  `ConnectedIsRegistered` is inductive by itself: whatever ends a session or
  takes a znode also leaves an event, a call or a stopped process behind.
- *ChainKV*: the refinement hinges on the reads. `ReadTable` looks at
  `is_tail`, `KVServer` always refuses; that they agree needs that `main` has
  stored the flag before it binds the port, which is in the invariant
  `ChainInv`, together with the agreement of the two halves on the processes.
  For the lookup, `Picked` adds that no znode made later can have a number
  below `seen`.

Only model-checked: `SoloCallsAtomic` and `OverlapsAsAssumed` (each call would
need a loop invariant that relates the walk to the sequence that `TableOps`
searches), and all liveness (`CallsReturn`, `CallsEnd`, `WaitsEnd`, `RequestsHandled`, `RequestRegisters`), since the prover
does not handle fairness and ENABLED. The theorems about `Framing` and
`ChainKV` are about the steps of their abstract specifications, which have no
fairness. Every invariant that a passing run checks is proved.

## 5. Where the code and its documentation disagree

`PROJECT.json` quotes the lines. Four runs end in a counterexample:

| Run | Documentation | Code |
|---|---|---|
| `put_crashes` | shared state is protected by mutexes | two PUTs of one key can end the server |
| `del_answered` | `rtable_del` returns 0 for a key that was there | the server goes down before it answers |
| `ok_put_stored` | `rtable_put` returning 0 means the entry was added | after a time limit it may be the answer to the previous call |
| `acked_replicated` | state is replicated synchronously along the chain | a PUT is answered while the other registered server does not hold the key |

Six more are visible in what the passing runs show:

| Run, property | Documentation | Code |
|---|---|---|
| `table`, `ImplementsMap` | `table_remove` returns 0 or 1 | removing from an empty slot dereferences NULL: the abstract map needs a removal that may end the process |
| `table`, `OnlyCopiesLeak` | `table_put` manages its memory, `table_destroy` frees all | each PUT loses three objects, each table a mutex |
| `kvserver`, `ConnectedCountsThreads` | `network_receive` returns NULL on error | at the end of the stream it never returns, and the thread stays counted |
| `kvserver_live`, `WaitsEnd` | `network_send_receive` returns NULL on error | when the server closes the connection without an answer it never returns |
| `membership`, `NoServerInChain` | the tail serves reads | no server ever is the tail |
| `membership`, `RestartSupersedes` | ZooKeeper holds one node for each live server | each resumed session adds another; only their order holds |

## 6. Where the plan stands

Done, in this order: `TableOps`, `Table`/`KVMap`, `KVServer`, `Membership`, the
proofs of these; then `ChainKV`, `SharedList`, `Wire`/`Framing`, `Ownership`; the
proofs about connections, the whole and the lookup; then `OwnershipProofs`,
`SharedListProofs`, `FramingProofs` and the last two invariants of `Table`.
`Wire` was rewritten with sets of numbers instead of sequences, which says the
same (numbers grow along each direction) and can be reasoned about, and
`SharedList` assumes in addition that threads and keys are finitely many.

Given up: a module for the tail branches of `invoke` against concurrent
writes. No server of the program reaches them (`NoServerInChain`, and
`SystemImplementsServers` for the whole), so every state of such a module would
be one the program cannot be in. `ChainKV` keeps the branches as the opcodes
they may set and the crash of GETTABLE, and shows that they are not taken.

In a revision, `SharedList` got the `malloc` that returns freed nodes, and the
list calls of `KVServer`, which were single steps, got a beginning and an end
between which others overlap them; all theorems about both were restated where
this took something away, and proved again.

Worth doing next: proofs of `SoloCallsAtomic` and `OverlapsAsAssumed`, function
by function, for any number of keys; and steps of `KVServer` as steps of `Wire`
for each connection, which would join the two grains by a theorem instead of a
sentence.

## 7. What is not modelled, and why

- Failing allocations, and failing calls of `accept` and `pthread_create`.
- The memory of messages (`protobuf-c`), the client's memory, and the decoding
  of answers to reads, which never come.
- What misused memory does to data other than the lists of the server: after a
  list call overlapped one that frees memory, `KVServer` lets the list calls and
  the end of the process be anything, but connections, messages and the counter
  of clients stay as they are.
- The loads and stores of list calls *in the servers*: `KVServer` takes the
  effects of overlapping calls from `SharedList`, which has them, for one list
  and one call per thread. That the two agree is checked on its instance
  (`SoloCallsAtomic`, `OverlapsAsAssumed`), not proved.
- Junk after the port in the data of a znode: `GARBAGE` is the port of no
  server, while the digits that happen to follow could in principle form the
  port of another one.
- Byte boundaries *in the servers*: `KVServer` takes messages whole, which
  `ImplementsWire` justifies until a time limit strikes inside a message.
- The polynomial hash: a constant function. Key and value bytes: abstract.
- The text of commands, printing and parsing in `client_hashtable.c`.
- Replication to a successor: dead code in the program as built, and without
  effect if it ran (see `ChainKV`).
- `total_operations` and `total_time_us`: written in no reachable branch.
- `serialization.c` (not compiled), `entry_duplicate`, `entry_replace`,
  `block_replace` (no caller), `ZooKeeper/*.c` (examples),
  `zookeeper_client.h` (no implementation), build files.
