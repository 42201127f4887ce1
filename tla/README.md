# The proof-of-work server in TLA+

Models, model-checking runs and machine-checked proofs for the C program in
`src/`: a TCP server that answers `PING`, checks proofs of work (`SOLN`) and
finds them (`WORK`). The program is `server2.c` + `sha256.c` + `work.c`
(`Makefile`); the other files are variants, copies, tests and a test client.

## 1. The system

### Components

| component | state it keeps | operations | correct when | modelled by |
|---|---|---|---|---|
| **Accept loop** (`server2.c:18-157`) | `client_num`, the listening socket | accept, count, check the limit, refuse, spawn a detached thread | never serves more than the limit; refuses only when it is reached; always returns to `accept()` | `Server`, `SlotLimit` |
| **Connection handler** `work_function()` (`159-408`), one thread per connection | its socket, a 256-byte buffer; shares `client_num`, `work_num` | read, dispatch, reply, run a job, end | every read chunk is answered; every way out gives back what it took | `Server` (control and counters), `Session` (dispatch and replies) |
| **Nonce search** `work()`, `isvalid()` (`410-435`, `469-500`) | nonce (256 bits) | hash, compare, add one | answers with the first valid nonce; ends if there is one | `WorkSearch` (any hash), `Puzzle` (the real one), `MCWork`, `MCSha256` |
| **Target and comparison** `getTarget()` (`437-467`), `sha256_compare()` (`sha256.c`) | none | pure | the target is the three bytes at the place the exponent byte names; the comparison is numeric order | `Uint256`, `MCWork` |
| **256-bit arithmetic** (`uint256.h`) | none | init, shift, add, mul, exp | what the tests call them: shift, sum, product, power, modulo 2^256 | `Uint256`, `MCWork` |
| **Text conversions** `ctob`, `btoc`, `getval`, `getcharacter` (`502-572`) | none | pure | inverse to each other on hexadecimal digits; another character spoils its own byte alone | `Uint256`, `WorkSearch`, `MCWork` |
| **Job list and worker** (`work.c`, `add_to_queue()` 656, `do_work()` 660) | a linked list, `head`, `curr` | add, pop, delete, work | every job queued is worked once, in order, for its client (it is not) | `JobList`: the list under one caller; `JobQueue`: handlers and worker (dormant: the one call, line 375, is commented out) |
| **Activity log** (`574-654`) | `log.txt`, the static result of `localtime()` | append an entry per event; empty the file at a start, other servers' entries too | no reply without its entry; a connection's entries in the order of its events, told apart from others', each with its own time | `ActivityLog` |
| **Test client** (`client.c`) | a socket | write a line, read a reply | in step with the server | `Session` |
| **One-shot variant** (`server3.c`, `server4.c`) | as `server2.c` | as `server2.c`, one message per connection | serves within its limits; gives its slots back (it does not) | `OneShot` |
| **SHA-256** (`sha256.c`, `crypto/`) | a hash context | init, update, final, transform | hashes the padded message, however it is cut; its digest is the standard's | `Sha256`: buffering and padding; `Puzzle`: the compression |
| **Draft, samples, scripts** (`server.c`, `mtrd.c`, `string-helper-functions.c`, `*.sh`, recorded runs, `log.c`) | | | | not modelled |

### How they interact

`main()` accepts a connection, increments `client_num`, and either closes the
socket and decrements it again or spawns a handler. The handler reads a chunk of
at most 255 bytes, takes it for one message, and answers it. For `WORK` it
increments `work_num`, compares, and either rejects and decrements or calls
`work()`, which calls `isvalid()` for one nonce after another, and decrements
after it. When the client closes its end, the handler decrements `client_num`.
The two counters are what the handlers and `main()` share in memory; nothing
locks them. They also share the log: `main()` enters each connection it serves,
a handler each message it reads, before it answers, and most replies, after they
are written. Each entry is one call that opens, appends to and closes `log.txt`,
and takes its time from the one `struct tm` that `localtime()` has for the
process. A queue of jobs with a thread that works on them is in the source and
not in use: a handler runs its own job.

### What is hard

* **Unlocked counters.** `x++` and `x--` are loads and stores; any update may
  be lost to another thread (lines 109, 121, 179, 303, 310, 374).
* **Exits on an I/O error.** Every failed `read()` or `write()` ends the
  handler at once, without `client_num--`; `SIGPIPE` may end the process.
* **Check after increment.** Both limits are judged by a counter that already
  holds the request being judged, and is read a second time for it.
* **Order of effects.** A rejected `WORK` is answered, then uncounted, then the
  result of the write is looked at; a socket is closed before it is uncounted.
* **Endless jobs.** `work()` on a target no nonce meets never returns.
* **Arithmetic.** The shift moves its carry by the wrong count and leaves part
  of its result unwritten; it is right only where the server happens to use it.
* **Sessions.** One `read()` is taken for one message; the buffer the command
  is compared in, `firstFour[4]`, lacks its terminator.
* **The job list.** What a function returns and what its caller makes of it
  differ by the end that is added to; a head passed by value dangles; freed
  addresses come back.
* **The worker and the handlers.** `do_work()` reads `head` three times and
  `curr` once while handlers change both; `pop_head()` cannot take the last node.
* **The log's neighbours.** Entries name a descriptor, and descriptors are used
  again; the time of one call may be overwritten by another's; the process may
  end between a reply and its entry. A second start empties the file of a server
  that is running, and on another port both go on writing to it.
* **Block edges.** `sha256_final()` pads into one block or two; the block
  holds older bytes behind the last of the message.

`PROJECT.json` lists each hazard at its line, with the properties that cover it.
Three have none. A process that has ended on `SIGPIPE` satisfies all that `Server`
says. A job that no nonce solves is in the models (`stuck`, an empty `valid`), and
the properties excuse it, because the code promises nothing of it. And `btoc()` reads past
`nonce` and writes past `solution` (`server2.c:495-496`): the models have no
memory beside the arrays.

## 2. Modules

### `Server` and `SlotLimit`

| in `Server` | in `server2.c` |
|---|---|
| `client_num`, `work_num` | the two global counters |
| `pc[c]` | where the thread that works for connection `c` is: `main()` from `accept()` to the spawn, the handler afterwards |
| `reg[c]` | the value that thread loaded and has not stored yet |
| `up` | the process runs |
| `peer[c]`, `left[c]` | the client: connected, closed, reset; chunks it may still send |
| `clientRaced`, `workRaced` | auxiliary: some store overwrote an update made after its load |

An action ends at an access of a shared counter. A thread's work between two
accesses touches its own connection only, so it commutes with every other
thread and belongs to the action before or after. `x++` is therefore two
actions (`Accept` loads, `CountClient` stores); the comparison with the limit
is a third (`CheckLimit`), and it reads the shared counter anew, as the code
does. A write is a separate action where the counter is touched after it
(`RejectWork`) or where it may fail (`WriteReply`).

`RecvOther` stands for every branch that writes one reply and touches no
counter; which reply, and for which bytes, is `Session`'s. `RecvWork` is
a chunk that reaches the `WORK` branch, and `CheckWork` chooses whether it has
the right length and whether any nonce meets its target (if none does the
handler is `stuck`). The code that builds the job behind the flag at lines
331-370 is not reachable with a message of the length the branch requires and
has no action. A failed `pthread_create()` or `accept()` ends the process; so
may a write to a reset connection (`SigPipe`). On such a write the code may
also see an error: both are in the model.

The two properties `ServesWithinLimit` and `WorksWithinLimit` are refinements:
`SlotLimit` is the abstract promise of a limit - at most `Limit` users are
admitted, until an update is lost - and `Server` implements it twice, with
`Served` (limit `MAX_CLIENTS - 1`) and with `Working` (limit `MAX_WORK - 1`).
Both limits are one below the constant, because the counter includes the one
who asks.

### `Uint256` and `WorkSearch`

`Uint256` is a number as the code keeps it, `Size` bytes with the most significant
first, and all that is done with one: `uint256.h` byte by byte and bit by bit,
`getTarget()`, the comparison of `sha256_compare()`, the `Hashed` last bytes
that `isvalid()` takes, and the conversions between bytes and the hexadecimal text of a
message (`Ctob`, `Btoc`, `GetVal`, `GetCharacter`). `getval()` of a character that is
no lower-case digit falls off its end: its value is a parameter, any byte.
The bits of a byte are a constant (`Width`, one, two, four or eight) and so is their
number in the exponent of `uint256_exp()` (`ExpBits`). The powers of two are a
table, `Two`, of which `PowersAssumption` says what is in it: the prover does not know `^`.
The bitwise or of a shift is a sum over bits (`Or`), and the loops of
`uint256_mul()` and `uint256_exp()` are recursive functions: one turn for each bit that
is set (`SetBits`), and `Turn`, as many times as the exponent has bits. The outputs
are as the code leaves them: `Sl` takes the old contents of its result as a
parameter, because `uint256_sl()` does not write all of it, and `Mul` passes
the same `temp` from shift to shift. `Value` says which number a sequence of bytes
stands for; `Bit` and `Placed` are what a power of two and a target should be.

`WorkSearch` is `work()` and `isvalid()` on those bytes: `isvalid()` hashes the last 8
of 32 only, while the addition carries through all. The hash is an arbitrary set
`valid` of hashed nonces, chosen in `Init`: every seed, every target and every
hash function is one of those. When it returns, the reply holds the digits of the bytes hashed
(`solution`), which the client may send back in a `SOLN`.

### `MCWork`

`MCWork` runs them in two ways. One is `WorkSearch`. The other calls one function
on operands from small sets and states the reference: the value of a number, and
the place of a bit. Shift, sum, product and comparison are called at a small size
(`Small`), compared with integers; powers, targets and conversions at the
code's 32 bytes of 8 bits (`Real`). `ExpBits` is 30 in the runs: the exponent is an
unsigned int of 32 bits in C, the values TLC can hold end below 2^31, and bit 31 of the
exponent is only reached by the wrapped exponents of `getTarget()`, where the result is
already zero. The proofs hold for 32 as for 30.

### `Puzzle` and `MCSha256`

`Puzzle` is `work()` on one job with the real hash: two passes of SHA-256 over
seed and nonce, every turn of the loops of `sha256_transform()` a step, the
digest's bytes compared with the target of `getTarget()`, the nonce advanced by
`uint256_add()`, and the answer as `btoc()`'s digits. A word is the sequence of
its bits. Both messages fit one block, which is padded as `sha256_final()` does.
The job is one recorded in `src/log.txt`, its start moved to four nonces before the
recorded solution. `MCSha256` runs it beside `Sha256`, each in behaviors of its own.

### `Session`

One client of the kind of `client.c` - write a message, read once, go on - and
one handler, with a byte stream in each direction. A message or reply travels in
two parts, and a `read()` returns any prefix of what has arrived: one message,
part of one, or several. The alphabet (`Kinds`) is what the branches of
`work_function()` tell apart: the command and, for `SOLN` and `WORK`, the length
they ask for. `BACK` and `BACKLINE` send the last reply back, without and with a
line end: that is how a solution of 95 characters becomes one of 97. `Replies`
is the chain of branches in the code's order. `terminated` says whether the byte
behind the command in `firstFour` happens to be NUL; that stack slot is never
written, so it is chosen once.

Abstracted: a message is cut at most once and the command is never cut; a cut
or joined text whose length happens to be 97 or 100 counts as a wrong length.
Hang-ups, I/O errors and the job counter are `Server`'s (here a `WORK` may be
rejected at any time).

### `OneShot`

`server3.c`. Its `main()` is line for line that of `server2.c`, so `OneShot`
instantiates `Server` with one chunk per connection and takes `main()`'s actions
from it; the handler's actions are its own: one message, one reply, no
`close()`, no `client_num--`, and `exit()` of the process on a failed call. A `WORK`
over the limit is sent back as it came and stays counted (`kept`). Connections are
numbered in the order `accept()` gives them, which loses no behaviour. `peer[c]` is
`rst` once the client has reset its connection: every later `read()` or `write()` of it
fails (`IOFails`).

`server3.c` does not compile as it stands: its `work_job_t` (lines 13-18) is another than
that of `work.h`, which it gets through `server.h`. The model is of what its source
says. Its log functions are left out: they write to the global `fp`, which `main()`
has closed at line 46.

### `JobList`

`work.c` at pointer level. A node is the address `malloc()` gave it; `free()`
makes the address available again; `next`, `prev` and `alive` are the heap.
`head` and `curr` are kept as `server2.c` keeps them: what `add_to_list()` and
`pop_head()` return becomes `head`, `curr` is passed by address, and
`delete_from_list()` gets `head` by value. A pointer followed into NULL or into
a freed node ends the run (`ok`). `delete_from_list()` is one action: `Deleted`
folds its loop. The list has one caller at a time here.

### `JobQueue`

`add_to_queue()` and `do_work()` as threads over `JobList`'s heap. What a call does
in one step in `JobList` is taken apart into the accesses of what is
shared: an addition reads `head` for its argument, links the new node
(`SetPrev`, `SetNext`), sets `curr`, and its result becomes `head` (`EndAdd`); the
worker reads `curr` for the client (`TakeClient`), `head` for the job (`Work`),
`head` again for the pop, and stores the result (`Answer`). Each handler has its
own program counter; a freed address may come back to any of them. Any call may find that
`malloc()` fails (`NoMemory`): then `NULL` becomes `head` (`EndAdd`), under
the eyes of a worker that has seen a job there, and pops nothing. `failed` counts these
calls. `overlap` is auxiliary: whether any two of these threads have met.

### `ActivityLog`

`main()` and the handlers as far as the log sees them: `Accept`, `Refuse`, `Read`,
`Reply`, `Reject` (an `ERRO` that gets no entry), `ReplyFails`, `Close`. A log call is
three steps: `TakeTime`, `Localtime`, which fills the shared struct, and `WriteEntry`,
the `fclose()` that lets the bytes out. `seen[c]` collects what the struct held
from the call's own `localtime()` to its copying, so an entry's stamp may mix two
times (`Stamps`). `fd[c]` is the descriptor, free again after `close()`.
The program may be started as several `Servers`: `proc[s]` is where a process
is, and `to[c]` the one a connection is made to. `Start` is `main()` up to the log
file, which it empties; `Bind` lets it go on or exit, whether or not another server is
running, because the port is an argument; `Crash` ends a process with its open buffers.
Descriptors and the struct of `localtime()` are each process's own; the file is one
for all. An entry is its kind, descriptor, connection and the number of
the message it is about; the connection is not written by the code (it logs an address
`accept()` was not asked for) and is there for the properties.

### `Sha256`

The context of `sha256.c`. The compression function is any function folded over
the blocks, so `hashed` is the blocks themselves, one behind the other. The
block size, the bytes of the length field and the bits of a byte are constants;
the powers they stand for are recursive functions (`Base`, `Weight`), which the proofs expand.
`data` keeps what it held, as in the code.

### Proof modules

`Server_proofs`, `Uint256_proofs`, `WorkSearch_proofs`, `Sha256_proofs`,
`Session_proofs`, `OneShot_proofs`, `JobQueue_proofs` and `ActivityLog_proofs`
extend the modules they are about. `WorkSearch_proofs` is about `WorkSearch` and the
calls of `MCWork`; for these it instantiates `Uint256_proofs` at both sizes.

Some modules hold a few definitions commented `Mutant`: a step as it would be with a
plausible mistake in the code. Nothing uses them; put in place of the definition
`PROJECT.json` names, each makes the property named with it fail.

## 3. Runs

| run | what it asks | instance | states |
|---|---|---|---|
| `clients` | does `client_num` stay below its ceiling, count what it should, and serve within the limit; is every chunk answered, every departure noticed, does `main()` return | 3 connections, `MAX_CLIENTS` 2, `MAX_WORK` 2, 1 chunk, fairness | 221 thousand |
| `work` | does every way through the `WORK` branch give its slot back; do jobs stay within the limit | 3 connections, `MAX_CLIENTS` 3, `MAX_WORK` 2, 2 chunks | 1.5 million |
| `lost_update` | finding: `ClientLimit` fails | 3 connections, `MAX_CLIENTS` 2 | |
| `leaked_slots` | finding: `RefusedOnlyWhenFull` fails | 3 connections, `MAX_CLIENTS` 3 | |
| `shift_carry` | finding: `ShiftsLeft` fails | 3 bytes of 8 bits | |
| `computation` | first solution, bound and end of the search on bytes, its solution read back; sum and comparison everywhere, shift and product where the server uses them; powers of two, targets, conversions | nonces of 5 bytes of 1 bit, 3 of them hashed, all 256 sets of valid nonces, all starts, 0 or 255 for a digit that is none; 4 bytes of 4 bits; 32 bytes of 8 bits, every exponent byte, edge coefficients | 359 thousand |
| `sha256` | is the message hashed, whole and padded, however it is cut; does a recorded job get its recorded solution | blocks of 5 bytes of 3 bits, 2 for the length, messages up to 11 bytes; one job at the real size, 5 nonces | 71 thousand |
| `session` | when is the reply read the reply to the message written; does the client get through | three messages, every kind first or last, every cut | 890 thousand |
| `log` | what can be read off the log, whatever interleaves, crashes, is started twice or runs side by side | 2 connections, 2 descriptors, 2 messages each, 2 servers, minutes of 2 seconds, the last of one and the first of the next | 1.9 million |
| `one_shot` | do the limits of `server3.c` hold, and exactly; what becomes of it when a client resets its connection | 4 connections, `MAX_CLIENTS` 3, `MAX_WORK` 2, fairness | 123 thousand |
| `job_list` | shape of the list, where it faults, when its holder loses it, what its holder sees | 4 addresses, 2 clients, every sequence of calls | 172 thousand |
| `job_queue` | what the worker gets done, with and without races | 3 addresses, 2 clients, 4 calls of `add_to_queue()` | 1.9 million |

**Bounds.** `Conns` is the connections ever opened, each once; the code treats
a new connection like any other. With three of them and `MAX_CLIENTS` 2, two can
race for the one slot while a third departs; one more (`MAX_CLIENTS` 3) lets two
handlers compete for the one job slot while each returns for a second job
(`MaxChunks` 2). In `one_shot` two connections are let in, one is refused, and a
fourth comes after that, with all handlers returned or not. A lost update needs two threads and a further one to see the
result. The proofs lift the safety results to any number of connections,
chunks and slots. Four bytes
of four bits exercise every carry path of the arithmetic (half-byte, whole-byte,
none) over enough operands to be called exhaustive in the low half; the real
width is run where the number of operands is small. Three messages let one
read go wrong, its successor be misread, and a third show it. Four nodes give a
list with an inside of two and one address to come back. In `JobQueue` three
addresses for four calls make one come back while the worker and two additions
hold pointers to it, or one call fail while the worker is at the job of another. Nonces of five bits of which three are hashed let a search begin
behind its last solution and wrap the hashed part, with carries of every length. In `ActivityLog` a
descriptor is used by both connections, one after the other in one server, or at once
in two; a crash and a second start fall into every step of both; and with minutes of two seconds and a clock from the last second of one (`FirstSecond`) to the
first of the next, a call straddles a minute while another does not. The proofs lift all five of its properties to any
number of each. Eleven bytes reach into
a third block of five, and every remainder of the length is met, those that need a
second block for the padding among them. Symmetry in the connections
(and the log's descriptors and servers) is used in runs without liveness only.

`CHECK_DEADLOCK FALSE` is set everywhere: a server whose process has ended, or
which no client calls, stops, and so does a computation that has returned.

**Fairness.** Weak fairness of `main()` between two `accept()`s, and of each
handler whenever it does not wait for data: the threads are ordinary POSIX
threads under a preemptive scheduler, and no step of them waits for another
thread. `FindSolution` is among the fair steps: a solvable job ends
(`computation`, `SolvableIsSolved`); an unsolvable one is `stuck`, which no fair
step leaves. Weak fairness suffices because a handler's step, once enabled, stays enabled
until it is taken or another step of the same handler is. Clients are not
obliged to connect, to send or to leave, and `accept()`, `pthread_create()` and
`SIGPIPE` are not obliged to fail. `OneShot` assumes the same of its threads; there a `read()`
is no fair step. `WorkSearch` (and `MCWork`, of `WorkStep`) assumes weak fairness of the
loop. `Session` assumes weak fairness of its whole next-state relation: TCP
delivers, the handler is scheduled and jobs are solvable; a client runs until it waits
for a reply. The other modules state no liveness.

## 4. Findings

* `lost_update`: the limit of clients (`server2.c:118`) fails. A handler loads
  `client_num` for its decrement, `main()` stores an increment, the handler
  stores its value: one connection is served and not counted.
* `leaked_slots`: `main()` refuses clients while a slot is free. A handler
  whose `read()` or `write()` failed never decrements. No race is needed.
  `OrderlyClientsLeaveNoTrace` says that only reset connections do this.
* `shift_carry`: `uint256_sl()` moves the bits that leave a byte by `move_n`
  where it should be `8 - move_n` (`uint256.h:38`): 2 shifted by 7 is 0.
  `ExactWhereUsed` says where it is right: shifts by 0 or 4 bits beyond whole bytes.

Met on the way and stated by properties that hold:

* `uint256_mul()` of a factor with bits in two bytes adds the bytes an earlier
  shift left in `temp` (`uint256.h:81`): 1 * 0x10001 is 0x10002.
  `ExactWhereUsed` and `TargetPlaced` say why `getTarget()` is right in spite
  of this and of the shift.
* `pop_head()` of the last node stores through NULL before it looks for the
  empty list (`work.c:148`), and so does `delete_from_list()` (`work.c:123`):
  `FaultsOnlyAtTheEnd` says that with a live head nothing else does. Deleting the
  first node leaves the caller with the freed one (`work.c:131`):
  `HeadFreedOnlyByDelete` says that no other call does. `ListShape` and
  `WorksAtTheFront` say what can be relied on: with a live head the list is well
  formed after every sequence of calls, and adding at the front, popping and
  deleting inside it do what they should; adding to the end makes the new node
  its caller's head, as `add_to_queue()` takes it (`work.c:67`, `server2.c:657`),
  and the nodes before it are lost to him.
* So the queue cannot work as it is, and the call of it is commented out: without a race
  the worker answers no job: its first pop has no next node to go to
  (`UndisturbedWorkerFails`). With races it stays behind the additions
  (`NewestJobUnanswered`): it has answered fewer jobs than were added, but for one more for each
  failed `malloc()`. Such a failure makes `head` `NULL` (`work.c:41`, `server2.c:657`); the queue
  is lost, and a worker that had begun with a job pops nothing and answers.
  TLC finds that the allowance is needed: one job, one failed addition, one answer.
* The log is better than its lack of locks suggests: every entry is in the file
  before its thread goes on, so no reply comes without the entry of its message
  (`RepliesComeAfterTheLog`), and one server never enters a descriptor for two connections
  without a `CONNECTION` between (`DescriptorsTellApart`). But an entry does not say whose it
  is: servers on two ports write to one `log.txt`, use the same descriptors, and their log
  cannot be taken apart. What may be wrong is the time
  (`StampsTrue`), and what is missing at a crash is the last `SEND` (`SendsKeepUp`).
* A `WORK` that `server3.c` sends back over the limit is never uncounted
  (`server3.c:227`): `WorkAccounting` of `OneShot` counts it for good.
  `OpenWithinLimit` and `FirstComersOnly` say what becomes of
  its connections: the limit `server2.c` can miss always holds, because nothing
  of a served connection is ever given back, and for the same reason the server
  fills up for good: the first `MAX_CLIENTS - 1` are let in, whoever comes later is not.
* `server3.c` ends the process where `server2.c` ends a handler. `ResetEndsServer`: a client
  that resets its connection between its command and the reply always ends it for all,
  unless its job has no solution.

`Session` has no violated property: the sources promise no framing. What it
shows is when the conversation can be trusted: as long as no `read()` cuts a
message (`ConversationInStep`), which a client in lock step cannot cause by
itself (`LockStepKeepsMessagesApart`), and that a wrong reply is still a reply
(`ClientFinishes`).

## 5. Proofs

All proofs are for every value of the constants under the named assumptions of the
modules: finitely many connections and positive limits (`ServerAssumption`,
`OneShotAssumption`), a table of powers of two (`PowersAssumption`), bytes of one, two, four or eight bits, at
least one byte of a nonce that is not hashed and an exponent that can name
every place a byte can (`Uint256Assumption`), inputs of the calls that are
numbers of their size, and an exponent of eleven bits or more (`InputsAssumption`), digits misread as some byte (`WorkSearchAssumption`), a block
larger than its length field (`Sha256Assumption`), bounds that are numbers, minutes that are not empty and a first second before the last
(`ActivityLogAssumption`), finitely many nodes none of which is `NULL`
(`JobListAssumption`), scripts that are sequences of messages
(`ScriptsAssumption`).

**`Server_proofs`**

* `TypeCorrect`: `TypeOK` is inductive; one step per action.
* `ClientAccountingHolds`, `WorkAccountingHolds`: given `TypeOK`, the accounting
  is inductive by itself. `ClientSteps` (`WorkSteps`) shows every action does one
  of three things: store one more as a connection joins the counted, store one
  less as it leaves, or neither. While no update has been lost the stored value
  is the current one plus or minus one, and so is the cardinality.
* `ClientCeilingHolds`: `ClientCeiling` is not inductive: a store adds one to a
  value loaded earlier. `CeilingInv` adds that `main()` handles one connection at
  a time (`OneAtATime`), that outside its check and take-back the counter is
  below `MAX_CLIENTS` (`RoomForNext`), and that every pending load is of a
  value in range (`LoadsInRange`). It holds in every interleaving, lost updates
  included.
* `OrderlyClientsLeaveNoTraceHolds`: from the accounting and an invariant
  (`LeakersAreReset`) that handlers end without uncounting only on a reset.
* `ServesWithinLimitHolds`, `WorksWithinLimitHolds`: the refinement of
  `SlotLimit`. The initial state maps to its initial state; a step that admits a
  connection has passed the check, so by the accounting the counter it read,
  which includes itself, bounds the number already admitted; every other step is a release, a loss, or a
  stutter. `UsersWithinLimits` is what they come to, proved from the steps of
  `SlotLimit` alone: a bound on served connections and running jobs.

**`Uint256_proofs`**: for numbers of any length

* `AddIsSum`: below any place, the bytes of the sum and the carry out of that place are
  worth what the two terms are (`CarryUp` is one place, `AddIs` what the loop stores
  there). So the value of the sum is the sum of the values modulo the number of values.
* `CompareIsOrder`: the first byte that differs outweighs all below it
  (`FirstDecides`). So no two numbers have one value (`OneNumberPerValue`).
* `ShiftIsProduct`: where the count of the carry is right (`CarryRight`: no bits, or half a
  byte), or-ing loses nothing, because the bits shifted and the bits passed on do not
  meet (`OrSum`); so each byte is what it was times the power, less what it passes on, plus what it
  got (`ByteSum`), and the sums from below agree (`ShiftUp`) with those of the number
  cut where the shift pushes it out (`LowSplits`).
* `MulByPower`: a power of the base has one bit set (`ValueOfBit`, `SetBitsOfBit`), so
  the product is one shift, by whole bytes, into an array that is still clear (`MulOne`).
* `ExpIsPower`: every number in the loop is one bit: the square the bit 2^m, what is set aside
  a lower bit, and with the exponent left they make the whole (`OnTheWay` is the loop's
  invariant). A shift of one bit is right if the bit stays in its byte or is half a byte
  moved by half a byte (`Meets`, `ShiftOfBit`); `PowerMeets` says that all shifts of
  the loop are of these kinds when bytes have more than one bit, because 2^m is less than
  a byte and divides it, or is whole bytes. A bit beyond the number is lost, and stays so
  (`ProductOfBits`).
* `TargetIsPlaced`: the power is one by whole bytes or is out of the number, an exponent below
  3 included, which wraps (`ShiftOfIs`, `WholeBytes`), and the product moves the three bytes of
  the coefficient (`TimesBytes`).
* `TextIsNumber`: `getval()` undoes `getcharacter()` (`GetValIs`), so `ctob()`
  makes of each pair of digits the byte it was (`BtocIs`, `CtobIs`) and puts it in its place.

**`WorkSearch_proofs`**

* `FirstSolutionHolds`, `SearchBoundedHolds`: no nonce worth less than the current
  one and not less than the start is valid (`NoneSkipped`), which is kept because the next nonce
  is worth one more and no other nonce is worth the same. A valid nonce as it stands, or with a one in
  the byte above the hashed ones (`OneAbove`), lies at most 2^64 above any start (`EveryHashed`),
  so a solvable search ends before that and never wraps at 256 bits
  (`RoomAbove`: a nonce has at least one byte more than is hashed).
* `NonceComesBackHolds`: `ctob()` puts the bytes of the text where
  `isvalid()` takes them from (`LastBytes`), whatever a byte of them has become (`ReadBack`).
* `ExactWhereUsedHolds`, `PowersOfTwoHolds`, `TargetPlacedHolds`: `CallInv` says that
  a result is what its operation makes of its operands, and that these are numbers; the facts
  of `Uint256_proofs` at the two sizes (`SmallFits`, `RealFits`) say the rest. So the
  three properties the run checks on its inputs hold for all: exponents, difficulties, texts
  and operands. `SmallSame`, `RealSame` and their like say that the operations `MCWork` calls
  are those the facts are about.

**`Sha256_proofs`**

* `NothingLostHolds` (under `Sha256Assumption`): for blocks of any size and any
  sequence of calls, the bytes folded into the state, the filled part of the
  block and the rest of the input make the message. The strengthening `Filling`
  says what is a sequence of bytes and that the block has room
  (`datalen < Block`); `StoreByte` and `MoveByte` are the lemmas about one byte.
* `HashesThePaddedMessageHolds`: `Counting` says that the bytes hashed are whole blocks
  and that the counter is their number of bits, modulo what it can hold. `FinalStep` compares what
  `sha256_final()` appends, in the one block or in two (`PaddedIs`), with the
  padding as it is defined (`ZerosNeeded`, `LenFieldIs`): the digits of a number
  do not change when it is cut to as many (`LenFieldOfMod`).

**`OneShot_proofs`**

* `OneShotTypeCorrect`, `OpenWithinLimitHolds`: no
  handler stores `client_num`, so nothing is lost and it is exact: `MainInv` says it
  is the number of connections counted, that what `main()` has loaded it still holds,
  and that outside its check and take-back it is below `MAX_CLIENTS`.
* `FirstComersOnlyHolds`: when `main()` judges a connection, `client_num` is one more than
  the connections let in (`JudgedAgainstOpen`: every other one counted is open). So the
  first one turned away finds `MAX_CLIENTS - 1` of them, and while there are as many nobody
  passes (`FirstInv`); none of them ever stops being open.
* `OneShotWorkAccountingHolds`: `WorkInv` counts `Holders`, the handlers in the
  branch and those that were sent back; a job that works has passed
  the check, and holds.

**`Session_proofs`**

* `LockStepKeepsMessagesApartHolds`: as long as no `read()` has cut anything
  (`Uncut`), the two ends are in one of three situations, `Quiet` (nothing in flight, the
  client about to write), `Asked` (one message in flight, or part of it), `Replied` (one
  reply), and what was read and answered is in order (`InOrder`). `InStep` is
  inductive: writing, both halves of a delivery, reading and answering
  each lead from one situation to the next or cut something.
* `ConversationInStepHolds` adds `Meaning`: what was read as a reply is one that the
  branches give to the message before it (`ReplyMeans`).

**`JobQueue_proofs`**: the list

* `ListShapeHolds`: `ListInv` says that while head lives there is a sequence of
  nodes from it (`List`): different ones, linked both ways, the last one `curr` and
  without a next. Each function leads from one such sequence to the next
  (`CreateStep`, `BeginningStep`, `EndStep`, `PopStep`, `DeleteStep`).
* `NthIs`, `NthOfList` and `SeenOfList` say that following the pointers goes
  through that sequence, and `SearchFinds`, `SearchFails` what `search_in_list()`
  returns on it.
* The loop of `delete_from_list()`: `UnlinkInside` and `UnlinkLast` are one turn;
  `TurnStep` carries on what any number of turns leaves (`Left`), which is a list of
  the nodes kept, in their order, or a fault at the last; `Deletion` is its end: no
  node of the client is left, because each turn that finds one makes the list shorter.
* `FaultsOnlyAtTheEndHolds`, `HeadFreedOnlyByDeleteHolds`, `WorksAtTheFrontHolds`
  follow from the invariant and these lemmas.

**`JobQueue_proofs`**: the queue

* `UndisturbedWorkerFailsHolds`: `Undisturbed` says that without an overlap one
  thread at most is under way (`Alone`), between additions `head` and `curr` are the
  same live last node (`Settled`), an addition links its node to it (`Linking`), and
  the worker's client is that node's (`OneJob`). The pop then meets a node
  without a next one.
* `NewestJobUnansweredHolds` needs no shape. A pop of a node needs a next pointer that is set,
  and takes it out of the heap with the node. Only an addition sets one, one each, and the
  first sets none. A pop of `NULL` needs a head that was lost since the worker saw it, which takes
  a failed `malloc()`; a pop that is `Due` in this way is counted when head becomes `NULL`.
  So the jobs popped, the next pointers set (`Chained`) and the pop that is due are together
  fewer than the additions that have come as far (`Linked`) and the failures. `CountInv` says
  so in every interleaving, freed nodes that come back included.

**`ActivityLog_proofs`**

* `LogTypeCorrect` needs `InCall`: a thread has taken a time only inside a log call.
* `StampsTrueHolds`: `Times` bounds what a struct may have held by the clock, and
  says a call alone has seen its own time only; `Division` is the arithmetic of minutes and
  seconds.
* `RepliesComeAfterTheLogHolds`: `Talk` ties the number of replies to that of the
  messages read at each place in the handler; `FromsLogged` says the same of the `FROM`
  entries since the file was last emptied. Entries are never changed
  (`LoggedStays`), except by a start, which moves `since` up.
* `DescriptorsTellApartHolds`: open connections of one server have different descriptors, and
  the newest `CONNECTION` entry of an open connection's server and descriptor, if a start has
  not emptied it away, is its own (`OwnDescriptor`);
  `EntryApart` is the step that adds one.
* `SendsKeepUpHolds`: `SendsLogged` for what must be there, `EntriesBehind` (no entry
  is ahead of the conversation) and `EntriesInOrder` for what may.

**Induction.** The library's induction theorems take an operator and cannot be used
here. Where a number of steps is not known - powers, bytes of a number, the pointers followed, the turns of a
loop - the proofs take the set of the numbers for which a fact fails and its least
element (`Least`, and `Failing` for the numbers up to n), which `WFMin` of
`WellFoundedInduction` provides; or the set of those for which it holds, which contains
all up to n if it contains 0 and never stops (`Climb`).

**Only model-checked.** The liveness properties (`EveryChunkAnswered`,
`DepartureNoticed`, `MainReturns`, `SolvableIsSolved`, `ClientFinishes`, `ResetEndsServer`): out of the
prover's reach. `AnswersAsRecorded`: one computation with the real hash, which only TLC can run.
The violations of the findings are TLC's.

## 6. Not modelled

Socket options, addresses and argument checks
before the accept loop: they run once, before any of the above. The wording of
replies and of log entries, and what is printed. A `write()` that blocks because a
client never reads (replies have at most 100 bytes). A message of several blocks
through the real compression: the server hashes none, and `Sha256` puts an arbitrary function
in its place, which is the stronger claim. A full disk, or an
`fopen()` that fails in a log call: the code does not look at either. `server.c` does not compile; of `server3.c`, which does not either, the log functions.
`mtrd.c` and `string-helper-functions.c` are samples, `crypto/` and `log.c` are
copies. `disconnect_log()` and `uint256_exp()` with its
base as its result are called by no program here; `print_uint256()` prints.

## 7. Plan

1. Refinement of `Server` by dispatch: `Session`'s branches for `RecvOther`
   and `RecvWork`, so that one model has both the counters and the replies.
2. The loop of `sha256_transform()` against a definition of the standard, so that
   `Puzzle` is checked by more than one recorded job.
