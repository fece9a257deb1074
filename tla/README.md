# oxyale in TLA+

Formal models of *oxyale*, a client library for the Palace chat protocol written
in C on libuv. The modules follow the code of the repository (`src/*.c`,
`include/*.h`), TLC checks them on small instances, and TLAPS proves every
safety property of a passing run, and the refinements, for every value of the constants. `PROJECT.json` maps
each definition to the lines it models and lists runs, mutants, findings,
hazards and theorems.

    tlc -workers 2 -config MCPalClient.cfg MCPalClient    # check a run
    tlapm PalClient_proofs.tla                            # check the proofs

## 1. The system

An application creates an `OXLPalClient` on a libuv loop, calls `Connect`, and
runs the loop. Everything else happens in callbacks, one at a time, on one
thread. There are no locks and there is no persistence: what makes the code hard
is the *order* in which the loop delivers completions, reads, timers and closes
between the application's calls, and what each callback assumes of state that
another one left.

| component | state | operations | talks to |
|---|---|---|---|
| connection life cycle (`palclient.c`) | `state`, `socket`, the libuv handles it has opened | Connect, the resolve, open and logon events, Disconnect, Terminate | libuv, timer, send and read paths |
| callback layer (`oxlcom.c`) | batons hung on libuv requests and handles | ResolveHostname, OpenSocket, CloseSocket and their completions | libuv; calls the client's events back |
| keep-alive (`palclient.c`) | `txTimer`, two intervals | start, stop, push back on every send, ping | send path |
| send path (`palclient.c`, `oxlcom.c`) | one baton and message per write | SendAndDestroy, SendAndRetain, AfterSend | libuv, logon event |
| read path (`palclient.c`) | `msg`, the header of a message that was begun | ReadEvent: handshake, or framing and dispatch | handlers |
| message handlers (`palclient.c`) | permissions, names, PUID, lists | one per message id | lists, cipher, life cycle |
| cipher (`palcrypto.c`) | `crypto.lut` | Encrypt (Say), Decrypt (XTalk) | random numbers |
| random numbers (`palcrypto.c`) | `crypto.seed` | SeedRandom, RandomInt32/Double/Int16, Init | - |
| registration codes (`palreg.c`) | - | Generate, Trim, StringToReg | - |
| logon, say, goto-room messages | - | build a message | cipher |
| `OXLList` (`oxlcom.c`) | singly linked items | add, insert, remove, clear | client's room and user lists |

`palroom.c`, `paluser.c`, `palprop.c` and `palasset.c` contain no function.
`basic-tests.c` and `oxyale-test.c` use an earlier API; they are read for what
they expect.

What makes the components correct:

* *life cycle*: whoever acts on `state` finds the socket that state promises;
  CONNECTED means that *this* connection logged on, and nothing but the logon
  is sent before it; a disconnect is completed and reported; an answered
  handshake ends; no call or callback uses an unset or closed handle.
* *keep-alive*: the timer runs while the connection does, and is quiet when it
  does not.
* *read path*: every message is dispatched once, whole, by its own id, however
  TCP cuts the stream.
* *cipher and random numbers*: decryption inverts encryption, inside the table and
  the buffers; both sides hold the same table; no 32-bit arithmetic overflows.
* *logon*: a connection is logged on with the settings it was asked for with, and
  the server's reply changes the PUID only when the server changed it.
* *lists and memory*: no item or baton is used after it was freed, or lost before;
  a client that is destroyed leaves nothing behind that calls back.

The hazards the code is exposed to, each at its line, are in `PROJECT.json`.

## 2. Modules

| module | models | instance | proofs |
|---|---|---|---|
| `PalSession` | the session as the application sees it (abstract) | - | `PalClient_proofs` |
| `PalClient` | life cycle, keep-alive, order of writes | `MCPalClient` | `PalClient_proofs` |
| `PalMemory` | `PalClient` with the memory of the callback layer, and Destroy | `MCPalMemory` | `PalMemory_proofs` |
| `PalLogon` | `PalClient` with settings and PUID | `MCPalLogon` | `PalLogon_proofs` |
| `PalKeepAlive` | the timer of one connection, in time | `MCPalKeepAlive` | `PalKeepAlive_proofs` |
| `PalList` | `OXLList` and the room list | `MCPalList` | `PalList_proofs` |
| `PalFraming` | `OXLPalClientReadEvent_` on a byte stream | `MCPalFraming` | `PalFraming_proofs` |
| `PalRandom` | the generator and `OXLInitPalCrypto` | `MCPalRandom` | `PalRandom_proofs` |
| `PalCipher` | a line through Encrypt, the message and Decrypt | `MCPalCipher` | `PalCipher_proofs` |

Every module is laid out alike: constants and their assumptions, variables, the
operations in the order of the source, the next-state relation, the properties,
and the inductive invariant. Operators that a comment introduces as *Variant*
are not used by the specification: each is an operation with a plausible bug,
and is put in its place to see that a property notices.

`PalMemory` and `PalLogon` EXTEND `PalClient` and add variables to its actions; both
implement it (`MemorySpec => Spec`, `LogonSpec => Spec`, proved), so that its properties
hold in them. `PalClient` in turn implements `PalSession`:

    PalMemory  ->  PalClient  ->  PalSession
    PalLogon   ->

### PalClient

Each public call and each libuv callback is one action, because libuv runs them
one at a time to the end.

| model | code |
|---|---|
| `state`, `socket` | `client->state`, `client->socket` (`NoSocket`: never assigned) |
| `timer` | `txTimer`; "unstarted" has no callback yet, which is what `uv_timer_again` asks for |
| `resolving` | `uv_getaddrinfo` requests in flight |
| `handle[s]` | what libuv knows of a `uv_tcp_t`. A handle never returns to "unused" |
| `wq[s]` | writes whose callback is due, in the order they were submitted |
| `greeting`, `logged` | history only: what the handshake read, and where a logon was written |
| `fault` | the undefined behaviour or assertion that ended the run |

libuv is modelled from its use: write callbacks come in order; `uv_close` lets
the callbacks of submitted writes come before the close callback, their
outcome either way; `uv_write` on a closing handle returns an error, which the
code drops; `uv_timer_again` starts any timer that has a callback. Undefined
behaviour (a status printed through `%s`, a function pointer read as a struct)
is a choice: either the process ends there with a `fault`, or, where it may
survive, it goes on. Disconnect and the public sends test nothing: called
without a socket, or a second time, by the application they end in the fault "misuse",
and only the same calls made by the library itself (on Terminate, on a read error, by a
ping) in "badSocket" or "doubleClose". `LoopFaultsNeedOrphan` is about the latter: the
first never happens, the second only beside an abandoned handle.

`Orphans` are handles that carried a connection and were replaced by a later
one. The code lets this happen (nothing in Connect asks), so the model does, and
the properties say which promises survive it (`SocketWhenUp`, `KeepaliveArmed`,
`LogonInFlight`, `GuardedCallsAreSafe`) and which hold only without it
(`ConnectedMeansLoggedOn`, `LogonFirst`, `LoopFaultsNeedOrphan`).

Assumed: the ping interval is not 0 (`PalKeepAlive` is about those that are), and the event
pointers that `OXLInitPalClient__` leaves unset were set by the application.

### PalSession

Six variables: `view` (`client->state`), `current` (`client->socket`), the `phase` of each
connection, the connections on which a logon is `asked` for, those `online`, and
whether the process is `alive`. A connection is begun, comes to stand (and is then the client's)
or fails, and is left; a logon is asked for in the handshake only, and its answer, late or
not, decides the view. There is no timer, queue, greeting or other message. The mapping is
in `PalClient` (`Session`): a handle's phase is `PhaseOf`, a logon is asked for while one
is in the queue. `SessionFairness` adds that every logon is answered. What the
abstract module does *not* promise is as much its point: the answer may belong to an
abandoned connection, Leave does not change the view, and a connection that is begun
need not end.

### PalMemory

Each action of `PalClient` with what it allocates and frees. Blocks are counted by kind (resolvers, the
batons of resolvers, of connects and of writes), per handle where one owns them, so that a block freed twice
shows as a negative count. `unresolved` and `stranded` count the requests
libuv refused at once, whose batons no callback will free: of these, `uv_getaddrinfo`'s
refusal (`oxlcom.c:364`) is an outcome of `ConnectMemory`. `OXLDestroyPalClient` may come at any time, as a call
(`OXLDestroyPalClient`) or from the event of a message or of a disconnect, behind which the reader writes to
the client once more (`DestroyInMessageEvent`, `DestroyInDisconnectEvent`). After it only libuv
acts: `LateCallback` is any callback that looks into the client, and ends the run as `harmed`.

Destroy looks at nothing, so most of the time it is too early. `OrderlyDestroyIsQuiet` says when it is not:
`orderly` records that nothing the application can know of was due (`LeftInOrder`), and the claim is that
the timer, of which it knows nothing, is then off. This is not obvious, because a refused write
starts the timer again beside a closing socket, and `RefusedWriteRearms` says that nothing else does.
Left out are the data that events are handed, and libuv's own list of handles, in which the
timer that Destroy frees without `uv_close` stays linked.

### PalLogon

User name, password, room and delays are one number, that of the call that set them. `owner[s]` is
the Connect a handle was opened for; `logons` are those that were queued, with whose settings
and with what checksum. `overlap` is history: something was set while a resolution,
a connect or a handshake was under way. `OwnOrLaterSettings` says precisely what is left: without
overlap each greeting is answered with its own Connect's settings; with it, with later ones. The
checksum is cut to 16 bits on its way into the message (`HalfMod`), so the
reply to the first logon always looks like a change; `OneFalseChange` shows that it is
the only one, because a checksum that was cut once survives the next cut.

### PalKeepAlive

One connection at a time, ticks for milliseconds, the timer with due time and repeat value as
libuv keeps it: when due it is started again with its repeat value before the callback
runs, and `uv_timer_again` leaves a timer without repeat value as it is. Time does not pass a
timer that is due. A wrapped product makes the pings more frequent, never less, unless it wraps to
0; an interval of 0 pings once at most, whatever is sent.

### PalList

Lists are heads into a heap of items, each "unused", "live" or "freed"; an item stands for an
allocation, not for an address. `next` and `head` are kept as the code leaves them, also when they dangle,
and every call that walks says first what its walk meets: a freed item, a circle
or the null pointer is a `fault`, the end of the run. The two lists may share items (AddList,
TailList). `list->size` is counted as the code counts it: by some calls, and down without a
test. The properties draw the line between what works (`CallsAsSequences`,
`HarmOnSoundLists`) and which calls break a list or lose an item (`SoundUntilRemoval`,
`LostOnlyBy`).

### PalFraming

The stream is described by the place and the length of each message, the chunk
of a read by how many bytes it has; what a field means when it is read from
payload or from memory behind the chunk is a choice from `AnyLens`. `pending` is
`client->msg.id # 0`: the code saves a header there but then never reads it, so
that it matters only for the test on the chunk's length. `last`, `alone`,
`handled`, `missed` and `split` are history: a message counts as handled when it was dispatched by its own
id with all its bytes in the chunk, and as missed when the stream went past any of it otherwise.

What comes out is a precise account of a reader that takes each chunk for one
message. Exactly those messages are handled that one chunk begins with and holds
(`HandledExactly`): what is cut, by as little as a byte, or comes second in a chunk is lost for good. Garbling
takes a split; without one, the messages behind the first of a chunk are all that is
lost (`HarmNeedsSplit`). And the reader always finds back to the stream (`AloneHandled`).

### PalRandom

All constants are the code's. `Step` is written with C's truncating division, as
the code computes it; `Lehmer`, which it is compared with, multiplies by 16807
modulo 2^31 - 1 by doubling and adding, so that TLC needs no wider integers
either. `SharedTable`, with which each table entry is compared, jumps to the k-th
number by a power of 16807 instead of drawing k times. Seeds of plus and minus 0x7fffffff are the two from which the generator
draws 0x7fffffff for ever (`Sticking`).

### PalCipher

A line that Say accepts is encrypted into the stack buffer of `OXLInitPalSayMsg`, copied from there into
the message, and, when the message comes back, decrypted into the heap block of
`OXLPalClientHandleXTalk__`. The buffers are C memory: functions on indexes, in which the string ends at the
first NUL. `cipher` has one byte more than its buffer, because a line of the full
capacity is ended there; the copy then takes its last byte for the NUL (`InitPalSayMsg`).
`room` is the size of the heap block, the length of the text *without* its NUL, so that Decrypt writes one
byte behind it for every line. A write behind a buffer may or may not end the process; `beyond` is how far behind
the furthest one was, and `OneByteOutside` that it is never more than a byte: each
function measures its source, which a NUL may have made shorter than its destination, never longer.

A byte is the set of its bits, so that exclusive or is the
symmetric difference for bytes of any width. The two loops leave the last
character out (`i = len - 1; i--`), and a cipher byte that comes out as NUL cuts the text. Left out: the
handler passes Decrypt the whole message, header first (`palclient.c:511`). In the model the text
begins with the cipher, so that the properties say what the two functions do for each other.

## 3. Runs

| run | instance | bounds | result |
|---|---|---|---|
| `core` | `MCPalClient`, with fairness | 2 handles, 2 resolutions and 2 writes in flight | 143,111 states, pass |
| `framing` | `MCPalFraming` | 3 messages with payloads of 0, 4, 14 bytes; stray lengths 0, 5, 1000 | 27,601 states, pass |
| `random` | `MCPalRandom` | 12 seeds, 10,000 draws | 240,536 states, pass |
| `cipher` | `MCPalCipher` | bytes of 2 bits, every line of 1 to 4, every stale byte, 64 tables of 6 | 453,600 states, pass |
| `list` | `MCPalList` | 4 items, 2 lists, indexes up to 2, room lists of up to 2 bytes, a size that wraps at 2 | 30,016 states, pass |
| `memory` | `MCPalMemory` | 2 handles, 3 connects, 2 resolutions and 2 writes in flight, 1 refused write a handle | 208,384 states, pass |
| `logon` | `MCPalLogon` | 2 handles, 2 calls that set, 1 write in flight, checksum 6, the server's 1 and 5, halves of 2 bits | 647,107 states, pass |
| `keepalive` | `MCPalKeepAlive` | 0 to 7 seconds of 2 ticks, a product that wraps at 8, silences up to 16 ticks | 1,674 states, pass |
| `timer`, `close`, `tropser`, `cipher_whole` | as above | as above | violated, see section 5 |

Why the bounds are enough. *core*: an overlap needs two handles, the one in use
and the one left behind; a third would repeat the roles of these, and the proofs
cover any number. Two writes show any order of a logon, a request and a raw send
pairwise. The run has no symmetry, because it checks liveness. *list*: four items make a list with a head, a
middle and an end beside another item, or two lists of different length that share a tail; index 0, 1 and 2 are
the three cases of Insert and Remove. *memory*: two connects give an overlap, a reconnect and
a refusal beside a success, a third a resolution that is refused as well. *logon*: two settings are the one a connection was asked for with and a later one.
*keepalive*: delays of 0, within and beyond the interval, products that wrap to 0 and to something else. *framing*: a payload shorter than, one equal to a header's remainder, and one longer than a header give every
relation between a chunk, a header and a message; three messages let a chunk
begin in one, cover another and end in a third. *random*: the seeds are the ends of
the 32-bit range, its neighbours, zero, and values at which quotient and
correction change sign. *cipher*: texts of 1 to 4 include the empty loop, the full
line and NULs at each place.

`CHECK_DEADLOCK FALSE` is stated where the system really stops: the process after
a fault (`PalClient`, `PalMemory`, `PalLogon`, `PalList`), and after Decrypt has returned (`PalCipher`).

**Fairness.** `FairSpec` has weak fairness for the completions of writes and closes
only, one handle at a time: the application runs `uv_run` again and again, and libuv calls
back every write and close it accepted. Nothing is assumed of the server,
of the timer, of name resolution or of the application. It is enough for `LogonSettles`
and for `ImplementsFairSession`.

## 4. Proofs

All theorems hold for every value of the constants under the named assumptions
of the modules (finite sets of handles, items and lists, natural bounds, lengths that are
natural numbers, a table of at least two entries per character).

*PalClient.* None of the safety properties is inductive alone. `Inv` adds
`HandleHistory` (only a handle that carried a connection has writes due, a
greeting, or a logon written) and `SocketCarried` (the client's socket is open or
closing; before there is one, no handle was opened). The first is needed because
a completion may arrive on any handle; with the second, "no orphans" means that
the handle of a completion is the client's. The proof has one case per
action; `Send` and `Disconnect`, which many actions share, have lemmas. The action
properties follow from `Inv` step by step. `LoopFaultsNeedOrphan` follows from `Inv` at every step (`FaultStep`): where the library
disconnects by itself, the handle that was read is open, so that it is either the client's and not closing, or
an orphan.

*PalFraming.* `Inv` adds `Layout` (messages tile the stream), `Inside(pos) => split`
and "a header is pending only at the start or after a dropped chunk". From
`Layout` follows that at most one message starts at a position, and that a read
that begins neither inside a message nor at the end begins with one. `HandledExactly` is part of
`Inv`, because what a chunk decides stays decided: the messages it touches begin
where no later chunk reads again (`ChunkDecides`).

*PalRandom.* `SchrageStep` proves that the code's step, in truncating 32-bit
arithmetic, is the product modulo 2^31 - 1; `NoOverflow` that no intermediate
leaves the 32 bits, for every `int32_t` seed; `SeedAlwaysInRange` that the sequence
stays away from 0 and 0x7fffffff. The seed's history (`origin`, `draws`) is part
of `Inv`, since the two sticking seeds have to be told from all others.
The reference definitions are recursive functions, and what they compute is proved as
well: that a solution of the equation exists, and that two solutions agree, by a least
counterexample (`HalvingInduction`). So `MulMod` is the product modulo 2^31 - 1 (`MulModIs`),
and `Power`, by squaring, is the sequence in which each member is 16807 times the one before
(`PowerIs`, with `PowersAdd`). `SeedIsPower`, inductive given `Inv`, then says of every
origin in range that the seed is its product by the power that the draws count, from
which `TableAlwaysShared` follows entry by entry, and `MinimalStandardAlways` by thirteen
squarings (`PublishedValue`). TLC checked `SeedIsPower` on the run before it was proved.

*PalCipher.* `Inv` describes the progress of the loops: entry `K(j)` of the table
belongs to the character `j`, `Chain(j)` is what is handed down to the next
character, and positions already passed satisfy `Encrypted` and `Decrypted`. The
round trip then follows position by position, without induction. The copy into the message cuts
the last byte of a full text, on which no other depends, since `Chain` begins
there with NUL. `OneByteOutside` needs that the cipher text ends where Encrypt ended it or before
(`cipher[sent]` is NUL), so that Decrypt's length is that of its block.

*PalList.* A walk is a recursive function over the heap. The prover cannot use the library's
induction theorems, but it can use the well-foundedness of the natural numbers, and from
it follows induction for a *set* (`SetInduction`); every induction here is of that form.
`AtIsWalk` shows that `At` solves its equation. After as many steps as there are items, a walk has met all it
ever will (`MetClosed`, a counting argument), so that what it meets is the least set that
holds the head and is closed under `next` (`Walks`). A sound list is one whose walk is a
*chain* (`SoundWalks`): a sequence of live items, each of which points to the next and the last to
nothing; no item occurs twice in a chain (`ChainInjective`). `Inv` is `TypeOK` and `Fresh`, that an item just handed
over points nowhere: without it, an Add could append a tail with the item. `HarmOnSoundListsAlways`
follows the calls along the chain. `CallsAsSequencesAlways` and `SoundUntilRemovalAlways` rest on `ChainSplice`
(if only the pointer of one item of a chain is moved, and to another chain, the items
up to it go on with that one), for each list that leads to the item, whichever list
the call was made on. For `LostOnlyByAlways` the items that are held are described as those that belong to every
closed set that holds the heads (`Reached`, `Reaching`), so that nothing has to be said about the form of the
lists, sound or not.

*PalSession.* `ClientImplementsSession`: with `Inv` of `PalClient` the initial states map to the
session's, and each action to one of its steps or to none: Connect, requests, pings and most reads to
none, `Resolved` to Begin, the two outcomes of a connect to Establish and Fail, a known greeting to
AskLogon, a logon's callback to AnswerLogon (with the logon still in the queue or
not), every closing to Leave, a fault to Crash. `Inv` is needed where the code does not test: a greeting is read in
HANDSHAKING, so that `socket` is one that stands.

*PalMemory.* First `MemorySpec => Spec`, so that `Inv` holds; `MemoryInv` is `Inv` with `MemoryTypeOK`,
`Accounting`, `RefusedWriteRearms` and `OrderlyRest`: no
count becomes negative because each freed block has its callback in `Accounting`. `RefusedWriteRearms` holds through
Disconnect because that stops the timer before it closes, through a late open because that makes another handle
the client's, and through a failed connect because its handle never was. `OrderlyRest` says of a client that was destroyed in order that
nothing is due and the timer is off: at the destruction because the socket was never set, so that the timer was never started, or is closing
with no write refused (`RefusedWriteRearms`); afterwards because only writes and closes
complete, and these make nothing due.

*PalLogon.* Likewise; `LogonInv` adds that only handles that carried a connection have logons
(`LogonsCarried`), that nobody is ahead of the settings in the client (`NoneAhead`), that without overlap
whoever is yet to be logged on is in step with them (`InStep`), and that the logons carry the
lower half of the first checksum (`HalvesOfInitial`). A lemma on halves, `x % h % h = x % h`, closes the last.

*PalKeepAlive.* The bound on silence is inductive with the time left: `silence + left <= repeat` once connected, and
`left <= repeat` from the submission of the logon on, because that restarts the timer. That a product
that wrapped is no larger than the true one is a lemma.

Only model-checked: liveness, that is `LogonSettles`, `ImplementsFairSession` (its safety part
is `ClientImplementsSession`) and the two temporal findings, because the prover has no
rule for fairness and none for ENABLED. The violated properties of the findings have a counterexample
and no proof. Every other property of a run is the statement of a theorem.

## 5. Findings

* **close** (`oxlcom.c:383`): the close callback reads a function pointer as a baton.
  No disconnect ever completes.
* **timer** (`palclient.c:88`, `:136`): Disconnect during the handshake stops the ping timer; the
  callback of the logon, which comes before that of the close, sets CONNECTED; a request then passes its guard
  and starts the timer again beside the closing socket.
* **tropser** (`palclient.c:546`): after an unknown greeting, execution does not stop; the client
  stays in the handshake.
* **cipher_whole** (`palcrypto.c:51`, `:62`): the last character of a line is lost.

## 6. Not modelled

* *Registration codes* (`palreg.c`): pure string functions that nothing in the repository calls.
  The one hazard found by reading them is in `PROJECT.json`.
* *Handlers that copy a field or only pass an event on* (server info, server version, user status, pong and others), the
  constant fields of the message builders, printing and dumps, except for the two calls whose format
  does not match its argument.
* *The data of lists, messages and read buffers*: they live and die with what holds them. The buffers that an early
  return of the reader leaks are one for each dropped fragment of `PalFraming`.
* *Declarations of rooms, users, props and assets*, which no code uses.
* *`PalFraming` composed with `PalClient`*: a garbled dispatch can call any handler; on the life cycle this
  has the effect of a Terminate the server did not send, which `PalClient` allows on any
  open handle already.

Worth doing next: the registration codes as a bit machine, and a module of sequences that `PalList`
implements as long as no list is broken.
