# Verification of the c_cpp servers and of what surrounds them

The repository (`cpp_src/`, `tcp-ip-review/`, `node_src/`) is a collection of
small UNIX network programs. Its core are the TCP servers of `cpp_src/server.h`,
the clients of `cpp_src/client.h`, the file transfer of `cpp_src/command.h` that
both use, the shell of `cpp_src/shell.h`, and `tcp-ip-review/ping.cpp`. Around them
are UDP, broadcast and multicast programs, a server with a thread for each connection,
and exercises with threads, processes and system calls.

This directory holds TLA+ modules that model these programs, the configurations that
check them with TLC, and proofs about them that TLAPS checks. `PROJECT.json` says for
every definition which lines it models, for every run what it checks, and for every
property which mutation of the model breaks it.

## 1. Inventory

| Component | State it keeps | Operations | Modelled by |
|---|---|---|---|
| select echo server, `server_run_select` (server.h:118-253) | `client[]`, `maxi`, `maxfd`, `allset`, `rset`, `nready`, `clnt_addr`, `lbuf`, `buffer` | one loop: select, accept and register, broadcast a word typed on the terminal, read and echo, hang up, exit | `SelectServer`, `EchoService` |
| forking servers, `server_run` and `server_run_cmd` (server.h:32-86, 295-416) | per process: `clnt_sock`, `buffer`, `receiveing`, `pfile`, open descriptors; the shared listening socket and directory `data/` | accept, fork, receive, upload, command, quit, wait | `ForkServer` |
| file transfer, `_sendFile`, `_receFile` (command.h:31-143) | `receiveing`, `pfile`, `rfilename`; what is in the TCP stream | head, contents, trailer; chunk by chunk | `FileTransfer` |
| terminal clients, `client_run`, `client_run_cmd` (client.h) | `wBuffer`, `buffer`, three descriptor sets, `receiveing` | select three times; read the socket, read the terminal, write, run a command | `CmdClient`; how a file arrives in `FileTransfer` |
| command line parsing (command.h:17-29, 146-164) | none (cuts its argument up in place) | `command`, `trim` | `command` in `CmdClient`; `trim` not modelled |
| shell (shell.h, keyarrow.h, cursor.h) | `buf`, `argsBuffer`, `cpid` | read a line, split, run, redirect, pipe | `Shell` |
| ping (tcp-ip-review/ping.cpp) | `nsend`, `nreceived`, the alarm | send, receive, time out, checksum | `Ping` |
| thread-per-connection server (multithread_server.cpp, multithread_client.cpp) | `c`, `from_addr`; the struct `from` shared with the threads; per thread `from_addr`, `socket` | accept, fill in the struct, create a thread; copy, read, answer, spin | `ThreadServer` |
| threads that print (pthread_print.cpp) | `count` and its mutex | create, lock, count, print, unlock, join | `CountThreads` |
| `cat` behind a pipe (wrap.cpp) | a pipe with its four descriptors | fork, write, close, wait | `CatPipe` |
| UDP echo (ucp-client.cpp, ucp-server.cpp in both directories; udp-struct-client.cpp, udp-struct-server.cpp) | the server's `buf`, `n`, `cliaddr`; datagrams under way | send, receive, upper-case, answer | `UdpEcho` |
| broadcast and multicast (broadcast_*.cpp in both directories, multicast_*.cpp) | `times`, the sender's address, `rtime`; datagrams in the sockets | set up, join, send, receive | `Multicast` |
| processes that fork (fork_print.cpp, sysfork.cpp) | children | fork, print, wait | not modelled: nothing is shared |
| arp, exercises with system calls, entry points, node addon, build files | none | straight-line code | not modelled: input and output only |

**How they interact.** `server.cpp` starts `server_run_select`, `client.cpp`
starts `client_run_cmd`, the node addon starts `server_run` and `client_run`; any
client may meet any server. They share nothing but TCP connections: a byte stream
in each direction, a backlog of connections not yet accepted, end of file, and
reset. Within the forking servers processes share the listening socket, and every
child starts with a copy of its parent's variables and descriptors. The file
transfer is called from both sides: `$get` makes the server send and the client
receive, `$put` the other way round.

**What is hard.**
- One thread, many peers: what `select()` answered is used after accepts and
  closes that reuse descriptor numbers and slots; `nready`, `maxi` and `maxfd`
  have to agree with that.
- Limits: descriptors, slots of `client[]`, bits of an `fd_set`.
- `break` in the forking servers leaves only the inner loop: children become
  acceptors with the variables of their last client.
- TCP has no message boundaries: head, contents and trailer of a file are cut
  into chunks by chance.
- The client's `wBuffer` is filled, cut up by `command()`, and moved along by what
  `write()` took, in one round; its lines lose their newlines on the way.
- Two children and their parent share a pipe: it ends only for who reads it when
  everybody else has closed it.
- Peers that do not read, leave in the middle, or reset: blocking `write()`,
  SIGPIPE, `accept()` without a connection.
- A thread gets a pointer to a variable that its creator is about to write again.
- UDP: no number in an answer, no timeout, one buffer for all clients, receives that
  fail and are printed as if they had not.

`PROJECT.json` lists the hazards line by line.

**What makes each component correct.** Select server: its table agrees with the open
sockets, no round reads where nothing is to be read or leaves out a ready peer, each
byte goes back to its sender once and in order. Forking servers: one process per
connection, no effect of one client on another but through the files they share. File
transfer: the file arrives intact or the receiver does not say it did, and it stops
receiving. Clients: what is typed is sent once, whole and in order, and nothing holds
it back for ever. Shell: the tokens are the line's, a pipeline ends, and no child is
left. Ping: what it reports is so, and it ends. Threads: one connection and one thread
each, and an answer for every client; numbers without gaps. UDP programs: an answer
belongs to its request and to its client, and a line shown names who sent it.

## 2. Modules

### `SelectServer` and `EchoService`

`SelectServer` follows `server_run_select` system call by system call, so that
peers can act between any two of them. Its first group of variables are the
function's locals under their names, plus `pc` for the place in the loop; the
second group is the kernel's side. One action is one stretch of code up to the
next system call that peers could interleave with:

| Action | Code |
|---|---|
| `Select`, `SelectFails` | server.h:156-171, 162-167 |
| `NewConnection` (`TakeConnection`, `Register`), `TooManyClients`, `AcceptFails`, `AcceptAborted`, `BadFdSet` | 170-201 |
| `ScanfWord`, `ScanfRefill`, `ScanfEof` | 203-206 |
| `Broadcast`, `EndBroadcast` | 207-212 |
| `ReadClient`, `EchoClient`, `HangUp`, `EndScan` | 214-248 |
| `Killed` | SIGPIPE by a write at 177, 210, 235 |
| `Connect`, `Send`, `Receive`, `CloseEnd`, `Reset`; `Type`, `CloseTerminal` | peers and operator (external) |

Bytes are numbered per peer, so that a lost, repeated or reordered byte shows;
upper-casing is wrapping the number in an `Echo`. `accept()` returns the lowest
free descriptor, as POSIX says. What is uninitialised (`lbuf` before the first
word) is the value `Junk`. A write of `FD_SET(connfd)` beyond the `fd_set` either
does nothing that matters or ends the process; a `-1` from `accept()` goes the way
the code sends it (server.h:175-199 does not test it); it may also come when a reset
has emptied the backlog (`AcceptAborted`), where other systems block instead.

`EchoService` says what any echo server promises: sessions that are accepted
once, are answered byte by byte and no more than they asked, and are let go of
only when their peer has left. `SelectServer!Abstract` maps the loop onto it: a
connection in the backlog is a waiting session, one with a descriptor is served;
the answered bytes of a peer are those read minus those still in `buffer`.

### `ForkServer`

One module for `server_run` (`Commands = FALSE`) and `server_run_cmd`: the first
is the second without lines 391-397. A process is where it is in the two nested
loops (`pc`) and has the variables the code declares outside of them; `Fork`
copies them, descriptors included. What happens between the two places:

| Action | Code (server.h unless noted) |
|---|---|
| `Accept`, `AcceptFails` | 378-382; the end of the loop, 413-415 |
| `Fork`, `ForkFails` | 384-387 |
| `Recv`, `RecvEnd` | 388-390, 399-408 |
| `BeginUpload`, `Chunk`, `ShortChunk` | command.h:34-55, 57-71 |
| `Message`, `Command`, `Quit` | 391-398, 295-335, 336-338 |
| `Killed` | SIGPIPE by a write to a connection that was reset |
| `Wait` | 413-415 |

Messages are whole commands, or chunks of an upload by what `_receFile` tells
apart (a head, a full buffer, the end, less than either); `FileTransfer` is about
how streams are cut. A connection that was reset before it was accepted
stays in the backlog or leaves it (systems differ). `ShortChunk` writes to a file
it has closed (command.h:65-69): the process goes on or ends.

All processes share `data/`: `dir` is the set of names there, `file` what is written
under each, chunk by chunk with the client it came from. A client has one `name` for
what it uploads and asks for; two clients may have the same. `fopen(.., "wb+")`
(command.h:47) makes the file or empties it, whoever is writing to it (`Opened`), and
each process has a `stream` of its own with an offset of its own (`Written`, which
overwrites, or leaves a hole behind a file that was emptied meanwhile). `pfile` names the
process that opened the stream, since a child goes on with its parent's.

`handled` and `alone` are history: the messages a process has taken for a client, and
the session that client would have had with a server of its own, which `After` computes
message by message. `owner` is history too: the client whose upload of a name was the
last to begin, or nobody if another upload of that name was under way. `Isolated`
compares `alone` with what the client sees. What clients may notice of each other is
stated there: `$get` finds a file that another client has uploaded (`Shared`), and a file
is compared with what its client sent only while the client is its `owner`. Uploads of
one name that overlap destroy each other in the code; `Isolated` claims nothing of them.

### `FileTransfer`

One transfer in one direction: the sender writes `Stream` piece by piece, the
receiver is called with chunks of any length up to its buffer. Tokens stand for a
few bytes; head mark, name and trailer are two tokens long, so that a chunk can
end inside each of them. `Send`, `SendfileFails`, `OpenFails` are `_sendFile`;
`BeginFile`, `WholeFile`, `EndFile`, `FullChunk`, `ShortChunk`, `TextChunk` are
the paths through `_receFile`. `sendfile()` is the BSD/macOS call the code is
written for. `clean` is a history variable: no chunk has yet ended at a harmful
place; `filled` is another: every chunk so far filled the buffer, or was all that
was left. `pre` is what the sender has in the stream before the head: `$put` writes
its own command line first (client.h:219).

### `CmdClient`

One module for `client_run` and `client_run_cmd` (variable `run`): the first is the
second without `_receFile` and without lines 225-240. The loop's phases are
values of `pc`; `select()` and the call after it are one action, since nobody but
the client takes away what `select()` reported.

| Action | Code (client.h) |
|---|---|
| `Recv`, `RecvShort`, `RecvEnd`, `RecvNothing` | 178-200; command.h:57-71 |
| `Input`, `InputEof`, `InputFails`, `InputNothing` | 202-214 |
| `OutputSome`, `OutputNothing`, `OutputFails` | 216-249, with `command()` (command.h:17-29) |
| `Upload` | `_sendFile` (command.h:78-118), called from 232 |
| `SelectFails`, `Check` | 251-258 |
| `Type`, `CloseTerminal`, `ServerRead`, `ServerWrite`, `ServerLeaves` | user and server (external) |

`wBuffer` is a sequence of words and blanks up to its first 0 byte; `command()`
puts a 0 after the first word, so `Left` keeps that word only. `RecvShort` is the chunk
of a file that does not fill `buffer`: the file is closed before it is written to, as
in `ForkServer`. Both arrays
start with any contents (`Garbage`). `strcat()` beyond the 1024 bytes ends the
modelled behaviour (`"overrun"`). The socket blocks, so `write()` takes less than it
was given only when the connection ends. The server reads one write, then writes its
whole answer before it reads on, as server.h:388-403 does. `taken`, `wire`, `files` and
`odd` are history: what was typed, what was sent, where in it files went out, and which
of three oddities have happened (a line longer than `buffer`, a command sent in parts,
end of file).

### `Shell`

`split()` works on a sequence of characters, one iteration per action (`Split`,
`EndSplit`), as the code does, "`|`" before "`>`" included. `Run` chooses
between the three functions; `Open`, `ForkOnly`, `WaitOnly` are `Fork_Execute` and
`Fork_Execute_Redirect`; `Pipe`, `Fork1`, `Fork2`, `CloseEnds`, `Wait1`, `Wait2` are
`Fork_Execute_Pipe` (shell.h:221-257). Each `fork()` and the pipe may fail. A child
is born with both ends of the pipe, becomes the command (`Exec`) with one, and ends;
`holdR` and `holdW` say who has which end open. End of file on the terminal is
`TypeEof`: `getchar()` returns EOF for ever and `buf` overflows. `places` is history:
where in the line each token begins, so that a token that should not be there, or comes
twice, shows even if its text looks right.

### `Ping`

| Action | Code (ping.cpp) |
|---|---|
| `Start` | 155-196: a name, or an address |
| `Pack`, `Sendto`, `SendtoFails`, `SleepEnds`, `EndSend` | 85-100, `pack` 66-83, `cal_chksum` 44-64 |
| `Loop`, `Recvfrom`, `RecvfromFails` | 102-120, `unpack` 123-154, `tv_sub` 203-209 |
| `Statistics`, `Alarm` | 35-42 |
| `Tick`, `Answer`, `Lose`, `Duplicate`, `ComesBack`, `Stray` | clock and network (external) |

A packet in `sendpacket` is its six words, the checksum is computed; a packet that
arrives is what `unpack()` looks at. Time is counted in parts of a second, so that
seconds (sent) and microseconds (not sent) differ. `rest` is what `recvpacket` holds
where `unpack()` looks for the microseconds. `unpack()` has no `return` at its
end: depending on the compiler the result is what `printf()` returned, which may be
-1, or the process is killed. A signal is handled before the program takes another
step (`Due`). `answered`, `sentAt`, `shown`, `odd` and the time `came` in a packet are
history. `shown` compares the time that was printed with the round trip, which ends when
the reply comes, not when `recv_packet()` gets to read it: `send_packet()` sends and
sleeps to its end before. For the first of three replies on an idle network that is
about three seconds, and `RttRoughly` says that the printed time contains them.

### `ThreadServer`

`main()` and the threads of `multithread_server.cpp`, copy by copy: the struct `from`
is declared inside the loop, so every turn has it at the same place, and a new thread
reads its two fields from there (`CopyAddr`, `CopySocket`) while `main()` may already
be writing the next ones (`FillAddr`, `FillSocket`, lines 59-60).

| Action | Code (multithread_server.cpp) |
|---|---|
| `Accept`, `AcceptFails` | 56; a result of -1 does not end the loop |
| `FillAddr`, `FillSocket`, `Create`, `CreateFails` | 58-61 |
| `CopyAddr`, `CopySocket` | 17-19 |
| `Read`, `ReadEnd`, `Close` | 22-26 |
| `Write`, `Killed` | 32-33, with SIGPIPE |
| `Connect`, `Hello`, `Leave` | multithread_client.cpp 20-40 |

`overtaken` is history: `main()` has written to the struct while a thread was copying
it; so is `refused`, the clients for which `accept()` or `pthread_create()` failed. They
are all that the properties except. The specification is `ServerSpec`.

### `CountThreads` and `CatPipe`

`CountThreads` (pthread_print.cpp) has `count++` in two steps (`LoadCount`,
`StoreCount`) between `Lock` and `PrintLine`, `Unlock`; `main()` starts all threads
(`Start`, `StartFails`, `AllCreated`) and joins the last one first (`Join`). A thread
that waits for the mutex may be passed over. `CatPipe` has the two processes of
`wrap.cpp` and who has which end of the pipe open; `dup2()` onto standard output is
one more copy of the write end, which nothing closes.

### `UdpEcho`

Two kinds of client and server, any with any. A datagram is a sequence of parts; each
names its client, line and position, so that a part of another line shows. `net` is
the set of datagrams under way, in which everything may be overtaken, lost or doubled.
`AnswerSize`, `Uppered` and `Printed` are what distinguishes the programs: the line
server sends back as many bytes as came, all in capitals, the struct server a struct
in which it has capitalised the text, part `TEXT`, that begins at byte 14
(udp-struct-server.cpp:61-62); a line that comes there begins where a struct has its
numbers and goes back as it was (`Expected`), and since no zero byte came with it,
what `buf` held before decides how far `strlen()` counts (`TextEnds`). The line client
prints as many as came, the struct client its whole buffer, cleared before.
`SendtoNowhere` is a line longer than the 13 bytes of `buf` (ucp-client.cpp:19, 32),
which may overwrite the address it is sent to; `ServerEnds` includes the pointer that
udp-struct-server.cpp:57 never sets. `copies` and `lost` are history. The
specification is `EchoSpec`.

### `Multicast`

The three pairs of programs as one, told apart by `kind`: a text to a group, the time by
broadcast, and the time to a group whose members send as well. A datagram sent reaches
any subset of those who listen and have room. `Swap` is `htonl()` and `ntohl()` on a
`time_t`, which keeps the lower four of eight bytes; its four bytes are two halves here.
A receive that fails prints what the last one left (`ReceiveFails`); only the "time"
client has cleared the address before (`FromBefore`). `sentBy` is history. The
specification is `CastSpec`.

### The `MC*` modules

They define values for TLC. `MCProcesses`, `MCExchanges` and `MCDatagrams` put programs
that have nothing to do with each other into one run: a variable `program` says which
of them runs, the variables of the others keep one initial value, and the specification
is that of the program that runs, with its fairness. No step of one enables or prevents
a step of another. They extend the modules of these programs (`CatPipe`, whose names
coincide with others, is an instance), so that the properties are those of the modules.

### `SequenceFacts` and the `*_proofs` modules

`SequenceFacts` has the lemmas on sequences and on division that the proofs share.
The theorems of section 5 are in `SelectServer_proofs`, `ForkServer_proofs`,
`FileTransfer_proofs`, `CmdClient_proofs`, `UdpEcho_proofs`, `Processes_proofs` (for
`Shell`, `ThreadServer` and `CountThreads`) and `Datagrams_proofs` (for `Ping` and
`Multicast`).

## 3. Runs

All configurations turn off the deadlock check: every one of these systems may
legitimately stop (the process ends, nobody comes any more, the transfer is over,
the shell waits for a command that does not end).

| Run | Instance | Shows |
|---|---|---|
| `select_rounds` | 2 peers, 2 bytes each, a line of two words or none, connections that fill up after one item | `TypeOK`, `TableConsistent`, `NoBlockingRead`, `ReadyCount`, `EchoExact`, `RoundComplete`, and that the loop implements `EchoService` |
| `select_limits` | 7 peers of which two leave, 6 slots, 7 descriptors of which two fit into an `fd_set` of 6 bits | `TableConsistent` where the table overflows, `accept()` fails and the process exits; `ExitsWhenFull` |
| `select_live` | 2 peers, 1 byte each, a line of one word or none, terminal may close, fairness | `EveryClientServed` |
| `select_address` | 2 peers, 1 byte each | a finding (section 6) |
| `fork_isolation` | 4 processes, 2 clients, one file name or two, 3 messages each, commands and uploads, chunks cut short | `TypeOK`, `OneReader`, `Isolated` |
| `fork_live` | 3 processes, 2 clients that may never read, failing `fork()` and `accept()`, resets, fairness | `NobodyWaits` |
| `fork_stale_upload` | 4 processes, 2 clients, 1 message each | a finding |
| `exchanges` | `$put`, files of 0-7 tokens and files containing the trailer or another head, buffers of 2-9, all cuts, failures; or two UDP clients and a server of any kind, 2 lines and 1, lines of 1 or 2 parts, structs of 3 (numbers, text, number), one duplicate, fairness | `TypeOK`, `IntactIfClean`, `StopsAtEnd`, `ExactlyGoodLayouts`; `OwnParts`, `AnswerMatches`, `LinesAnswered` |
| `transfer_download` | `$get`, one buffer size | a finding |
| `client_lines` | both clients, 2 lines, 1 answer, 6 tokens in `buffer`, 7 in `wBuffer`, connections that hold one item, fairness | `TypeOK`, `LinesExact`, `FileFollowsCommand`, `OnlyEmbraceStops` |
| `processes` | the shell: every line of up to 4 characters and some longer ones, 5 tokens, a pipe that holds one item, 2 items written; or the thread server: 2 clients, 2 threads, 2 descriptors; or 3 counting threads with 2 lines each; or `cat` behind a pipe that holds one string; fairness | `TypeOK`, `SplitExact`, `TargetThere`, `AllReaped`, `PipelineEnds`; `OwnConnection`, `Answered`; `CountsInOrder`; `WaitForEachOther` |
| `datagrams` | ping: 2 requests, ticks of half a second, words of 4 bits, 2 packets in the socket, 1 duplicate, returning or strange packet, 1 failure, 6 ticks, fairness; or a group: 2 clients, 1 server, 2 rounds, 2 datagrams in a socket, 2 seconds, 1 failure | `TypeOK`, `PacketVerifies`, `FullMeansAll`, `RttRoughly`, `PingEnds`; `SenderSent` |

**Bounds, and why they are enough.** Two peers are the least with which bytes could be
mixed up and with which a descriptor and a slot are used again by another connection;
with two bytes a buffer can hold more than one and a second read can follow. `SNDBUF =
1` makes every `write()` block in some behaviour. The second word of a line stays in
stdio's buffer, where `select()` does not see it. Seven peers for six slots fill the
table, and `OPEN_MAX = 11` leaves a descriptor for the one too many; there the
constraint `TwoLeave` bounds how many clients leave. Only the first two slots are used
again, in any order, the second of them between two taken ones: a descriptor beyond
the `fd_set` is not watched, so who is behind it leaves unnoticed. `ByArrival` names
the peers in the order in which they connect, which loses nothing. The code's
`FD_SETSIZE` is 1024, but it enters only through comparisons. In `ForkServer` four
processes suffice for a child to accept, fork and accept again while its parent does
so too, and three messages for an upload with something after or before it; with one
name two uploads follow or overlap each other. `MaxMsgs`, `MaxLines` and the sets of
messages are the only bounds on behaviour; each is a conjunct of a guard of the
environment, never of the program. (The number of processes bounds `fork()`: a process
that finds none unborn is stuck before it, or fails.) In `FileTransfer` the sizes run
across every relation between head, contents, trailer and buffer: empty file, file
smaller than the buffer, several buffers, trailer split anywhere. In `CmdClient` two
lines are the least that can run together in `wBuffer`; with `BUFSIZE = 6` a `$put`
with both names and its newline fits into `buffer` and a longer line does not, with
`WBUF = 7` two lines overflow. One answer is a file, with its trailer recognised or
not; it has two parts, and a connection that holds one item is full after the first.
In `Shell` four characters are enough for every order of three separators around a
word; the longer lines add a pipe into a file and a file before a pipe. `NARGS = 5` is
reached by lines with four separators (the code's array has ten). A pipe that is full
after one of two items makes the left command wait for the right one. `MaxLines`,
`MaxReplies` and `MaxOut` bound environments, `MaxOut` by letting the left command
end. In `Ping` two requests are the least of which one may be answered twice and the
other not; four bits make sums with one and with two carries at the chosen times; of
the process ids one fits into a word, and the other starts when the clock needs two.
After `MaxTime` ticks the clock stands and any timer may expire, so no behaviour is
cut off. `MaxStray` and `MaxErrors` are more than bounds for `PingEnds`: packets of
others, or errors, that keep coming do keep the program from ending, since each
restarts the alarm. Two threads are the least of which one may be overtaken by the
other's arguments; there the only failures are those of running out, `Failures` being
for the theorems. Three threads make one pass another over twice. In `UdpEcho` two
clients share the server's buffer, with a longer line before a shorter; a second line
can meet a late answer to the first, which needs the one duplicate. In `Multicast` two
rounds let a failed receive find values of a former one, with a second client's
datagrams between; at the seconds 5 and 6 the clock does not fit into its four values
and swapping changes it. What the theorems of section 5 state holds without any of
these bounds.

`server_run` (`Commands = FALSE`) has no run of its own: with text messages only,
`server_run_cmd` goes through the same steps but for the `wait()` at its end, and
the theorems cover both.

## 4. Fairness

`SelectServer` assumes weak fairness of the process as a whole (`WF(Server)`): the
scheduler runs it while it has something to do. `ForkServer` assumes the same of
each process separately, because the kernel schedules them independently, and
`FileTransfer` of sender and receiver. Nothing is assumed of peers, clients or
the operator. So the liveness properties carry their premises with them:
`EveryClientServed` holds unless the loop is held up for ever in `accept()`,
`scanf()` or `write()` (which it can be: it is one thread), while `NobodyWaits`
needs only that the client itself keeps reading: with a process each, others
cannot hold it up. It excepts what the code cannot help: a client for which
`fork()` failed, and a root process whose `accept()` failed. `CmdClient` assumes weak
fairness of the client's loop and of a server that reads and writes whenever it can,
not of failures and not of the user: `OnlyEmbraceStops` asks what the
client itself might wait for. Its premise excludes that client and server
wait for each other in `write()`, which can happen (a `$put` and the answer to what
was sent before it), and a file whose end never comes. `Shell` assumes that
the kernel runs the shell and both commands of a pipeline; a right command
that quits early (`RightQuits`) is possible, never assumed. `Ping` assumes that the
program runs and time passes, nothing of the network. `ThreadServer` and `CountThreads`
assume weak fairness of each thread, as of the processes before, `CatPipe` of its two
processes, and `UdpEcho` that the server and the clients read what has arrived: nothing
is assumed of `Lose`, and a client that lost a datagram is what `LinesAnswered`
excepts. `Multicast` needs none: its property is of safety. `CountThreads` states its
fairness, but its run checks safety only.

## 5. Proofs

`tlapm` checks the seven proof modules and `SequenceFacts` completely. Every invariant
that a passing run checks is stated by a theorem; so are `RoundComplete` and the
implementation of `EchoService`. TLC checked all of them on small instances before.

Assumptions: only those named in the modules. `ConstantsAssumption` (there are more
slots and descriptors than the three standard ones and the listening socket; buffers
are not empty), `ForkAssumption` (types of the constants), `TransferAssumption` (the
trailer fits into the buffer), `ClientAssumption` (lines and answers are sequences of
the model's tokens, an array without contents ends before its last byte),
`ShellAssumption` (lines are sequences of the model's characters; sizes are natural
numbers), `ThreadAssumption` (no client is called `None`, descriptors are natural
numbers), `CountAssumption` (natural numbers), `PingAssumption` (a word has room for
the request's type and the sequence numbers), `MulticastAssumption` (clients and
servers are different programs, none of which has the address 0.0.0.0) and
`UdpAssumption` (a buffer of lines ends in the text of a struct). TLC evaluates them
for the values of the runs.

**`SelectServer_proofs`** — for any number of peers, slots, descriptors, bytes and
lines. `Types`, `Table`, `NonBlocking`, `Counting`, `Rounds`, `Exits`: `TypeOK`,
`TableConsistent`, `NoBlockingRead`, `ReadyCount`, `RoundComplete`, `ExitsWhenFull`. The
inductive invariant `Inv` adds to types and table: `OneConnection` (a peer is in the
backlog once or behind one descriptor), `RoundShape` (what is known at each place of the
loop, e.g. `client[i]` is in `rset` during an echo), and `AnswerHolds`: whatever
`select()` reported and the round has not served still has something to read. The last
is why a reused descriptor does no harm: only the server closes descriptors, it closes
one only when it serves it, and it accepts before it scans. `Counting` needs the
cardinality of the set of unserved descriptors step by step. `Exits` is a
counting argument: when no slot is free the table is a bijection between slots and open
connections. `NoExit` is its companion for the usual limits: with no more descriptors
than slots (`OPEN_MAX <= FD_SETSIZE`) the exit is never taken.
- `Echoing`: `EchoExact`. The property is about the echoes among what is on its way to
  a peer, words from the terminal between them. The proof follows them by position: the
  echoes in the stream continue the bytes the peer has got, those still in `buffer`
  continue them, up to the last byte read. `Untouched` says that a descriptor that is
  used again brings nothing along.
- `Implementation`: `Spec => EchoService`, under `ServiceInv` (nothing is read that was
  not sent, and each connection is in one place). Accepting maps to `Accept`, an echo
  to `Answer`, `HangUp` to `Drop`; `Connect`, `Send` and the ends of a connection to
  `Arrive`, `Ask` and `Leave`, a reset in the backlog to `Withdraw`, the end of the
  process to `Stop`. Every other step is a stutter.

**`ForkServer_proofs`** — for any number of processes, connections and messages, any
failures. `Types` and `Readers`: `OneReader`, for any clients. `Inv` says that a
connection is in the backlog once and open in no process then, that an idle client is
unknown to everybody, and that a process has open what it attends. `Accept` moves the
head of the backlog to a process; `Fork` moves it from parent to child; nothing else
gives a process a connection to attend (lemma `Keeps`).
- `Isolation`: `Isolated`, for clients that finish an upload before they leave
  (`Polite`; without it `fork_stale_upload` is the counterexample). `IsoInv` says that the
  variables of the process that attends a client are those of a server with this client
  alone, its stream being one it opened itself under the client's name (`OwnVariables`),
  that the replies are the private session's but for files of others (`ServedAlone`),
  that the directory holds what was uploaded (`Uploaded`), and that messages come in the
  order of uploads (`Orderly`). A process that loses its client has then finished the
  upload, and comes back to `accept()` with `receiveing` false, as a new server begins.
  `FilesInv` adds the files: one that has an owner is written to by the owner's process
  only, whose stream stands at its end (`Writers`), so that every chunk is appended
  (lemma `WrittenAtEnd`), and contains what the private session has (`Contents`). Who
  begins an upload while another of that name is under way leaves the file without owner.

**`FileTransfer_proofs`** — for every file, every buffer that holds the trailer, and
every way to cut the stream. `Types` and `Intact`: a transfer whose chunks end at
harmless places saves the file. `Inv` says what has been saved so far: the part of the
stream between the head and the receiver's position.
- `Stops`: `StopsAtEnd`. `_receFile` leaves its state with any chunk shorter than the
  buffer, or one with a trailer at its end; the last chunk is one of these.
- `Layouts`: `ExactlyGoodLayouts`, for files that contain neither the trailer nor a
  head. `LayoutInv` sorts the transfers by their layout: a head that does not begin a
  chunk is never recognised; one that does may not fit into the buffer (`Broken`),
  share it with the trailer (`Doubled`), or neither (`Going`); each says what has been
  saved up to the receiver's position, which is a multiple of the buffer until the
  last chunk (`Division`, `FromMultiple`).

**`CmdClient_proofs`** — for any lines, answers, sizes and initial contents of the
arrays. `ClientTypes`, `LinesGoOut`, `FilesFollow`: `TypeOK`, `LinesExact`,
`FileFollowsCommand`. `CmdInv` adds that lines end where their newline is, that what is
to be uploaded is the rest of a file, and `Followed`: where in `wire` the file went out,
and the `$put` line that ends there; a second file has a line of its own.

**`Processes_proofs`** — for any lines and any failures of `fork()` or `pthread_create()`.
- `ShellTypes`: `TypeOK`. `Reaped`: `AllReaped`. `ShellInv` says where in its life each
  child may be at each place of the shell. After a failed first `fork()` `waitpid(-1)`
  takes whoever has ended, which can only be the right child; the second `waitpid()`
  then finds nobody and returns.
- `Target`: `TargetThere` for every line, of any length. The code looks at the token
  after the first one that contains a "`>`" without asking whether there is one;
  `InvSplit` says why it is there: the loop of `split()` ends only when no separator is
  left, so the last token contains none and the token found is not the last.
- `Words`: `SplitExact`, that the tokens are the words of the line and its separators,
  none left out and none invented, if and only if the line is one the loop can split.
  `SplitInv` says so of the part of the line before the last cut, with `places` rising;
  lemma `NextWord` says what one turn of the loop adds to it, and `Longer` that a token
  that is no word stays one.
- `ServerTypes`, `Hands`, `Own`: `OwnConnection` for any number of clients, threads and
  descriptors. `ServerInv` follows a descriptor from hand to hand: `main()` has it from
  `accept()` on, then the struct until a thread has copied it, then that thread; as long
  as nothing was overtaken it leads to the peer named with it in each of them
  (`HandsLead`) and is never in two (`HandsApart`). `StructInOrder` is why: at most one
  thread is copying, and `main()` is before its next write then.
- `Counts`: `CountsInOrder` for any number of threads and lines. `CountInv` is the mutual
  exclusion (`Excluded`), what `count` is while a line is numbered and not printed
  (`Numbers`), and that the lines a thread has behind it are in the output (`AllPrinted`),
  which all are when `main()` has joined everybody (`Loops`).

**`Datagrams_proofs`** — for any number of requests or clients and any network.
- `Full`: `FullMeansAll`. `Inv` says, as long as nothing came twice or under our id from
  others, that a request is under way, or its reply is in the socket, or it is answered,
  only one of them and with one reply, and that the count is at most the number of
  answered requests; a full count then leaves none unanswered.
- `PingTypes`, `Valid`, `Roughly`: `TypeOK`, `PacketVerifies`, `RttRoughly`. Adding a
  carry to the lower end takes `WORD - 1` away, so a sum keeps its remainder by
  `WORD - 1`; two rounds leave a number that fits into a word, and with its complement
  in the packet the receiver's sum is a multiple of `WORD - 1` that is a word and not 0:
  all ones, for any width. A reply tells the second its request was sent in and came after
  it (`Told`); the printed time exceeds the round trip by the time it then waited in the
  socket, and the microseconds it does not carry add less than a second.
- `CastTypes`, `Senders`: `SenderSent`. What waits in a socket was sent by the one it
  names (`Carried`); converting it once gives it back, modulo what four bytes hold, and
  the "time" client that converts an old value again prints it with an address that
  promises nothing.

**`UdpEcho_proofs`** — `Invariance`, `Types`, `Own`, `Matches`: `OwnParts` and
`AnswerMatches` for any number of clients, lengths of lines and losses. `Contents` says
what is in datagrams and at the beginning of the server's buffer, part by part; what is
behind it is not sent, because `n` is what came, or because a whole struct came. `Flow`
says that a client without duplicates has at most one datagram under way or in the
server, that of its last line, and none while it reads its next.

Only model-checked: all liveness (`EveryClientServed`, `NobodyWaits`,
`OnlyEmbraceStops`, `PipelineEnds`, `PingEnds`, `Answered`, `WaitForEachOther`,
`LinesAnswered`), which rests on fairness and is beyond the prover; `CatPipe`, whose only
property is of that kind. The findings of section 6 are counterexamples, which only runs
can show.

## 6. Where code and comments disagree

1. `select_address`: the address printed with a message or a hang-up
   (server.h:222, 229) is that of the client accepted last.
2. `fork_stale_upload`: `receiveing` is not reset when a client leaves in the
   middle of an upload; the next client of the same process has its `$ls` written
   into the file.
3. `transfer_download`: a file that arrives with its head in one chunk is saved
   twice over, head line included. `ExactlyGoodLayouts` says exactly which
   transfers work when the receiver always finds a full buffer; by the same
   condition a `$put` whose command line (client.h:219) shares a chunk with the
   head does not arrive.

Two more show in the models without a run of their own. The limit that the comment at
server.h:138 states is checked on slots, not on descriptors: `TableConsistent` has to
except descriptors an `fd_set` cannot hold from being watched, and `BadFdSet` is
reachable. The comment at server.h:345-350 names `$download` and `$upload`;
`cmd_action` knows `ls`, `get` and `quit`. What the repository nowhere promises is no
finding, but the properties say where it ends: a client's line longer than its buffer
loses a character at each cut, after end of file on the terminal the client sends its
buffer over and over, and a command written in parts loses its end (`odd` in
`LinesExact`); `split()` takes "`a>b|c`" for a command `a>b` and a pipe (`SplitExact`
says for which lines it is right); and after a failed `fork()` a pipeline may hang
(`BothForked` in `PipelineEnds`). The ping prints times that are too long by the
seconds the reply waits in the socket while the other requests are sent, each with a
sleep, and by up to a second more, since the fraction of the second of sending is not
sent; and any time after a longer packet (`RttRoughly`); it recognises no reply if its
process id does not fit into 16 bits, and that of another ping if the low halves agree
(`odd` in `FullMeansAll`); and with an address instead of a name (the usage line,
ping.cpp:163, offers both) it uses an uninitialised pointer and sends elsewhere, if it
survives (`Start`). Of multithread_server.cpp two threads may serve one connection and
nobody the other (`overtaken`); a line client that meets the struct server gets the
first 14 bytes of its line back as they were, with whatever the rest of the server's
buffer holds, and one duplicate puts a client one answer behind; `wrap.cpp` never ends
(`WaitForEachOther` states it as what the code does). Two clients that upload under
one name at the same time write over each other in `data/`, and whoever uploads last
replaces what others have uploaded (`owner` in `Isolated`). The comment at
fork_print.cpp:46 says that all children end when the main process does; the code
waits for one child, and the other goes on printing. No run shows it, since the
program is not modelled.

## 7. Not modelled

`Bind()` and the arguments of the programs; the contents of `$ls`; the stdio buffer
behind `pfile` (a file is written to `data/` at the latest when it is closed, so
`Isolated` looks at a file once its upload is over; `$get` of a file being uploaded
may send less than was received); `fopen()` or `mkdir()` that fails; the one byte
`buffer[n] = 0` writes behind (or before) the array when a read fills it (or fails),
whose effect depends on the layout of the stack. `$get`'s contents in `ForkServer` are
one reply; `FileTransfer` is about them. `CmdClient` models that a file is being
received, not its contents. Programs of which each process is on its own:
fork_print.cpp and sysfork.cpp, arp.cpp, and the exercises. In wrap.cpp the file it
opens and a `pipe()` that fails; in the UDP programs the address printed with an
answer, and answers of a server that is not one of the two; setting up a socket,
except that it may fail. The percentage the ping prints, which integer division makes
0 or 100. In the shell, input longer than `buf`, escape sequences, and the descriptor
that `Fork_Execute_Redirect` never closes. Names longer than the buffer of `_receFile`
and file names with blanks.

## 8. Plan

In this order; each with its runs, and its theorems where they are in reach.

1. Done: `SelectServer` with `EchoService`, `FileTransfer`, `ForkServer`, `CmdClient`,
   `Shell`, `Ping`, `ThreadServer`, `CountThreads`, `CatPipe`, `UdpEcho`, `Multicast`, and
   the proofs of section 5: all invariants of the passing runs, `RoundComplete`, and the
   implementation of `EchoService`.
2. A composition of `CmdClient` with one session of `ForkServer`, in place of the
   former's external server: `$get` and `$put` at the same time.
