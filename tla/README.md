# Secure IPC and privacy governance hub: a TLA+ verification project

The program (`main.cpp`, `src/`, `include/`) is a console. Several operators run
it at the same time on one machine; each run is a process. The processes
exchange messages over four local channels and write one audit file in the
directory they run in. This directory holds a model of that system, the TLC
runs that check it on small instances, and TLAPS proofs of what matters most for
every instance. Line numbers below are those of the repository's files.

## 1. Inventory

| component | state | operations | interacts with |
|---|---|---|---|
| client authentication, `src/cryptography.cpp:196-206` | none | sign, authenticate | called once by `main()` at login |
| SHA-256 and AES, `src/cryptography.cpp:31-190` | none | digest, encrypt, decrypt | `main()` around every channel call |
| governance registry, `src/governance.cpp` | roles, consent; in the memory of each process | roles, consent, data minimization | `main()` before a send, after an erasure, in the consent menu |
| compliance engine, `src/compliance.cpp` | `audit_log` in the memory of each process; the file `privacy_audit_trail.txt`, shared | log, access, export, correct, erase, sweep, two reports | every menu entry logs; the file is written by all processes and read by none |
| console, `main.cpp` | who is logged in, the message in hand | login and eight menu entries | everything else |
| shared memory, `src/ipc_channels.cpp:41-122` | one named segment, one static descriptor | init, write, read, close | other processes, by name |
| named pipe, `:128-216` | one path, a FIFO behind it | the same four | the same |
| message queue, `:223-294` | one System V key, one static id | the same four | the same |
| socket, `:300-425` | one port, two static descriptors | the same four | the same |
| web dashboard, `web/index.js` | registries and counters of one page | simulates the program with timers | nothing of the C++ program |
| `db/schema.sql` | - | - | no code opens a database |

Nothing in the repository locks anything, retries anything or reads back what it
has written, and there are no tests. So what is hard is:

* **the shared file.** Erasure and retention truncate it and write back the log
  of one process; the others neither notice nor lose their own copies.
* **the channels.** They are named objects of the kernel that any process
  creates, uses and removes at any time. Sending and receiving block without a
  timeout; receiving also destroys the channel.
* **the gap between a write and its record.** The message is in the channel
  before the audit log knows of it, and a process can die in between, most
  easily while it is blocked in the channel.
* **strings that must agree.** The login depends on two string expressions in
  different files; erasure and correction search free text for substrings.

What makes the parts correct:

* authentication: the users of the walkthrough, and nobody else, are let in;
* governance: what enters a channel is what role, classification and the last
  recorded consent decision allow;
* compliance: an erased subject stays erased, in memory and on disk; nothing
  else is lost, except by age; overlapping writes leave whole records in order;
* cipher: what was encrypted comes back, and a part of it if only a part arrives;
* console: the audit trail and the transfers agree in both directions;
* channels: a message is received at most once and only if it was sent, and is
  lost only where one can say by whom; calls that wait for something come back
  when it can no longer happen;
* dashboard: only administrators give consent; what was submitted is carried out.

`PROJECT.json` lists the hazards, each at its line.

## 2. Modules

| module | models |
|---|---|
| `Cryptography` | `rsa_sign_payload`, `rsa_authenticate_client`; strings as sequences of tokens, SHA-256 as a constant operator |
| `Governance` | the methods of `GovernanceRegistry`, as operators on a consent map |
| `Compliance` | the operations of `ComplianceEngine` for several processes and the shared file, one action each, and one step per write of a rewrite |
| `ComplianceEngine` | abstract: `Compliance` called in any order, with any entries and details; its invariants |
| `Console` | `main()` of several processes, composed of `Governance` and `Compliance`; implements `ComplianceEngine`; the channels are weak (below) |
| `Transport` | abstract: what a channel promises |
| `MessageQueue` | the System V queue, one step per system call; implements `Transport` in order |
| `NamedPipe` | the FIFO, one step per system call; implements `Transport` without order |
| `SocketChannel` | the listening socket, its backlog and the descriptor tables, one step per system call; implements `Transport` in order |
| `SharedMemory` | the segment, its name and the copies in and out, in parts |
| `TrailFile` | where in the file the writes of `Compliance` land, and on what: offsets, holes, one step per `write` |
| `Cipher` | `aes_encrypt`, a channel, `aes_decrypt`, one step per block |
| `Dashboard` | `web/index.js`: handlers and the timers of data subject requests |
| `MC*` | constants for TLC |
| `ComplianceProofs`, `ConsoleProofs`, `TrailFileProofs`, `MessageQueueProofs`, `NamedPipeProofs`, `SocketChannelProofs`, `SharedMemoryProofs` | theorems and proofs about the module they are named after; `ComplianceProofs` about `ComplianceEngine`, `ConsoleProofs` also about `Cryptography` |
| `SequentialProofs` | theorems and proofs about the two parts that share nothing with anybody: `Cipher` and `Dashboard` |

### Data

A string is a sequence of tokens, so that `+` is concatenation. Login needs this
to tell the two expressions apart; payloads are sequences of words; the details
of an audit record are the pieces `main.cpp` concatenates. `Occurs(x, t)` says
whether `find` sees `x` in piece `t`: in `MCComplianceEngine`, `Subject_001` occurs in
`Subject_0010`. A log is a set of records with a number, `id`, for the place in
the vector. The bookkeeping fields and variables (`at`, `owner`, `started`,
`erased`, `rewritten`, `exposed`, `wire`, `origin`, `broken`, ...) exist for the properties; no
guard of an action reads them, except that `clock` bounds the runs and a log
record takes its number from it.

### Compliance

Nothing is locked, and a record is flushed by `std::endl`, so that every write is visible to
the others before the next. `log_audit_event` appends to memory and to the file, one write
and one step (`compliance.cpp:11-31`); `execute_dsr_correction` changes memory only (`:89-101`).
`execute_dsr_deletion` removes from memory and rewrites the file whether or not something was
found (`:103-134`), `enforce_data_retention_policy` removes the 10 oldest of more than 50 and
rewrites it (`:201-223`); these two numbers are constants. A rewrite is one step that opens the
file with trunc (`RewriteTrail`) and then one step for each record (`WriteRecord`), so that the calls
and the rewrites of other processes, and the end of this one, come between any two of its
writes. Its own process makes no call until it is done (`Idle`). A write of a rewrite goes
where the last one ended, and what others have written there by then is lost: `WriteRecord` lets
it hit any records of others, but none of its own. That is more than can happen, and
`TrailFile`, which has the offsets, shows that nothing else can (`LossesAreOthers`).

`retention_days` is set (`:8`) and never read. Whether the file can be opened is a choice of
the constant `OpenOutcomes`. `EndProcess` is a process that ends, be it in the middle of a
rewrite, and the next one on the same terminal: memory is empty, the file stays.

### Console

A menu entry is cut where another process or a kill can make a difference: `Send`
goes up to the channel (consent, role, minimization, with their two denials),
`WriteSucceeds` or `WriteFails` follows, and `Audit` is the call of `log_audit_event` that
ends nearly every entry. An erasure and a sweep begin a rewrite; `Rewrite` is one write of
it, while the other processes go on, and `Menu` continues when it is over. `Kill` ends a
process before a write to a channel, before an audit record, or in the middle of a rewrite.
Channels here may lose, repeat, reorder and damage messages but not invent them, which covers all four; the modules per channel say more. `Engine` is
`ComplianceEngine` with the entries and the details that `main()` can log; its invariants are those of
the console too (`ConsoleUsesEngine`, section 5).

### MessageQueue and NamedPipe

Each action is one system call, and the kernel's part is what it does to the
variables: the queue under the key, or the path, the FIFOs (also the unlinked ones
that are still open) and who has which side open. A removed queue's id is not given out again. Opening a FIFO lets
everybody through who waits on the other side (`PassThrough`); `close` of the last
descriptor discards what is left (`DropUnheld`). `WriteSigpipe` is the write to a FIFO
nobody reads, fatal because no handler is installed. Payloads are short: they
fit into the pipe and together into one read of 2047 bytes. The processes belong to one user,
so that nobody is refused an `unlink`, an `open` or a queue.

### SocketChannel

`Bind` and `Listen` are `init_socket_channel`, `Connect` is `write_socket_channel`, `Accept` and
`CloseSocket` are a receive. The numbers of descriptors matter: after a failed bind
`server_socket` keeps the number of a closed one (`ipc_channels.cpp:334-337`), the kernel gives
the lowest free number to the next `socket` or `shm_open`, and `close_socket_channel` or
`close_shared_memory` then closes what is not its own. So `file` is the descriptor table
of each process, and the two calls that open and close the shared memory segment
are actions too. `connect` and `send` are one step: nobody accepts the connection
before the sender's call is over. A backlog of 1 holds two connections, as Linux
counts it; `TypeOK` shows that it never holds more than one, which is why `connect` never
waits. The ports' `TIME_WAIT` is left out, since `SO_REUSEADDR` is set.

### SharedMemory

A segment is two cells. A short message is one cell with its `'\0'`, a long one two; so
an old long message can show behind a new short one if the `'\0'` were not copied. The
parts of `memcpy` and of the copy into a `std::string` are steps, in any order, `strlen` is a
step before the latter. A segment without its name lives on where it is open or
mapped, and `Opened` prefers the name to the descriptor (`:67-68`, `:95-96`). Access to a
segment that has no size yet is `Sigbus`.

### TrailFile

`Compliance` leaves open which records of others a rewrite hits; here the file is a sequence,
and the write of a record is a step of its own in an append too. `app` writes at the end, `trunc` from the offset of the process, and where the file
has been truncated by another in the meantime, a hole of zero bytes remains. All records
have the same length: that a record overwrites parts of two others is left out.
`EndProcess` may come between any two writes, and an open may fail.

### Cipher

`EncryptBlock` and `DecryptBlock` are one turn of the outer loops; `Transmit` is what a channel
leaves of a ciphertext, a C string of at most `SHM_SIZE - 1` bytes, with the guard of
`aes_decrypt`. Bytes, the exclusive or, key and initialization vector are constants with the
laws they need, so that the theorems are not about one key.

### Dashboard

A handler is a step, and the 800 ms timer of a request is one later step, `FireRequest`, in
the order in which the timers were set. Only type and subject are captured; the corrected
text is read when the timer fires, so it is a free choice there, and nothing asks who is
logged in by then. The page's own password check picks a role, which is all `Login` keeps. The
audit trail is the set of its records: the page filters and lists them, so that neither their
order nor how often a transfer was repeated matters to what it does.

## 3. Runs

| run | shows | bounds |
|---|---|---|
| `engine` | what is in memory and on disk after any sequence of calls, and between the writes of rewrites that overlap | 2 processes, 6 calls and all their writes, 2 overlapping subjects, sweep at the 3rd record |
| `console` | the trail claims no transfer that did not happen, every written message is recorded, consent decisions in the log justify the transfers, and only administrators send raw internal or restricted words | 2 processes, 3 users, one of each role, 2 subjects, 4 calls of the engines and all steps between them, a sweep of 2 at the 3rd record |
| `console_login` | nobody gets past the login | 2 processes, 3 users, 2 passwords, 3 calls, an injective digest |
| `queue` | each message once and in order; lost only behind a received one; waiters on a removed queue return | 3 processes, 4 messages, 3 queues of capacity 2, kills, oversized payloads |
| `pipe` | each message once; lost only behind a received one or with a process; a reader past the rendezvous returns | a sender, a receiver and a process that does both, 2 FIFOs, kills |
| `socket` | each message once and in order; static descriptors refer to what they should, and messages are not stranded, unless an init failed; every call returns | 2 processes, 3 sockets, 2 descriptors, kills |
| `shm` | an undisturbed receive is whole; unlink removes only what came late; nobody receives twice from a segment | 2 processes, 2 segments, 2 messages, kills |
| `trail` | erased records stay out, records stay in order, a write hits only records of others and only in a rewrite, a rewrite nobody disturbs writes the log | 2 processes, 3 records, 2 subjects, sweep at the 2nd record, failed opens |
| `cipher` | whole ciphertexts are decrypted, cut ones show a prefix | 781 payloads of 0 to 48 bytes, a buffer of 50 |
| `dashboard` | no blank names, consent changes, erasures happen | 4 subjects, 1 transfer, 2 waiting requests |
| `console_walkthrough` | **violated**: the README's credentials are refused | 1 process |
| `pipe_send_returns` | **violated**: a sender waits forever on a FIFO that was unlinked | 1 sender, 1 receiver that never stops receiving |

**The bounds.** Two processes are enough for what one does to the other's records;
each property names two records or a record and an erasure, so that six calls
(log, log, erase, rewrite by the other, restart, sweep) reach every combination, and
every call of one process falls between the writes of another's rewrite;
the sweep's 50 and 10 become 2 and 1, and the theorems hold for all values. Four calls of
the console (login, transfer, another record, sweep) take the record of a transfer out of the
log, which needs a sweep of 2; that an erasure revokes consent and a transfer is tried after
it takes five calls, more than TLC gets through, and rests on the theorem `DecisionsBind`. A
queue of capacity 2 with 4 messages is empty, partly full and full, and has three
successors; two FIFOs are the linked one and one that was unlinked under its users.
Three sockets are one that listens, one whose bind failed and one bound in between;
with two descriptors a number that was closed is given out again at once. Two
segments are the named one and one that is only open; two messages are what a torn
read mixes. Three records allow a rewrite of two while another process appends or
truncates; the theorems of `TrailFileProofs` hold for any number. The payloads of `cipher` end
before, at and after a block boundary, with last bytes that could be padding, and
their ciphertexts have a zero byte in any block. In `dashboard` two requests are enough for one to
fire between the submission and the firing of the other.
`Permutations` of the processes is used as symmetry in `engine`, `console`, `console_login`, `shm` and `trail`, where no
process is named; it is not used where a run checks a liveness property.
Deadlock is not checked: programs stop when their users do nothing, and runs end
at their bounds.

**The login.** With SHA-256 as it is, `rsa_authenticate_client` refuses every
signature `main()` makes (section 5), and nothing behind the menu can be reached. The run
`console` therefore uses a digest, `MCDigestOfKey`, that
collides on exactly the two strings involved. It is a value for the constant
`generate_sha256`, the model is the same, and what the run shows is about the program
once the strings agree. `console_login` and `console_walkthrough` use an injective digest, `MCDigest`,
which permutes the tokens so that the digest of words has no word in it. `MCConsole` also
checks, as `MCAssumption`, that the hypotheses of the theorems about the console hold of its
constants, so that the theorems speak of these instances too: of those that quantify over
all strings, what they follow from.

**Fairness.** `engine`, `console`, `console_login`, `shm`, `trail` and `cipher` check safety only and assume none. In
`MessageQueue`, `NamedPipe` and `SocketChannel`, every process has weak fairness on `System`: a system call that can return
does return, which the kernel's wake-ups and scheduling justify. Users owe nothing:
nobody has to send, choose a menu entry, die or be restarted. `NamedPipe` also has weak
fairness on `OpenRead` for the receivers, processes that keep choosing entry 2;
`SendReturns` fails in spite of it, and `ReadReturns` does not need it. `Dashboard` has weak fairness
on `FireRequest`: a browser fires the timers it was given, and the operator owes nothing.

## 4. Findings

Each is a run that expects a violation; `PROJECT.json` quotes the lines.

1. Nobody can log in: the signed string has the `_sig_` separator and the user name
   once more than the expected one (`cryptography.cpp:198`, `:203-205`, `main.cpp:56`).
2. A receiver's `close_pipe_channel` can remove the FIFO of the next sender, who then
   waits forever (`ipc_channels.cpp:214`).

Met while modelling and in the model, without a run of their own; several are why a
property has the exception it has:

* an erasure deletes the audit records of all other processes and of all earlier
  runs from the file (`compliance.cpp:117`): `DiskCovers` only speaks of what came after the
  file was opened with trunc last;
* an erasure does not purge for good: the other processes are not told, and a write of a rewrite
  by one of them brings the erased records back (`compliance.cpp:119`), where `README.md:108` of the
  repository says "fully purging logs". `ErasedFromDisk` says that nothing else does, and
  `OwnErasedStaysOut` speaks of a process's own records;
* a record written while another process is in the middle of a rewrite can be overwritten by
  it, an append as well as a record of a second rewrite (`compliance.cpp:117-130`): `DiskCovers`
  excepts these records (`exposed`), `LossesAreOthers` says who can hit whose;
* a process that is killed in the middle of a rewrite leaves the rest of its log nowhere
  (`compliance.cpp:117`);
* a send that fails in the channel leaves no audit record (`main.cpp:195`);
* a sender can be killed by SIGPIPE and never log or report anything (`ipc_channels.cpp:165`);
* after a failed bind or listen a process can close the wrong descriptor or strand its
  own earlier message (`ipc_channels.cpp:323`, `:334-337`): `upset` in `SocketChannel`;
* a receive can show a mix of two messages written at once, or kill the process between
  another's `shm_open` and `ftruncate` (`ipc_channels.cpp:46-48`, `:74`);
* consent is per process and reset by a restart (`governance.cpp:32-34`); an erasure that finds
  nothing leaves the consent as it was (`main.cpp:322`); only the first e-mail of a payload is
  masked (`governance.cpp:92`; `README.md:103`: "Automatically masks e-mails/PII"); `find` also hits
  subjects whose names start with the one erased (`compliance.cpp:111`), and so does the dashboard
  from its tenth subject on (`index.js:555`);
* after an oversized payload a receive blocks that would have returned at once
  (`ipc_channels.cpp:244`, `:275`); only a process that has sent can receive from the queue;
* a ciphertext cut between two blocks is shown as the beginning of the payload and
  nothing reports the loss (`cryptography.cpp:147`);
* the dashboard carries out requests after a logout, and uses the corrected text that
  is in the field by then (`index.js:541`).

## 5. Proofs

All are checked by TLAPS without anything taken on trust. Each invariant and each
action property a run checks is proved, and so is each refinement. Nearly every
proof has the same shape: an inductive invariant `IInv`, one lemma per action that
keeps it, and theorems that take the run's properties out of it. Before they were
proved, TLC checked the inductive invariants on the instances of the runs.

**Login.** `ConsoleProofs!NobodyAuthenticates` *assumes* `CollisionFree`: SHA-256 tells apart the
strings it is given. The three strings are compared by length and by the token in one place.
`LoginAlwaysRefused`, under the same assumption: no process ever reaches its menu. The
inductive invariant adds to `NobodyReachesMenu` that a pending audit record leads to the end of
the process; without it the step after `Audit` could be the menu.

**Console.** The other theorems of `ConsoleProofs` do not care whether anybody gets in: they
hold of every digest that yields strings (`DigestsAreStrings`), the colliding one of the run
`console` and SHA-256 alike.

* `ConsoleTypes` (`TypeOK`) rests on `Shapes`, the shape of every variable, the log's included.
* `ClaimsAreTrue`: a record of a transfer is preceded by its message. The step in between is
  the point, so the invariant adds that a *pending* record is that of a message in a
  channel (`PendingWritten`).
* `RawNeedsAdmin` (`OnlyAdminsSendRaw`) rests on what `apply_data_minimization` does with each word of
  a payload, and on `Raw`, the same statement about what is about to be written: between
  the minimization and the write the process may be killed or another user may log in elsewhere, but
  nobody changes the draft. *Assumes* `WordsAreNoDigests`: what is typed is neither a
  digest nor one of the markers; else an ordinary user could type what looks like the hash of a word.
* `WritesAreLogged` (`WrittenIsLogged`): `Logged` strengthens it by what the details of the record are, so
  that a correction, which cuts details and appends text, cannot make the record mention another
  subject, and an erasure of another subject cannot take it.
* `DecisionsBind` (`DecisionsBindTransfers`): `Decided` says that the registry is what the last decision in
  the log says (`RegistryLogged`, `Overruled`), and that a drafted message has consent. A sweep keeps
  this because it removes the oldest records first, an erasure because it revokes.

* `ConsoleUsesEngine`: the console implements `ComplianceEngine`. A step of `main()` is one call of
  the engine, with an entry and details of the console, or one write of a rewrite, or changes
  no log and no file; that
  what `Audit` logs is an entry and details is `Shapes` again. So the theorems about the
  engine, which `ConsoleProofs` takes from `ComplianceProofs` through the instance `Calls`, hold of the console:
  `ConsoleKeepsLogs` (`Identity`, `ErasedFromMemory`, `RemovedByErasureOrAge`) and `ConsoleKeepsFile`
  (`ErasedFromDisk`, `DiskWithinMemory`, `DiskCovers`, if the file always opens; rewrites overlap
  and are killed in the middle there too). What the
  engine supposes of its parameters (`EngineAssumption`) is proved of the console's
  (`EngineParameters`). No run shows the correspondence: the console's entries and details are
  infinite sets, over which TLC cannot enumerate the steps of the engine. The run `engine` checks
  these properties for the engine by itself.

`WritesAreLogged` and `DecisionsBind` *assume* `SubjectsAreNames`: a subject's name is not found in the fixed
texts of the console, in a field or in a corrected value. Without it an erasure can
remove the records of others, as section 4 says, and the statements are about what is
left when it does not.

**Engines.** `ComplianceProofs!LogsAreSound`: type correctness, `Identity` and `ErasedFromMemory`, for any
processes, texts, limits and outcomes of opening the file. `Inv` adds that what a rewrite has
yet to write is not on disk (`Fresh`); else the disk could hold a record twice, with the
details before and after a correction. The four are inductive together: `ErasedFromMemory` needs
that a record's `at` is at most the clock (`Identity`), so that a record written after an erasure
is newer than it.

`DiskIsSound`: `ErasedFromDisk`, `DiskWithinMemory` and `DiskCovers`, between any two writes of
rewrites that overlap. `DiskInv` adds `Unharmed`: while a process rewrites the file, the records of
others in it are exposed. It is what makes `WriteRecord` keep `DiskCovers`: the records it may hit
are those of which nothing is claimed. *Assumes* `FileOpens`. If the file cannot be opened the
memory is erased and the file is not, and `ErasedFromDisk` is false. What the theorem does not
say is what becomes of exposed records: they are on disk or not, and `TrailFile` has to do with that.

`RemovalsAreJustified`: the action property `RemovedByErasureOrAge`, for every limit and batch. What a sweep
removes is counted without induction: the number of older records tells the `n` oldest
apart and is below `n` (`OldestAreFew`); a log is finite since its ids are at most the clock.
`TypeIsInvariant`, `IdentityHolds`, `DiskStaysWithinMemory` and `DiskCoversMemory` state conjuncts one by one.

**Trail file.** All five properties of `TrailFile`, for any processes, subjects, limits and number of
records. `IInv` adds to them: what a process holds is its own and newer than its erasures
(`Mine`), what it has yet to write comes after everything it has in the file (`Ahead`),
a rewriter has nothing behind its offset and the offset stays below the ids it has yet to
write (`Behind`), and the file of
a sole writer is what it has written so far (`Sole`). `SameOwnerInOrder` needs `Ahead` for the appends
and `Behind` for the rewrites; that an offset is never mistaken for an append needs
its bound. `LossesAreOthers` (`LossesAreOthersHolds`) is what `Compliance!WriteRecord` takes for granted: an append is
behind everything, and a rewrite is at an offset behind all its process has in the file, also
where the file was emptied and grew again since.

**Cipher.** `RoundTripHolds` and `CutShowsPrefixHolds`, for every payload, key, vector and byte
operator that undoes itself. The invariant says which blocks of `result` are cipher and which
are plain text, and that `prev_block` is the block before (`Encrypting`, `Decrypting`); it
rests on lemmas about the padding, about `CString` keeping a prefix, and about `Source`
and `Target` undoing each other.

**Channels**, each for any processes, messages, kernel objects and kills:

* `MessageQueueProofs`. `LostOnlyAfterRead` needs that the messages in the queue of the key were put into
  this queue (`Current`), that ids are not given out again, and that whoever is about to remove
  *this* queue has received from it (`ReadBeforeRemoval`): a process that failed on a stale id also goes on
  to `msgctl`, and its id must still be stale then. `Ordered` gives the order of `Transport`.
* `NamedPipeProofs`. The kernel's rendezvous is what protects messages: whoever is past its open has
  met the other side (`Meeting`), a FIFO nobody has open is empty (`Unheld`), and what is in
  a FIFO was put there and not received (`Labelled`). The only excuses for a loss are a receive from
  this FIFO and a death with this FIFO open.
* `SocketChannelProofs`. `DescriptorsAreOwn` needs that a port has one listener (`OneListener`) and that a
  socket is open in one process under one number (`OpenOnce`); `InCall` says what each point of a
  call knows of its socket, among it that the backlog is empty before `connect`.
  `TypeOK` includes that a backlog holds at most one connection.
* `SharedMemoryProofs`. Nothing is locked, so the invariant speaks of those who are alone in a segment
  (`Undisturbed`): what the segment holds of its last message (`Stored`, `Storing`), what a reader
  has copied of it and has left to copy (`Fetching`), and that a segment which held an
  undisturbed message when the receive began is the one that is received (`InTime`).
  `OnlyLateMessagesRemoved` follows from the last, `ReadsOnce` from what is known of segments
  without a name (`Gone`).

`QueueIsTransport`, `PipeIsTransport` and `SocketIsTransport` state `ImplementsTransport`: the initial states of a
channel are those of `Transport`, and under `IInv` every step is a send, a delivery or a
stutter. That a message is delivered once follows from where it waits: `Ordered` in the queue
and the sockets, `Labelled` in the pipe.

Constants are constrained only by the named ASSUMEs, which the runs evaluate.

**Dashboard.** `PageTypes` and `PageConsentChanges`, for any bounds. `TypeOK` is inductive: the registry
never gets shorter, so that what is recorded of a subject, or waits for it, stays about a
subject, and a blank name is turned away when the timer fires and not only when the request
is submitted. `ConsentChanges` needs it to know that the request at the head of `pending` has a
subject of the registry and nothing but a type and a subject.

Only model-checked: liveness (`StaleWaitersReturn`, `ReadReturns`, `CallsReturn`, `ErasuresHappen`), which is out of the
provers' reach, as ENABLED is. The two findings are counterexamples, and TLC's alone.

## 6. Plan

Done, in this order: `Cryptography`, `Governance`, `Compliance`, `ComplianceEngine` and their proofs; `Console`;
`Transport` and `MessageQueue`; `NamedPipe`; `SocketChannel`; `SharedMemory`; `TrailFile` and its proofs; `Cipher` and its
proofs; `Dashboard`; the proofs about the queue, the sockets, the console, the pipe, the
segment, and the removals of the engines; the refinement of `ComplianceEngine` by `Console`, and the
proofs about the dashboard.

Left: a theorem that `TrailFile` implements the part of `Compliance` that is about the file. `LossesAreOthers`
proves the one supposition of `Compliance` that it would rest on, and `AloneFileIsLog` what an
undisturbed rewrite amounts to; a refinement would need a mapping that completes an append
at its call, since `Compliance` has the push and the write in one step.

## 7. Not modelled

The Windows branches, a second program under `_WIN32` with other blocking rules; the texts
of reports, prompts and hexdumps; menu entries 3 and 4, which only print; input that is
not a number, after which the menu repeats without effect (`main.cpp:98`); the bit arithmetic
of SHA-256; payloads that fill a pipe or take several reads; failures of the kernel for lack
of memory or descriptors; the animations of the dashboard, markup, styles, build files and
the database schema.
