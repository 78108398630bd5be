# A TLA+ model of the Comfirm DMARC report server

The server receives DMARC reports by SMTP, keeps them in memory-mapped queue
files, validates their DKIM signature, converts them to (almost) JSON and posts them
to a web service. This directory models how its processes share the queue files, the
semaphore and the descriptor table, what they do to a mail on its way (down to
the characters), and what is left when one of them dies or the power fails. TLC
checks small instances; TLAPS proves the safety properties of the state machines
for every instance, and ten of the twelve text properties for texts of any length.
Paths below are relative to the repository, line numbers are those of the modelled
commit.

## 1. The system

| Part | State | Operations | Talks to |
|---|---|---|---|
| Master (`src/master_server.c`) | `workers`, `worker_map`, listening socket | start the workers, accept, greet, hand over | workers through a shared descriptor table (`clone` with `CLONE_FILES`) and a shared-memory segment holding each worker's epoll descriptor |
| Worker (`src/worker.c`, `events.c`) | epoll set, batch of events, connection table | wait, handle an event, close | clients through sockets, mailhandler through its queue file |
| SMTP connection (`connection.c`, `request.c`, `response.c`) | status, read buffer, request, response | read, parse commands and content, enqueue, write, close, reset | worker, `pq_enqueue` |
| Queue file (`lib-pq`) | `write_offset`, `read_offset`, `message_count`, slots, in a `MAP_SHARED` file | `pq_init`, `pq_enqueue`, `pq_dequeue` | all processes, through one System V semaphore (`SEM_KEY`) for all files |
| Mailhandler (`mailhandler/*.c`), one more for each start of the server | message in hand, curl handle | dequeue, validate, decode, unzip, parse, post | queue file, DNS, web service |
| Mail parser (`request_parse_data`) | content of a mail, array of headers | split into headers and body | SMTP connection |
| DKIM library (`firm-dkim-extended`) | none | parse tags, canonicalise, select headers, hash, verify; it can sign, too, which the server never does | mailhandler |
| JSON conversion (`mailhandler.c`, `string_buffer.c`) | growing buffer | XML tree to JSON text | mailhandler |
| Config parser (`config_file.c`) | settings | load a file | master and mailhandler, once |
| Start script (`comfirm-dmarc_startup`) | pid file | start, stop | signals; it does not know the mailhandlers |
| Cache trie, log lock, base64 | small or none | | |

What is hard here, and what correctness means for each part:

* **Queue file.** The header is kept redundantly in three fields and changed by
  separate stores, in a file that outlives every process. Correct means: one
  process at a time, header fields that agree, a bounded FIFO to its callers,
  and a semaphore that no crash takes along.
* **Start.** `pq_init` runs once in the master and once in each mailhandler, at
  times nobody synchronises, and every one of them sets the common semaphore to
  1. Correct means: never while somebody is inside.
* **SMTP.** TCP cuts the stream anywhere, events come edge triggered, sockets
  are blocking, a descriptor number and its slot in the connection table are
  reused at once, and a slot that was never used holds what `malloc` left there.
  Correct means: the content is intact, an acknowledgement is true, a reply
  belongs to the line it is read for, no read blocks, every line is answered.
* **Master and workers.** Three parties change one descriptor table and the
  epoll sets, and find each other through shared memory that outlives them all. Correct means: no event reaches the wrong connection, no client
  gets lost in the hand-over.
* **Texts.** The parser, the canonicalisations, the tag lists, the JSON and the
  configuration are character loops with look-ahead, limits and special cases
  that depend on each other: a mail that the parser unfolds in its own way must
  still verify. Correct means: they compute what a plain definition says, and
  stay inside their buffers.
* **Mailhandler.** Every stage may fail, the process may die, DNS and web
  service come and go or never answer, and a restart adds a process without
  ending the old one. Correct means: only validated mails are posted, at most
  once, in order, no mail holds up the others, and no report is lost.

`PROJECT.json` lists the hazards one by one, at the line where they bite.

## 2. The modules

| Module | Models | Built on |
|---|---|---|
| `MailQueue` | the promise of lib-pq: per file a bounded FIFO (`Put`, `Take`, `Release`) | |
| `PersistedQueue` | lib-pq and the semaphore | refines `MailQueue` |
| `PersistedQueueProofs` | types, lock, ring, refinement of `MailQueue`: theorems about `PersistedQueue` | extends it |
| `QueueDurability` | disk, write-back, `msync` and power failure below the queue files | extends `PersistedQueue` |
| `QueueDurabilityProofs` | theorems about `QueueDurability` | extends it and `PersistedQueueProofs` |
| `QueueStartup` | who runs `pq_init` and when | extends `PersistedQueue`, implements it with `InitOnlyWhenQuiet <- TRUE` |
| `QueueStartupProofs` | theorems about `QueueStartup` | extends it and `PersistedQueueProofs` |
| `SmtpSession` | one worker's connections, with clients and TCP | its queue is the one of `MailQueue` |
| `SmtpSessionProofs` | types, events, content, acknowledgement: theorems about `SmtpSession` | extends it |
| `Server` | master, workers, shared descriptors | its events are handled as in `SmtpSession` |
| `ServerProofs` | theorems about `Server` | extends it |
| `MailHandler` | the mailhandler's main loop | its queue is the one of `MailQueue` |
| `MailHandlerProofs` | theorems about `MailHandler` | extends it |
| `CharText` | characters and C string helpers | |
| `DkimText` | text algorithms of the DKIM library | `CharText` |
| `GrowingBuffer` | lengths and allocations of the three growing buffers | |
| `MailParser` | `request_parse_data` | `DkimText` (headers), `GrowingBuffer` |
| `ConfigFile` | `config_load` | `CharText` |
| `JsonText` | `json_escape`, `to_json`, `records_to_json`, `parse_xml` | `CharText` |
| `Texts` | all short inputs of these algorithms, and signed mails that are parsed and verified | `MailParser`, `ConfigFile` |
| `JsonTexts` | the same for the JSON conversion | `Texts`, `JsonText` |
| `TextsProofs` | induction over texts, buffers, body, canonicalisation: theorems about `Texts` | extends it |
| `FieldTextsProofs` | tag lists, settings, fields, signature, selection: theorems about `Texts` | extends `TextsProofs` |
| `MC...` | constants of the small instances | |

**PersistedQueue.** `write_offset`, `read_offset`, `message_count` and `memory`
are the mapped file; `semval` and `semadj` are the kernel's value and undo
counts. A process is at a `pc`; `Inside` is between `semaphore_wait` and
`semaphore_post`. `x = ++x % max` on a volatile field is two stores (`...Advance`,
`...Wrap`), `++message_count` a load and a store (`LoadCount`, `StoreCount`).
`Window` is the part in which the offset has moved and the count has not. `Die`
applies `SEM_UNDO`; `Kill` lets the environment do it at `KillPoints`;
`MemoryFault` is the copy at an offset behind the last slot.
`semaphore_interrupted` is a `semop` that returns `EINTR`, which both callers
ignore. A kill of a process does not lose stores to a shared mapping, so `msync`
is no step here.

**QueueDurability.** `diskHeader` and `diskMemory` are what a power failure leaves.
The kernel writes a page back at any time (`WriteBackHeader`, `WriteBackSlot`).
`msync` needs a page-aligned address and its result is ignored: the call for
`write_offset`, the first field of the file, works and writes the page with the
whole header; those for `read_offset` and `message_count` fail; the one for a
slot works only for the slots in `Aligned`. So `pq_header_sync` is a step of
`pq_enqueue` and no step of `pq_dequeue`. `accepted` holds the slots whose
`pq_enqueue` has returned 0; `torn` remembers that a header was taken over which
a call had left half way.

**Texts.** A state is an input of one algorithm (`job`); a step appends a piece of
the job's alphabet, so every text up to the bound is visited. The algorithms are
operators: a recursive function of the position where the code loops over the
characters (`FoldLeft` in `atoi`), one operator per branch of `request_parse_data`
(`Colon`, `Fold`, `EndOfHeader`, `Character`, `BlankLine`). Each is compared with a
reference definition that speaks of positions and not of loops (`RefValue`, `RefBody`,
`RefTag`, `RefName` and `Named`, `RefBodyText`, `RefConfig`, a recogniser of JSON
members). `Chars` is the set of all characters; the alphabets are built from it.
Hash functions and RSA are left out: `Digest` stands for a hash, and a signature is
good when `dkim_validate` passes its checks (`dkim_check_compability`,
`dkim_validate_body_hash`) and hashes the text that a signer of RFC 4871 has signed.
`Refused` and `Overrun` are its other two ends: an early return, and a write behind
the array of 50 headers. An `rsa-sha256` or a `relaxed/relaxed` in a tag is one
character, so that texts stay short; `BufferSize` gives each tag list the size of its
buffers.

**QueueStartup.** `master_server_init`, `spawn_workers` and `enter_main_loop`
follow `main`; a forked mailhandler runs its `pq_init` whenever it gets that far.
`SleepCoversStartup` states what the half second of sleep is there for.

**SmtpSession.** A line is two atoms, so it can be cut inside its keyword. The
variables are client, network, kernel socket and epoll, and the fields of
`connection` and `request`. `events_wait` takes a batch, `HandleRead` reads once,
`ParseCommand`, `ParseSkip`, `ParseData` and `ParseOverflow` are turns of the loop
of `request_parse_commands`, then `Process...` and `HandleWrite` follow
`connection_handle`. Half a keyword at the end of a buffer is compared with
leftovers of the allocation, so it may match or not. `slot` says what the pointers of
an entry of the connection table are: `connection_setup` leaves them as `malloc`
returned them ("garbage"), the first read makes a request and a response
(`connection_start`, "live"), and a close clears them ("null"). A client that leaves
before its first line gives a close on a garbage slot, which works or ends the worker
(`HandleClosedCrash`); a reply to a client that has left can end it by SIGPIPE
(`HandleWriteKilled`). `kind`, chosen from `KindsOf`
when a client connects, stands for what `request_parse_data` and the copy into a
`mail` make of the content; `MailParser` says which mails these are.

**Server.** `table` maps descriptors to connections in the order of `accept`; the
kernel hands out the lowest free number. `batch` holds the events of a worker
together with the connection they were reported for, so a stale one can be told.
A worker whose `clone`, `shmget` or `shmat` fails is "absent", and the master goes on
as if it were there. `ev_handler` is the number in each worker's shared memory: the
segments outlive the server, so at first it is a number of the last start, which may
now mean another worker's epoll instance or nothing (`Init` starts from any). That
it means the master's own instance is left out: with the same `max_workers` as before
the master had the same number then, and no worker could publish it.
Death by signal is real: the handler of TERM, INT, HUP and QUIT writes through
`master_serv`, which nothing sets; `running` is never cleared and the shutdown
code is not reachable.

**MailHandler.** A mail is its number, `KindOf` what each stage makes of it. Process
`h` is the one that the `h`-th start of the server forks; the earlier ones survive
and take mails from the same file, and none comes back from the dead. Early
returns, faults (`Die`) and undefined values are alternatives: a key record
without `k=` is compared with leftovers; a zip file that is shorter than it says is
read beyond its end, which faults, finds nothing, or inflates and may be posted; the
inflated document has no terminator, so that the heap may spoil or complete it
(`HeapIsZero` assumes the lucky case); from the second report on the curl handle is
a freed one. There is no `CURLOPT_TIMEOUT`, so a post may never return ("hung").
`pq_dequeue` is one step, which `PersistedQueue` justifies while no restart resets the
semaphore under it (`Startup_Restart` shows that one can).

Definitions called `..._something` with the comment *Mutant* are plausible bugs;
each shows that one property can fail. They are not part of any specification.

## 3. The runs

Passing runs:

| Run | Instance and bounds | Shows |
|---|---|---|
| `PQ_Crash` | 1 worker, 2 mailhandlers, 2 slots, 2 mails; kills anywhere but in the window | mutual exclusion, header consistent, refinement of `MailQueue` (`FifoSpec`) |
| `PQ_Semaphore` | 2 pairs on 2 files of 1 slot; kills anywhere, resets at any time, interrupted `semop`s | the semaphore is never lost |
| `PQ_PowerFailure` | 1 worker, 1 mailhandler, 2 slots of which one is aligned, 2 power failures, kills anywhere, write-back at any time | what was accepted stays counted in the header on disk until it is dequeued, unless a header was left half way |
| `Startup_One` | 1 worker, nothing left over, fair | the start never resets the semaphore under a call; every mail queued is taken |
| `Smtp_Sessions` | 2 clients, mails of every kind, content of 1 and 3 atoms cut anywhere, clients may leave at any time, also before their first line or reply, a worker that faults or meets SIGPIPE | content intact, acknowledgements true, no blocking read |
| `Smtp_Live` | 2 clients, 2 sessions each, data buffer too small for one kind, fair | acknowledgements true and every reply the one to its line although slots are reused; every line answered or its connection closed |
| `Handler_Safety` | 9 mails, one of every kind, queue of 2, 2 starts without a stop of the old process, DNS and web service may fail, the latter may never answer, kills, heap not zero, fair | only signed mails posted, at most once, in order from each process; the queue drains as long as some process is neither dead nor waiting for the web service |
| `Server_Fds` | 2 workers, 4 descriptors of which one is behind `worker_map`, 4 connections, everyone may die, workers may fail to start, any leftover in the shared memory, fair | no stale event, one owner, no orphan; what arrives is noticed unless its worker dies or is missing |
| `Texts` | nine algorithms, texts of up to 4 to 7 pieces, buffers of a few characters (`MCTexts`) | see the table below |

What `Texts` checks, and the condition under which the code does what it should.
Each condition is needed: without it TLC shows the property violated by a text
of a few characters (with NUL, CR or LF added to the alphabet where the condition
is about them). The exception is a name that `h=` lists twice: RFC 4871 asks for two
headers then, the code takes the same ones again, and `SelectionAgrees` keeps out of it.

| Property | Says | Holds where |
|---|---|---|
| `HeaderCanonAgrees` | `relaxed_header_canon` gives the one form of RFC 4871 and leaves it alone | a CRLF in a value is a fold |
| `BodyCanonAgrees` | the same for bodies, inside `body_len*2+3` bytes | no CR without LF |
| `TagsAgree` | every tag of a signature is found, `bh=` is not taken for another | no unknown tag contains a known one, values fit |
| `SelectionAgrees` | no header that `h=` names is left out of the hash; and it is exactly those, in that order | names in lower case, none empty; for *exactly*: `NoRivals`, no key continues a listed name, none occurs twice, no name is listed twice |
| `SignatureRemoved` | exactly the value of `b=` is cut before hashing | `b=` is the last tag, `=` in its value only as padding that no blank splits, no line break left in the header |
| `SignedTextHashed` | a mail signed by the book is not refused, and the text hashed after parsing is the one that was signed | rsa-sha256 and relaxed/relaxed, names in lower case, no key begins with another, at most `HEADER_MAX_LEN` headers, a signature value that fits and is not folded inside its padding |
| `ReadsInBounds` | the parser's look-ahead stays in the allocation, whatever lies there | always |
| `FieldsSurvive` | names arrive, values keep their canonical form | `UsualMail`: colon and space behind a name, folds with more than one white space, names and values that fit, at most `HEADER_MAX_LEN` headers, body not starting with white space, no NUL, no bare CR, no bare LF in the header |
| `BodySurvives` | the body arrives unchanged | `UsualMail` |
| `AppendsFit` | no append writes behind its buffer | replies always; JSON while no value is longer than a chunk |
| `ConfigAgrees` | the last line for a key decides, comments and spaces aside | at most one `=` in a setting, no NUL |
| `MembersAgree` | escaping is reversible; what is posted is a list of well-formed JSON members with a key per element | schema order, no quote in a text; keys: indented documents |

What these conditions hide is in the code, and no verdict of a run denies it:

* `dkim_validate` folds the case of a mail's keys and not of the names in `h=`
  (`firm-dkim.c:160-161`): `h=From` selects nothing, and a good signature is rejected.
* It compares the first characters of a key and takes every header that agrees: `to`
  in `h=` also selects `Tool`, and two `Received` where one is named.
* More than 50 selected headers are written behind the array (`firm-dkim.c:145`). The
  parser keeps at most `HEADER_MAX_LEN`, but a name listed twice selects twice.
* `dkim_check_compability` compares arrays with `NULL`, so a missing tag is whatever
  `malloc` left there (`Leftover`), and it accepts no rsa-sha1, which is what
  `dkim_create` signs with: the library refuses its own signatures.
* What `parse_xml` makes and `post_data` sends has no braces around it, so it is never
  a JSON text, although `README.md:5` and `README.md:15` of the repository say that
  reports are posted as JSON. This needs no run to see: the first character written
  is always a quote. `MembersAgree` claims the members only.

The bounds reach the cases that matter: two slots wrap around and fill up; two
mails tell order from loss; two files and one semaphore show the sharing; three
atoms can be cut before, in and behind the end-of-data line; two sessions reuse
a descriptor; four connections reuse descriptor numbers several times; two power failures
meet a header that was itself recovered; five pieces make a mail with two
fields, one of them folded, a blank line and a body; whole settings among the pieces
of a configuration make several lines for the same and for different keys; two starts
put two mailhandlers on one file. Kills are
bounded only in that a second kill at the same store does not push an offset
further behind the last slot (`Kill`). The queue of the SMTP runs holds as many
mails as the clients can send, except in `Smtp_QueueFull`; the read buffer holds a
whole segment, except in `Smtp_EdgeStall`; commands arrive whole, except in
`Smtp_CutCommand`. What the exceptions show is below.

Runs that find the code at odds with what is said about it (details and quotes
under "findings" in `PROJECT.json`):

| Run | Property | What happens |
|---|---|---|
| `Startup_Two` | `MutualExclusion` | with two workers `pq_init` opens the lock under a running call |
| `Smtp_QueueFull` | `AckedIsQueued` | "queued" is answered for a mail that is dropped |
| `Handler_WebDown` | `ReportNeverLost` | a report that meets a web service that is down is dropped |

Further counterexamples, one cause each. They are not part
of the regular runs; `tlc -config X.cfg M` with the module named shows them:

| Configuration | Module, property | What happens |
|---|---|---|
| `PQ_KillInWindow` | `MCPersistedQueue`, `DequeuedIsMail` | a kill between the stores to offset and count (`persisted_queue.c:165`) leaves a file from which a mail is dequeued that nobody enqueued |
| `PQ_SlotLost` | `MCQueueDurability`, `AcceptedIsOnDisk` | the `msync` of a slot fails (`persisted_queue.c:170`, "Persist (flush to disk)"): after a power failure the header counts a slot that is empty |
| `Startup_Restart` | `MCQueueStartup`, `MutualExclusion` | the stop script stops only the server (`comfirm-dmarc_startup:68`); a mailhandler left over is inside when the restarted master resets the semaphore |
| `Smtp_CutCommand` | `MCSmtpSession`, `EveryLineAnswered` | a command that TCP cuts in two (`request.c:42`) is not recognised; its client waits for ever |
| `Smtp_EdgeStall` | `MCSmtpSession`, `EveryLineAnswered` | one read per edge (`events.c:66`): what exceeds the read buffer stays in the socket |
| `Smtp_EmptyBody` | `MCSmtpSession`, `EveryLineAnswered` | a mail without blank line has no body, the copy (`connection.c:88`) ends the worker |
| `Handler_Restart` | `MCMailHandler`, `ReportNeverLost` | the mail left the file at `mailhandler.c:402`, before it was posted; a stop in between loses it |
| `Handler_SecondReport` | `MCMailHandler`, `ReportNeverLost` | `post_data` frees the curl handle (`mailhandler.c:367`) that `main` passes again |
| `Handler_Unterminated` | `MCMailHandler`, `ReportNeverLost` | the inflated document has no terminator (`mailhandler.c:196`) and does not parse |
| `Handler_Fault` | `MCMailHandler`, `EventuallyPosted` | a signed mail without Content-Transfer-Encoding ends the process; the report behind it stays |
| `Server_WorkerDies` | `Server`, `EventuallyServed` | a dead worker's clients stay connected, and the master assigns it new ones |

**Fairness.** `QueueStartup`: the master gets through its start; Linux queues sleepers of a semaphore in order, so
`semaphore_wait` is strongly fair; a process inside a call goes on (weak); the
mailhandler's `while (1)` polls (weak `pq_dequeue`). `SmtpSession`: master and
worker loop for ever (weak for each process as a whole, not per connection), TCP
delivers, and a client reads its replies; nothing forces a client to send or to
leave. `Server`: each living process runs on. `MailHandler`: the server is
started once and each process goes on while it lives; DNS and web service owe
nothing, not even an answer (`PostEnds` has no fairness).

`CHECK_DEADLOCK FALSE` stands where the system may stop: the clients have
finished, every process is dead, or a text has reached its bound.

## 4. The proofs

Eight modules hold theorems. They speak of any number of files, processes, slots,
clients, descriptors and mails, and of texts of any length over any alphabet; the only facts about the constants they use
everywhere are the `ASSUME`s of the modelled modules, which TLC evaluates in the
runs. What a theorem assumes beyond them is in the table, and each such
assumption is needed: the configuration in the last column shows the property
violated without it.

| Theorem | Assumes | Without it |
|---|---|---|
| `PersistedQueueProofs!TypeCorrect` | nothing | |
| `SemaphoreNeverLostHolds` | finitely many processes | |
| `MutualExclusionHolds` | `InitOnlyWhenQuiet`, `~Interrupts` | `Startup_Two`, `Startup_Restart` |
| `RingConsistentHolds`, `FifoRefined`, `DequeuedIsMailHolds` | the same, and no kill in `Window` | `PQ_KillInWindow` |
| `NothingForgottenHolds`, `RingSurvivesPowerFailure` | `InitOnlyWhenQuiet`, `~Interrupts`; kills anywhere | as above |
| `BootIsQuietHolds`, `StartupExcludes`, `StartupIsFifo` | `PlainStart`: one worker, no survivor, `SleepCoversStartup` | `Startup_Two`, `Startup_Restart`, `Startup_One` with `SleepCoversStartup = FALSE` |
| `SmtpSessionProofs!TypeCorrect`, `NeverBlocksInReadHolds` | nothing | |
| `ContentIntactHolds` | `WholeCommands`: no command is cut, the read buffer holds a command line | the code does not recognise a command in two pieces (`Smtp_CutCommand`) |
| `AckedIsQueuedHolds` | `WholeCommands`, and that `pq_enqueue` finds room (`[][Room]_vars`) | `Smtp_QueueFull` |
| `AckedIsQueuedWithRoom` | `WholeCommands`, a slot for every session (`RoomForAll`) | `Smtp_QueueFull` |
| `ServerProofs!TypeCorrect`, `NoStaleEventHolds`, `OneOwnerHolds` | nothing | |
| `NoOrphanHolds` | `SleepCoversStartup` | the master adds a client to an epoll set that is not published yet |
| `MailHandlerProofs!TypeCorrect`, `OnlySignedPostedHolds`, `InOrderAtMostOnceHolds` | nothing | |
| `AppendsStayInside` (`AppendsFit`), `LookAheadStaysInside` (`ReadsInBounds`) | nothing | |
| `HeaderCanonIsExact`, `BodyCanonIsExact`, `TagsAreExact`, `SelectionIsExact`, `SignatureIsCut` (`SignatureRemoved`) | nothing: the conditions of the table in section 3 are part of the properties | |
| `BodyArrives`, `FieldsArrive` (`BodySurvives`, `FieldsSurvive`), `ConfigIsExact` | the same | |

The inductive invariants, all checked by TLC before they were proved:

**Lock and ring** (`PersistedQueueProofs`). Mutual exclusion alone is not inductive:
`SemInv` adds that `semval` is 1 exactly when nobody is inside, and that the undo
count of a process is 1 exactly when it is, which is what makes `Die` and
`semaphore_post` agree. That the semaphore is never lost holds even under resets at
any time and interrupted `semop`s, where processes share the critical section, `semval`
exceeds 1 and undo counts go negative: `UndoInv` says that `semval` and the sum of
all undo counts make up at least 1 and that only a process inside has a positive
count. The sum is written as a sequence of partial sums (`Totals`), so that a step of
one process needs no induction (`TotalMoves`). The ring needs to know what the one process inside has done
so far: `RingInv` says what a file at rest looks like (`RestOK`, with the sum of
`read_offset` and `message_count` equal to `write_offset` or one capacity more, so
that the step needs no arithmetic modulo), and what a worker (`EnqueuingOK`) or
mailhandler (`DequeuingOK`) has made of it at each `pc`. The step lemmas
(`SemProcess`, `RingProcess`) speak of one step of one process, so that the other
queue modules reuse them.

**Refinement** (`PersistedQueueProofs`). `MailInv` says that the slots from
`read_offset` on hold mails, that the mail of a worker between its copy and
`StoreCount` is in the slot behind them, and that a mailhandler behind its copy
has the oldest one. Every step is then one of four things to a caller: unseen,
`Puts` (the store of `message_count`), `Takes` (the store of `read_offset`) or
`Dropped`. `StepMeaning` assigns the steps, `MeaningIsFifo` the steps of `MailQueue`.

**Start** (`QueueStartupProofs`). While a `pq_init` may still come, that is before
`worker_init` or while a mailhandler is between fork and `pq_init`, no mailhandler
runs (`HandlerInv`) and no worker has anything to queue (`WorkerInv`). So every step
is a `QuietStep`, and the assumption `InitOnlyWhenQuiet` of the other theorems is a
theorem about a plain start.

**Power failure** (`QueueDurabilityProofs`). `NothingForgotten` needs two inclusions:
what was accepted lies in the ring that the processes see (`InMapping`) and in
the one that the header on disk describes (`OnDisk`). The first gives the second
whenever the header page is written, at any point of a call; `FlushInv` says that
behind `pq_header_sync` the two headers are the same until `semaphore_post`, because
nobody else is inside; and a consistent header on disk becomes a ring at rest
after a power failure. The invariant holds until `torn`.

**SMTP** (`SmtpSessionProofs`). `EventInv`: while the event of a
client is in the batch, its descriptor is polled, nobody works on its connection, and
what was reported is still to be read. `SlotInv`: a connection that has not begun has a
fresh request and no reply, so `connection_start` changes what lies in the slot and not
what a session sees. `StreamInv`: a session is in one of five
stages (`Listening`, `Commanded`, `InContent`, `Answering`, `Complete`), and during the
content the request, the read buffer, the socket and the network hold consecutive
pieces of exactly what the client sent. `MailsInv`: every mail ever queued has
the text of its kind, stems from a session that has taken place, and is the only
one of that session. `AckInv`: from the moment the reply is about to be sent, the
mail is among them. `RoomForAll` implies `Room` because mails map injectively to
clients and sessions.

**Server.** `OwnerInv` adds to `OneOwner` that the descriptor in the master's hand is
polled by nobody, so that a stale number may lead the master to the wrong worker but
not a descriptor to two; `EventInv` that only the worker that polls a descriptor closes it,
so no event of a batch outlives its connection; `StartupInv` that in the main loop every
worker is missing or has published its own epoll instance; `HandOverInv` that every open
descriptor is polled by its worker, belongs to a missing one, or is in the master's hand.

**MailHandler.** `StageInv`: each stage a message has passed excludes the kinds it
stops, whichever way undefined memory sends it afterwards. The order needs to know
where a mail is (`PlaceInv`): the queue is younger than all that has left it, no two
processes hold the same mail, and only a process that waits for its answer holds what is
already posted. With that, what a process has in hand is younger than all it has posted
(`TurnInv`), and `OrderInv`, both with the property itself, is inductive.

**Texts** (`TextsProofs`, `FieldTextsProofs`). A state holds one text, so an inductive invariant of
`TextSpec` says no more than that the input is a text (`TextsTyped`); the work is in
what the algorithms compute. Induction over the length of a text is done without
the library's induction theorems: `UpToN` says that a set with 0 that is closed under
successor below `n` contains `0 .. n`, which follows from the least number outside it, and each proof
applies it to the set of positions up to which code and reference agree. `Recursion`
gives the equations of a function defined by recursion over positions. What is
left is a lemma per algorithm about one character more, with an invariant that
relates the loop's state to the reference:

* `relaxed_header_canon`: `Matches`, collapsed and trimmed text against `RefValue` and
  `RefOpen`, the value if a word were to follow.
* `relaxed_body_canon`: `BodyMatches`, three forms of the lines so far, according to
  whether a word follows on the same line, on a later one, or not at all.
* `dkim_parse_header`: `TagAt` and `BuffersAt`, the tag being read and the values so
  far, against the last place of each tag (`TagPlaces`).
* `request_parse_data`: `ParserPlace` says that between rounds the index has not
  passed the blank line, whatever jumps the branches make, which gives the body.
  For the fields, `Reading`, `Collected` and `AllRead` say which part of which field
  is in the buffers and that all fields before it are stored; `Form`, `Grow` and
  `Follows` compute the canonical form character by character, and so compare
  what the parser leaves of a fold with what was sent.
* `config_load`: `ScanAt` within a line, `LoadedIs` for the settings after each line.
* removal of the signature: `SigForm` says that behind `b=` the canonical form holds
  the value with single blanks, `CutBehindTag` that the backwards search, which
  starts at a position too far right, passes over no other `b=`.
* selection of headers: the code's list is a concatenation of what each position of
  `h=` contributes. `FlattenHas` finds a header of one part in the whole;
  `FlattenShifted` compares two concatenations whose parts are the same but one position
  apart, because the code picks when it meets the colon and the reference at the
  name's last character; `NameTaken` says which name the loop has collected there.
* growing buffers: `SafeBuffer`, a size that never exceeds the allocation, kept by
  each append of at most a chunk.

Two of these proofs corrected the properties: a NUL or a bare CR breaks a mail
that was called usual before, and a line break in a signature header survives
in the tag's value but not in the canonical text. The conditions are now stated.

Only model-checked:

* the liveness properties `EventuallyTaken`, `EveryLineAnswered`, `QueueDrains` and
  `EventuallyHandled`: fairness and `ENABLED` are beyond the prover;
* `RepliesMatch`: it needs the whole conversation of a session as an invariant, of
  which `StreamInv` keeps only the part from DATA on;
* `SignedTextHashed`: it runs parsing, selection, canonicalisation and the cut of the
  signature in one; the algorithms it is made of are proved one by one, their
  composition for a mail of any length is not;
* `MembersAgree`: conversion and recogniser are `RECURSIVE` operators over trees, and
  the prover has no SMT backend where one is declared.

## 5. Not modelled, and the plan

Not modelled, and why:

* RSA, SHA, base64, zlib, libxml2 and curl beyond their outcome: libraries.
* The size of the mapping in `pq_open` (`persisted_queue.c:66`), which leaves out
  the header: the last slot ends behind the mapping for a few queue sizes modulo
  the page size; an arithmetic fact that needs no state machine.
* `dkim_create` and its line wrapping: no part of the server calls them, and what they
  sign is refused by `dkim_validate`.
* A leftover number in shared memory that means the master's own epoll instance
  (see **Server** above), and two mailhandlers in the critical section of one file
  after a restart: `Startup_Restart` shows that this happens, `MailHandler` takes
  `pq_dequeue` as one step.
* The log lock (`lock.c`): `sem_init` with `pshared` 0 in memory that `fork` copies
  excludes nobody, but only the order of log lines depends on it.
* The cache trie and most of `response.c` and `socket.c`: not called, or calls of
  `setsockopt`.
* A client that does not read its replies: `send` on a blocking socket would stop
  the worker (`connection.c:129`).
* The buffers of the configuration parser, `config_copy`, the kqueue branches,
  command line, chroot and daemonize.

What would come next is `SmtpSession`, `PersistedQueue` and `MailHandler` composed, with the end-to-end promise that an acknowledged report is posted or in the file.
