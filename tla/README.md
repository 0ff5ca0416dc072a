# A TLA+ verification project for deling

deling is a small Python library for SSH and SFTP: it prepares a machine to
talk to an SSH server (`~/.ssh/known_hosts`, `authorized_keys`, key files),
opens connections and runs commands over `ssh2-python`, and offers a remote
directory as a data store. This directory holds TLA+ models of it, TLC runs and
TLAPS proofs. Every definition is a translation of the code under `src/`;
`PROJECT.json` maps each to its lines.

## 1. Inventory

| Component | Source | State | Operations |
|---|---|---|---|
| Locked line files | `deling/utils/io.py`, `deling/authenticators/ssh.py:273-335` | the file on disk, the flock on `<path>_lock`, lines held in memory while rewriting | add a line, remove the lines that mention something |
| SSHAuthenticator | `deling/authenticators/ssh.py:72-341` | `_credentials`, `_is_prepared`; `~/.ssh`, its mode, the file's mode | `prepare`, `cleanup`, `authenticate` |
| SSHCredentials | `deling/authenticators/ssh.py:344-517` | key material, file names, the files | `store`, `load`, `remove`, `exists` |
| SSHClient | `deling/clients/ssh.py:48-290` | socket, session, its flag, two channels | `connect`, `disconnect`, `open_channel`, `close_channel`, `exec_command`, `run_single_command`, `run_multiple_commands` |
| Command output | `deling/clients/ssh.py:196-237, 293-327` | streams of a channel, exit status | read stderr, exit status, stdout; decode |
| SFTPStore | `deling/io/datastores/core.py` | an SSHClient, an SFTP channel, the remote files | `open`, `read`, `write`, `append`, `mkdir`, `rmdir`, `upload`, `download`, `copy`, `rename`, ... |
| SFTPFileHandle | `deling/io/datastores/file.py` | a remote handle with its offset | `read`, `write`, `seek`, `tell`, iteration |
| ERDA stores | `deling/io/datastores/erda.py` | none | constructors |
| Others | `io/async.py` (commented out), `utils/run.py`, yaml/hash/copy helpers, key generation, `benchmarks/` | none that is shared | |

How they interact. `SFTPStore.__init__` prepares its authenticator, makes an
`SSHClient` with it, connects, opens an SFTP channel and keeps a copy of that
channel. `SSHClient.connect` calls the authenticator with its ssh2 session.
`prepare` and `cleanup` edit `known_hosts` through the locked line file
protocol; the lookup of `prepare` does not take the lock. Processes share
nothing but files; threads that share a client have no protection at all and
are not modelled.

What is hard, and what makes each component correct:

- *Locked line files*: several processes, a lock that may fail to be taken,
  swallowed exceptions, death in the middle of a rewrite. Correct: an edit looks
  like one step to the others, nobody's line is lost, and the lock is always
  given back.
- *SSHAuthenticator*: checks of files and directories that other processes make
  and change between the check and the use; a lookup that races with rewrites.
  Correct: a host that was found or added stays known until somebody cleans it
  up; duplicates do not pile up; a new file does not stay readable by others.
- *SSHClient*: the peer breaks the connection between any two steps; the state of
  the connection is spread over a socket, a session, a flag and two channels, and
  `is_socket_connected` changes what it observes. Correct: no channel of a session
  that is gone, no session on a socket that is not the client's when `connect`
  says True, and everything closed after `disconnect`.
- *Command output*: a command writes, closes its output, exits and reports its
  status in its own time and in any order, while the client reads stderr, the
  status and stdout in turn, chunk by chunk. Correct: a response is all of what
  the command wrote, and its status is the command's.
- *SSHCredentials*: nothing is locked; a key file is written, and its mode narrowed
  afterwards, while other processes store, load, remove and generate keys. Correct: a
  private key does not stay readable, and what `store` and `remove` return is so unless
  another process has written or removed meanwhile.
- *SFTPStore over SSHClient*: two objects hold the same channel, the client may be used
  beside its store, the constructor may raise halfway, and `__del__` runs after all.
  Correct: no connection is left that nobody can close.
- *SFTPStore*: several stores on one remote tree, check-then-act in `mkdir`, half
  done recursive operations, writes that do not truncate, answers that are lost.
  Correct: what a method reports is so unless another store has undone it, and
  appends at the same time lose nothing.

`PROJECT.json` lists each hazard at its line, with the properties that watch it
or a note that says why none does.

## 2. Modules

| Module | What it is |
|---|---|
| `KeyRegistry` | abstract: a bag of lines; adding one and removing all that mention something are single steps |
| `KeyFile` | the flock protocol of the line files, step by step; implements `KeyRegistry` |
| `KeyFileProofs` | proofs about `KeyFile` |
| `KnownHosts` | `prepare` and `cleanup` of several processes; extends `KeyFile` and takes its steps |
| `KnownHostsProofs` | proofs about `KnownHosts`, over those of `KeyFileProofs` |
| `SSHClient` | the connection life cycle of one client and its peer |
| `SSHClientProofs` | proofs about `SSHClient` |
| `CommandOutput` | `exec_command` and the readers of a channel against a running command |
| `CommandOutputProofs` | proofs about `CommandOutput` |
| `StoreLife` | the life of a store over its client; extends `SSHClient` and takes its steps |
| `StoreLifeProofs` | proofs about `StoreLife`, over those of `SSHClientProofs` |
| `SFTPStore` | several stores, and the files and directories of one server |
| `SFTPFile` | file handles in the hands of a user; extends `SFTPStore` |
| `SFTPTreeProofs` | proofs about the remote tree and the shape of the calls of `SFTPStore` and `SFTPFile`; what a step does to the calls of other stores |
| `SFTPFileProofs` | proofs of what those calls promise, over `SFTPTreeProofs` |
| `Credentials` | key files of several processes in one directory |
| `CredentialsProofs` | proofs about `Credentials` |
| `MCKeyFile`, `MCKnownHosts`, `MCSSHClient`, `MCCommandOutput`, `MCStoreLife`, `MCSFTPFile`, `MCCredentials` | the constants of the TLC runs |

### KeyFile

`pc[p]` is where the call of process `p` is: `open` and `flock` are
`acquire_lock`, `append` is `write(path, line, mode="a")`, `load`, `trunc` and
`write` are `remove_content_from_file`, and `release` is `release_lock` in the
`finally` clause. `op` and `arg` say which call it is (a line to add, or the
content to remove; `None` is a content that Python takes for false), `ret` what
it returns. The exceptions are `OpenLockFails` (the lock file cannot be opened,
and `finally` reads an unbound name), `FlockFails` (`acquire_lock` swallows the
error and hands back a closed handle), `AppendFails`, `RewriteFails` and
`ReleaseUnlocked` (the closed handle raises in `finally`).

The file is a bag of lines: no line's effect depends on where it stands. The
rewrite is not one step, because `open(path, "w")` empties the file and lines
reach the disk later; a line that is written while another process has changed
the file may overlay what that one wrote (`Overwritten`). The code's buffered
writes reach the disk in pieces of the buffer's size. Writing line by line has the
states between lines; what it does not have is a piece that ends in the middle of a
line, half of which a reader or a crash would then meet: a bag of lines cannot say
that. A substring test decides what is removed
(`Mentions`). `Faults` says what the environment may do, so that properties can
say what they need. A history variable, `unlocked`, is set by the first `flock()` that
fails: what rests on the lock is promised until then.

`KeyRegistry` sees `Entries`: the file and, while the owner of the lock rewrites
it, the lines that the owner still has in memory. Its `broken` is `unlocked`; from
then on it allows anything.

### KnownHosts

`stage[p]` is where `prepare` or `cleanup` is; while it is `adding` or `cleaning`
the process takes steps of `KeyFile` (`EditStep`). `Probe` is `get_known_host`:
one of the lines that the host may give, which differ by salt. The disk is
`dirThere`, `dirMode`, `fileMode` and `KeyFile`'s `present` and `file`. Opening the
lock file fails as long as the directory is missing. Three history variables serve
the properties only: `seen` is what a process has found or added and nobody has cleaned
up since, `wiped` whether a cleanup has mentioned the line of its host since, and
`missed` counts the lookups that found nothing because they met a rewrite. A peer that
accepts and stays silent keeps `get_known_host` for ever: it connects and shakes hands
on a blocking socket without a timeout. So nothing forces `Probe`.

### SSHClient

A step is one call into the socket or `ssh2` and the Python around it. `call` is
the method the user called and `pc` where it is. `link` is what the kernel knows of
each socket: a socket that was never connected is as good as a connected one to
`is_socket_connected`, so is one that the peer has closed; only a reset is seen,
and only once (`Taken`); a later read or write of the socket may take the error too
(`MayTake`). `channel` and `sftp` hold the session they were opened
on. `exec_command` of the user runs on the channel he holds or on a new one.
Servers give channels to authenticated sessions only; everything else the library
answers is a choice. `authenticate` may raise, return False, or succeed over a live
connection. `__del__`, which is `disconnect` once more, is in `StoreLife`. Not
modelled: threads that share a client, a nonblocking socket, and private methods
called from outside, as some tests do.

### StoreLife

`stage` is where the store is: in its constructor, in the hands of its user, in
`disconnect`, or in what happens to a store that nobody holds any more (`__del__` of
the store, then of the client, then the interpreter closes what is left). `chan` is
the store's own `sftp_channel`, as the session it belongs to. While a method of the
client runs, the steps are those of `SSHClient` (`Below`); the user may call the
client too (`Use`), which is how the store's channel comes to be one of a session
that has gone. `self.sftp_channel.session.disconnect()` then sends a message over a
descriptor that may be that of a later connection, and spoils it
(`SessionDisconnect`); what `ssh2` does with such a session is a choice.
A constructor whose authenticator cannot be prepared raises before there is anything
to close; `__del__` then raises for want of an attribute, which the interpreter
ignores. It is left out.

### Credentials

Each process has one object, which is used by one call at a time. The three methods
go through private key, public key and certificate; `at` is the one they are at, and
`pc` what they do with it: `store` decides, `mkdir`, `open` and `fill` are
`write(..., mkdirs=True)`, `chmod` the mode; `check` and `unlink` are
`exists(path) and not remove(path)`. A content is a generation of keys, empty
(`Blank`, between `open(path, "w")` and the write) or the remains of two writes of
different length (`Torn`). `held` says whose open file is the one that still has the
name, for a removal leaves a writer with a file that has none. `wide` is the mode of the private key:
the umask decides it when the file is made, `chmod` narrows it. `load` assigns what
it read, or `False`, to the object; that of the certificate goes to
`_certificate_file` (`LoadCertificate`), and the object has `strayed`: later calls use
the text of the certificate as a path, under which nothing is found. `ssh-keygen` is
one step. `written`, `taken` and `failed` serve the properties: they say who else has
written or removed a file since a call began, and whether anything failed. An object
that `store_credentials=True` makes calls `store` first, which is a `Call` as any
other. `exists()` changes nothing.

### CommandOutput

The client's `pc` is the stream that `exec_command` reads, or the status between
the two. Data are bytes of three kinds (ASCII, the first and the second byte of a
longer character), because `decode_bytes_to_string` decodes every chunk for itself.
`size` is what the next read asks for: the code passes the size of the last chunk.
A read gives what has arrived, up to that size, and waits when nothing has; a
broken connection makes the client raise (`ssh2` turns negative codes into
exceptions), at once or after any part of what had arrived: `libssh2` may report the
transport's error while data are still queued. `get_exit_status` does not
wait. The server's steps are independent: a command may exit before its children
close the output, and close its output before it exits. The window of a channel is
not modelled: `libssh2` widens it while it waits for either stream, so a
command cannot be stuck on stdout while stderr is read. The branch for a positive
code of `execute` reads a name that is not bound; it is one of the exceptions of
`Raise`.

### SFTPStore

A step is one request of a store, as the server carries it out: opening a file,
reading or writing one block, `stat`, `mkdir`, `rmdir`. The methods are made of them:
`read` and `download` open, read to the end and close; `copy` opens both files
first; `write`, `upload`, `append` and `touch` open (which creates but never
truncates) and write at the offset of the handle or, for `append`, where the file
ends; `mkdir` asks `exists` and then makes, for every part if it is recursive;
`rmdir` goes up from the path. `answer` is the state before the last answer has
arrived. `Fail` ends a call anywhere: the server refuses, or the connection breaks,
and at `answer` that is after everything has been done. Files have an identity
(`File`) besides their names, so that a handle outlives a removal or a
renaming. The server is modelled after OpenSSH's: `rename` refuses a name that
exists, `rmdir` a directory with entries.

Properties are about a call that is about to return True and that is still `alone`:
no other store has done what would spoil that very promise. A deed is a pair of what
was done (`write`, `append`, `make`, `take`) and the file or the path it was done to;
`Disturbs` names the few deeds that a call cannot stand, all of them on its own file or
path. A write is not disturbed by an append to its file or by anything that happens
to another file. Renaming a directory takes and makes every path below both names. Local files
are not modelled, nor attributes (`setstat`). A recursive `rmdir` of an absolute path
goes on to the empty path and returns False after it has removed everything: the model
has it, and nothing in the repository says otherwise.

### SFTPFile

The user opens a file and keeps the handle: `n` is its offset, which the client
keeps, `start` where it was sought last and `got` what was read or written since.
`seek(o, 0)` and `seek(o, 1)` are local (`SeekTo`); `seek(o, 2)` asks the server for
the size (`Stat`) and then moves (`SeekEnd`). A read may bring less than was asked
for. The iterator yields reads for ever, so it is `ReadPiece` again and again. The
server appends to a file opened with `"a"` whatever the offset. The model leaves
out a write behind the end, which makes a hole. `tell` and `fstat` only ask,
`fsetstat` and `sync` change nothing that the model has.

## 3. Runs

| Run | Instance | Shows |
|---|---|---|
| `keyfile_faults` | 2 processes, 2 lines, 2 contents of which one is a substring of both lines; everything fails, `flock` included | mutual exclusion, no lost update, acknowledged adds and removals, refinement of `KeyRegistry` (in which a fault may lose lines), termination; an edit without the lock never reports a result |
| `keyfile_remove` | I/O fails | *violation*: a failed removal returns True |
| `knownhosts_prepare` | 2 processes, 2 hosts, one name a substring of the other; the lock file may fail to open | what is prepared is in the file and stays, duplicates are bounded, permissions |
| `knownhosts_faults` | 2 processes, 1 host; the lock file, I/O and processes fail, peers stay silent | every `prepare` and `cleanup` ends whose own peer answers |
| `knownhosts_mkdir` | 2 processes, plain and hashed line | *violation*: the loser of a race to make `~/.ssh` raises |
| `store_life` | one store and its client, 3 sockets, any sequence of calls | channels, `connect` and `disconnect` of the client; constructor, `disconnect` and `__del__` of the store |
| `sshclient_disconnect` | one client, 3 sockets, 3 sessions | *violation*: the socket survives a `disconnect` after a reset |
| `command_read` | four bytes on each stream, three at a time | responses are complete, decoding fails exactly where a chunk cut a character, a closed output is answered |
| `command_status` | two bytes on each stream | *violation*: a command that ended with 127 is reported with 0 |
| `store_tree` | 2 stores, 3 names, 3 files of up to 3 blocks | appends, reads, writes, copies, `mkdir`, `rmdir`; handles with seeks of -1 to 2 |
| `store_overwrite` | the same | *violation*: a write over a longer file leaves its end |
| `credentials_files` | 2 processes, 2 generations of keys; any step fails | the mode of the private key, and what `store` and `remove` return |

Bounds. Two processes are all that a race on one lock needs: the proofs cover any
number. `MaxCopies` bounds how many copies of a line the file has when another is asked
for, and `MaxMissed` how far missed lookups are counted, beyond which nothing is said of
duplicates; they are 4 and 2 in `knownhosts_prepare`, so that three copies (two processes
and one missed lookup) occur and a fourth could break the bound. `MaxMissed` is 0 or 1 in
the two runs that do not check duplicates. Line and
content sets are the smallest in which a removal hits a line that it was not
meant for. In `SSHClient` no counter is bounded: the client refers to at most two
sockets and two sessions at a time, so a third of each can always be made. In
`CommandOutput` three bytes of buffer and four of output give full, short and
shrinking chunks and a character that is cut at either end of one. In `SFTPStore`
`Workloads` says which methods are called together: two stores that read, write and
append one file; one that copies between two files while the other writes one
of them; two that make and remove directories and touch files in them; a handle on a
file to which another store appends; a user of a file, and one of a handle, beside a
store that renames and removes it, and beside one that writes to another file. All at
once exceed TLC's reach. Every store can also remove what is among its paths; to rename
takes two paths, which the copying, the directories and the renaming store have.
Two blocks a write are what makes two writers interleave; a path of two parts makes the
recursive methods loop; the seeks go before the start and behind the end of what there
is. In `Credentials` an object has contents to store or has none; neither names a
public key, whose file goes the same way as that of the private one, though
`ssh-keygen` still makes it. The proofs cover any number of processes and any fields.

Deadlock is checked in every run: there is always another call to make.

Fairness. `KeyFile`: weak fairness of a process's steps (a process that may run
does run), strong fairness of taking the lock. The latter is an assumption about
the kernel, whose flock queue wakes waiters in order; with weak fairness only, a
waiter could be overtaken for ever. No fairness is assumed of the start of calls,
of failures (they share a disjunct with the success, so that neither must happen)
or of crashes. `KnownHosts` assumes the same but for `Probe`, of which nothing is
assumed: `CallEnds` says that a `prepare` whose peer has answered ends, and every
`cleanup`, so that nobody waits for a process whose peer is silent.
`CommandOutput`: weak fairness of the
client's steps, and of `CloseOutput`: a command closes its output some time. Nothing
is assumed of its exit or its status. `SSHClient` has no liveness property: `ssh2`
in blocking mode may wait for ever for a silent peer. Nor has `SFTPStore`: a reader
never ends when others append faster than it reads. The calls of `Credentials` have no
loop and wait for nobody, so that they end if the process runs.

The five violations are findings, with the quoted lines, in `PROJECT.json`.

## 4. Proofs

`KeyFileProofs`, for any set of processes, lines and contents, and any bound:

- `TypeCorrect`: `TypeOK`, whatever fails.
- `Invariance`: until `flock()` itself has failed, the inductive invariant `IInv`.
  It has mutual exclusion in the form that is inductive (`Alone`: who is past
  `flock` owns the lock), and says for each label what the process at it knows:
  what it loaded is the file (`Loaded`), what it has written is the file
  (`Rewriting`), and what its result promises (`Acked`, `Gone`). The other
  conjuncts tie arguments to calls and an absent file to an empty one. Each
  property alone is not inductive: that a load is still current at the truncation
  needs that nobody else appended, that is `Alone`.
- `SpecMutualExclusion`, `SpecLoadedIsCurrent`, `SpecNothingOverwritten`,
  `SpecAckedAddIsThere`, `SpecRemovedIsGone`: the invariants of the runs.
- `Refinement`: every step is a step of `KeyRegistry` or a stutter. The truncation
  is the step that removes; an I/O error or a crash in a rewrite is `Lose`, a call
  that goes on without the lock, and whatever follows it, `Break`.
- `SpecUnlockedNeverReturns`: the action property, whatever fails, from the types.

`KnownHostsProofs`, for any finite set of processes, and any lines and hosts:

- `HostInvariance`: a step of `KnownHosts` does to the file what a step of `KeyFile`
  does, or touches it (`KeyStep`), so that the invariant of `KeyFileProofs` is kept
  by the lemmas of that module. What is new is that each stage holds a line
  (`LineFits`) and what it knows of the directory (`DirKept`).
- `SpecHostTypeOK`, `SpecNoOpenFileLeft`: types and permissions.
- `SpecPreparedIsKnown`: an authenticator that says that it is prepared has found or
  added a line of its host. The invariant ties the result of the add to the line that the
  process holds on the way (`LineKept`).
- `SpecSeenStays`: from the refinement of `KeyRegistry`, in which only a removal that
  mentions a line takes it away.
- `HostRefinement`: `prepare` and `cleanup` implement `KeyRegistry`, by the same step
  lemmas as `Refinement`: a lookup and a touch, which take no lock, are stutters.
- `HostEditsSafe`: all that `KeyFile` promises holds in `KnownHosts` too.
- `SpecBoundedDuplicates`: copies of a line alone are not inductive. `Bounded` counts
  the processes that are about to add it as well: the two together never exceed the
  number of processes and of missed lookups, because a process that finds none, and has
  not met a rewrite, starts from zero.

`SSHClientProofs`, for any sockets and sessions:

- `Invariance`: `IInv`, of which the heart is `OneConnection`: a session whose
  connection is up is on the very socket that the client holds. With what
  `connect` and `disconnect` have established on the way (`Connecting`,
  `Disconnecting`) it gives
- `SpecChannelHasSession`, `SpecConnectMeansUsable`, `SpecDisconnectClears`.

`CommandOutputProofs`, for any size of the buffer, any bound on the output, any statuses:

- `Invariance`: `IInv`, of which the heart is `ReadSoFar`: the response is what has been
  taken of the stream that is read, and a stream that was left without a failure was
  at its end. A result is returned long after stderr was read, so `ResponseComplete`
  alone is not inductive. `ChunkGoesOn` says that chunks are adjacent.
- `SpecResponseComplete`, `SpecFailsAtCut`, and `TypeCorrect`, which says that no
  read asks for 0 bytes.

`StoreLifeProofs`, for any sockets and sessions:

- `StoreInvariance`: the invariant of `SSHClientProofs` with what the store knows at
  each stage. Steps of the client keep the first by the lemmas of that module;
  what is new is that a connection which is up is always the held socket's
  (`OnlyHeldUp`), what a client has that only a constructor has used (`Fresh`), and
  what the calls of the store have established (`Established`).
- `StoreTypeCorrect`, `StoreChannelHasSession`, `StoreNothingLeftBehind`,
  `SpecStoreCloses`, `SpecNewStoreUsable`.

`CredentialsProofs`, for any processes, generations of keys and fields given:

- `Invariance`: `IInv`. `StoredIsThere` and `RemovedIsGone` are about the end of a
  call, so the invariant says for each file that a call is through with what holds of it
  (`Written`, `Removing`), and what the next step relies on (`Ready`, `Racing`). None
  of it is under a lock: it is kept because whoever changes a file marks the others
  (`OtherSteps`), and a marked process promises nothing.
- `SpecCredTypeOK`, `SpecKeyKeptPrivate`, `SpecStoredIsThere`, `SpecRemovedIsGone`,
  `SpecRemoveFalseMeansRace`: all the properties of the run.

`SFTPTreeProofs`, for any stores, paths, files and bounds:

- `FileTypeCorrect`: types, and that the remote tree is one (`WellFormed`: every entry is in a
  directory, no file has two names). Renaming a directory moves all that is below it at
  once, so that `EntryRenamed` rests on lemmas about prefixes of paths. What a call may
  rely on at each label, its handles and its place in the path or the file, is `Shape`.
- `StepEffect`: what a step of one store does, as the others see it. There are deeds that
  account for all of it (`Told`): whoever is disturbed by one of them is no longer `alone`
  (`Noted`). If a file that another store has open was not written to, no block of it is
  replaced, and if it was not appended to either, it stays as it is (`DataEffect`); a path
  that was not taken keeps what it is, one that was not made is not there anew
  (`NodeEffect`). It is said file by file and path by path, so that work on other files
  costs a call nothing.

`SFTPFileProofs`, for the same:

- `InvInvariant`: `IInv`, the shape and, for each call that is still alone, what it has
  done so far (`Undisturbed`). The properties speak of the last step of a call and are
  not inductive: that a copy is complete needs that each block was the next one of the
  source, that a recursive `rmdir` has removed all needs that no part behind the one at
  hand has come back. The proof has two halves. A step of the call itself advances its
  own clause. A step of another store either leaves what the clause rests on, by
  `StepEffect`, or takes `alone` away (`OthersUndisturbed`); this one lemma replaces a
  case for each pair of actions.
- `WritesAreThere`, `AppendsAreKept`, `ReadsArePrefixes`, `MkdirIsThere`, `RmdirIsGone`,
  `PiecesAreTiles`, `EndWritesKeep`: the invariants of `store_tree`. Appends need no lock
  because blocks only come at the end: `InOrder` has a witness, an increasing map of the
  blocks into the file, which an append of another store does not touch and one's own
  append extends.

TLC checked `IInv` of `SFTPFileProofs` on the instance of `store_tree` before it was proved.

The assumptions are those that the modules name: `None` is none of the objects,
`Mentions` and `HostLines` are functions to sets of lines, `Faults` is a set of kinds,
`Given` a set of pairs of fields; in `KnownHosts` there are finitely many processes, and
one at least. The paths of `SFTPStore` are not empty and closed under going up
(`PathAssumption`): `mkdir` and `rmdir` go through the parts of a path, so that each part is
a path that is used. Files are neither `Dir` nor `None`.

Only model-checked: `CallReturns`, `CallEnds` and `Answered`, which are liveness under
fairness and out of the prover's reach. Every invariant and every other action
property of the passing runs is a theorem. The five violations are counterexamples
and have no theorem. No module has a
`RECURSIVE` operator.

## 5. Not modelled

- ERDA stores, the commented-out async store, subprocess, yaml, hash and copy helpers:
  no state that steps could disagree about.
- `get_known_host` and `authenticate` are choices of outcome: which of its four ways
  `authenticate` takes depends on which fields are set.
- `setstat` and `fsetstat`: attributes, which no other method reads.
- The local file of `upload` and `download`; the hole that a write behind the end of a
  file makes.
- `SFTPStore.close()`, which calls a method that the SFTP object of `ssh2` does not
  have.
- The authenticator that two stores share: its `is_prepared` does not know for which
  host, but `connect` does not look at `known_hosts` either.
- Threads that share an object: nothing in the library protects them.
- The benchmarks, which use the library. `foam_labeling.py` names a function `async`
  and imports a module that is not in the repository, so that no present Python can
  run it.

## 6. Plan

Done, in this order: `KeyRegistry`, `KeyFile` and their proofs; `KnownHosts` and its
proofs;
`SSHClient` and its proofs; `CommandOutput` and its proofs; `SFTPStore`; `SFTPFile`;
`StoreLife` and its proofs; `Credentials` and its proofs; the proofs of `SFTPStore` and
`SFTPFile`; the refinement of `KeyRegistry` by `KnownHosts`.

Every passing run's safety property is proved. What could follow: an abstract file
server, on which a whole call of `SFTPStore` is one step as long as it is `alone`, and
the refinement; the same for `Credentials`.
