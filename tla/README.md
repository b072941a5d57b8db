# 1time.io: verification project

1time.io keeps one-time secrets. A client encrypts a text or a file, the Go
server (`src/backend`) stores the ciphertext under a random id, and a link with
the id and the read key gives a limited number of reads. These modules model the
server's three stores and the four kinds of client (web pages, browser
extension, command line), with the order of events that makes each of them hard:
concurrent requests, expiry, lost replies, crashes, repeated requests, and pages
whose users go on clicking while a request is in flight.

## 1. Inventory

| part | state it keeps | operations | hard behaviour | correct when |
|---|---|---|---|---|
| Text secret store (`storage.go`, `handlers.go`) | Redis `messageKey<id>`: ciphertext, key, scheme, views, expiry | `/api/saveSecret`, `/api/get`, `/api/secretStatus` | destructive reads with WATCH/MULTI/EXEC, lost replies, retry window, id collisions, expiry | each view is handed out once, an acknowledged link works until then, "gone" is final |
| File store | Redis `fileKey<id>`; a blob `<id>.enc` whose mtime is its deadline | `/api/saveFile`, `/api/getFile`, the janitor | record and blob are made and removed by separate steps, beside a sweep | as above; a download that took a view has the whole file; no blob stays for ever |
| Chunked upload | Redis `fileUpload:*` keys: record, slices received, hashes, finish lock; a partial blob | `/api/saveFile?u=&i=&n=` | duplicate and conflicting slices, stragglers after publication, an expiring lock, adoption of half a completion | the link exists once, for exactly the bytes sent, with the deadline asked for |
| Share form (`new-message.ts`, `show-link-ready.ts`, `util.js`) | form fields, the button, the state that replaced the form | submit, type, choose, "send another" | the handler awaits encryption, the save and styles while the user goes on | what the page says of a link is true of it |
| Read page (`view-secret.ts`) | phase of the page, one repetition, the kept copy of phones | open, reveal, passphrase, reopen | a destructive read is repeated; answers of proxies; several tabs over one kept copy | a click spends one view at most and never calls its own read "gone" |
| My Secrets (`mySecrets.ts`, `lib/mySecrets.js`) | the list in localStorage, rows, poller | poll, hide, show, forget | polls that overlap, fail, or answer for rows that were forgotten | a row never turns back from gone, a forgotten secret is never asked for |
| Upload page (`secure-file-share.ts`, `fileUpload.js`) | selection, slice index, attempts | encrypt, send slices, repeat, fall back to one request | a request that failed may have been executed, or will be | one upload becomes one file, and its link names all of it |
| Download page (`view-file.ts`, `fileApi.js`) | phase, one repetition, the decrypted program | download, decrypt, confirm, save | repetition of a destructive read, damaged answers | a click spends one view at most, and a click that spent it never ends in "already read" |
| Command line (`cli/lib.mjs`) | the process and the directory | send, read, send-file, read-file | lost and repeated requests, several processes in one directory, failing writes | exit code and output are true, no file is overwritten unasked |
| Extension (`background.js`, `offscreen.js`, `popup.js`) | last link, clipboard, offscreen document, settings, host permissions | share, copy, clear, save the server | every await lets other shares and the settings page run | a link names its own server, a made link is not lost, the toast is true |
| Link and key protocol (`protocol.mjs`) | none | derive, hash, encrypt, parse a link | one key, two purposes; links of other hosts | the right key opens, and only it |
| Usage counters (`stats.go`) | pending map, totals | `Record`, flush | merge back after a failed flush | every event counted once |
| Password generator (`password-generator.ts`) | mode, settings, value | generate, copy, share | a late word list | - |
| Dispatch, start-up, static pages, nginx, zap, scripts, docker | - | - | - | configuration and content |

The clients call the server over HTTP. The three stores share one Redis; file
store, chunked upload and janitor share one directory. A chunked upload ends by
creating the same `fileKey` record and blob as a single request. The text pages
of a browser profile meet in localStorage; the extension's contexts meet in
`chrome.storage`, the clipboard and the permissions. The dangers of each part are
listed, at their lines, as hazards in `PROJECT.json`.

## 2. Modules

### Server

`ReadTokens` holds what the stores share: which keys a save may bring, which one
is stored under which scheme, how a presented key is matched, and the clamping
of views and lifetime. A string is abstract: the token of a save, the SHA-256 of
a key, the empty string, or one of another shape.

`OneTimeSecret` is the promise: a secret made for n views hands out each view at
most once, in order, to one request; what a request took and lost stays lost.
`SecretStore` and `FileStore` are each shown to implement it.

`SecretStore` is the text store. Redis is `db`, a map from ids to records, and
the clock `now`. One action is one Redis command (WATCH, GET, PTTL, EXEC, SETNX,
EXISTS) with the code that follows it up to the next command; requests interleave
freely between them. `dirty` is the set of readers whose watched key another
client wrote, as Redis keeps it. `taken` and `delivered` are ghosts that record
what was committed and what was answered. A lost reply is the answer "error"
after the commit (`ReadFailed` in phase `committed`, `SaveFailed` in phase
`stored`); a command Redis runs after its client gave up is the same behaviour
with the answer moved after it. `ServerCrash` ends all that is in flight. Redis
keeps a key that is written with lifetime 0 for ever (`Expiry`), so a remainder of
0 that were written back would show in `TypeOK`: what is left of a stored lifetime
never exceeds `MaxDuration`.

`FileStore` adds the directory: `blob`, per id whose bytes are there, whether
they are complete, and the mtime. File operations (create, copy, Chtimes, open,
stream, unlink, the janitor's Info and Remove) are steps of their own. A
downloader's open descriptor `fd` keeps its bytes whatever happens to the path.
What a download was told is its `status`: "ok" of a stream that came to its end, or
"no message", "wrong key", "retry" and "error", and `took` counts the views it took.
With `IdsRepeat` a random id may be drawn while something of the old file is
still there; otherwise ids are fresh. A file is `Placed` from its Chtimes on, until
its last view is taken or its deadline is reached: the janitor removes at
mtime <= now.

`ChunkedUpload` is one upload id of the chunked protocol, with the requests of
any number of clients for it: each carries a slice index, contents and settings,
so duplicates, conflicts and retries are just requests. The keys of Redis, the
lock and the blobs are variables; a download of the finished file, the janitor
and the eviction of the upload record act beside them. `Faults` switches failing
commands, lost replies and crashes on, `Evictions` the loss of the record of an
upload that is not published. `Patience` bounds how long a request may take once
its body has arrived. Nothing in the code keeps that below the lock's TTL, so it is
a bound of each run, above the TTL in one of them; `HoldersKeepTheirLock` is the
condition that a finishing request still holds its lock. Slices are atomic writes; the chunk
size arithmetic and truncation are left out, and so are the other ways a request
can be malformed, which answer 400 and change nothing.

### Clients

A client module splits a handler at its awaits: what a page does between two of
them is atomic, as JavaScript runs it, and everything else may happen in between.
The server behind a client is its promise, not its implementation: a number of
views per secret that only goes down (`Profile`), or uploads whose slices may be
repeated and whose last slice publishes once (`FileService`). That is what the
server modules establish, so the composition is by assumption and guarantee, and
the client runs stay small.

| module | code | state and actions |
|---|---|---|
| `SecretKeys` | `protocol.mjs`, `util.js` | symbolic keys: what is derived alike is equal, and nothing else is. A payload opens under its own key when it is whole |
| `LinkProtocol` | `protocol.mjs` | hosts, origins, links that are accepted, the origin a link names |
| `Profile` | `lib/mySecrets.js`, localStorage | the service, the list with its limit and expiry, the kept copies, the clock |
| `ShareForm` | `new-message.ts`, `show-link-ready.ts`, `util.js` | `Submit`, `Store`, `SaveAnswered`, `ShowLink` are the stretches between the handler's awaits; `Type` and `Choose` go on meanwhile, so several submissions run at once; `Record` is the background import that writes the list |
| `ReadPage` | `view-secret.ts` | per tab: `Reveal`, the answer, one repetition (`Pause`, `Resend`), the passphrase, which may be edited while a read is out (`used` is the one it went out with, `typed` the one that decides about the copy), and the kept copy (`OpenKept`) of phones |
| `MySecretsPage` | `mySecrets.ts` | rows, polls in flight, the timer, `Hide` and `Show`, `Forget` |
| `Browser` | - | the three pages over one profile |
| `FileService` | used by `fileUpload.js`, `fileApi.js`, `cli/lib.mjs` | the server for files; `chunked` is FALSE for a server that knows no slices yet |
| `UploadPage` | `secure-file-share.ts`, `fileUpload.js` | the loop over slices with its attempts; `late` holds requests that were given up and may still be executed |
| `DownloadPage` | `view-file.ts`, `fileApi.js` | the download with its one repetition, decryption, the confirmation for programs |
| `FileExchange` | - | both pages over one file service |
| `CommandLine` | `cli/lib.mjs` | a process runs an invocation: checks, stdin (`resolveSecret`), requests, the exit code, what is printed, the file that is written under a free name; `late` as in `UploadPage` |
| `Extension` | `background.js`, `offscreen.js`, `popup.js`, `settings.mjs` | shares step by step, pages with the last link and the settings, permissions; a toast is what a share sends to its tab, and a page that refuses scripts shows none of it |

The `MC` modules give the constants their values; `SecretStoreInv` has the
inductive invariant of the text store; the `Proofs` modules have the proofs, and the
inductive invariants of the other modules. Definitions whose comment begins with
"Mutant:" are deliberate mistakes, each of which breaks a property of a run.

## 3. Runs

| run | instance | shows |
|---|---|---|
| `secret_reads` | 1 save, 2 readers, 1 id, up to 2 views, views and lifetimes requested below and above the range, clock to 2, fairness | types, lifetimes, conservation of views, each view answered once, what the answers say, every read ends, `OneTimeSecret` is implemented |
| `secret_ids` | 2 saves, 1 reader, the only id, a status poll, clock to 2 | reuse of ids, tokens, links that stay readable, finality of "gone" |
| `file_reads` | 1 save of 2 views, 2 readers, clock to 1 | conservation, whole downloads, a file keeps its blob and its record from Chtimes on (but for the sweep of section 4), what the answers say, `OneTimeSecret` is implemented |
| `file_live` | 1 save, 1 reader, clock to 2, fairness | every blob past its deadline is reclaimed |
| `chunk_faults` | 2 requests, 1 slice, 2 contents, 2 settings, 2 store keys, clock to 3, faults, evictions, `Patience` = `LockTTL` | a link is whole, counted once, never comes back and is never undone |
| `chunk_slices` | 3 requests, 2 slices, 2 store keys, evictions, no faults, `Patience` = `LockTTL` | restarted uploads do not mix their slices; a link keeps its deadline whatever late writers do |
| `chunk_stalled` | 2 requests, `Patience` > `LockTTL`, no faults | finding: the lock expires under its holder |
| `browser_reads` | 1 secret, 2 read tabs, 2 settings with the default one, a phone, clock to 1 | what the link-ready state says; one view per click; a message shown once more at most |
| `browser_lists` | 2 secrets, a list of 1 entry, the list page, fairness of polls and timer | types and the list's limit; gone stays gone; forgotten is not asked; rows catch up |
| `file_exchange` | 1 upload of 3 slices, 3 attempts, 1 download tab, both kinds of server, fairness | a link names the whole file; one file per upload; one view per download; every transfer ends |
| `cli` | 2 processes, 16 invocations, 2 hosts, 2 links made elsewhere, 2 slices, 2 attempts, 3 names of which 1 is taken, fairness | exit codes and output; settings the server takes as they are; files are kept; commands end |
| `extension` | 2 shares, 1 page, 2 hosts, fairness of shares | links name their servers; toasts are true; the host stays granted; shares end |

Bounds. Two readers are enough to spoil each other's transaction in each phase;
two saves on one id for a collision and a reuse; two views let a record be
decremented and then deleted; requested views and lifetimes lie below
and above the accepted range in `secret_reads` and in it in `secret_ids` and
`file_reads`. `MaxTime` lets a record expire in each phase of a read, the retry
window (1) close and a sweep find a blob due. For uploads, three requests let one
publish, one write late and one claim afresh or finish a second time; two slices
separate the request that completes a file from one that does not; two store keys
allow a lost race or a restart; two contents and settings make the two requests
of `chunk_faults` duplicates or rivals. There the clock outlives the upload record
(`UploadTTL` 2, clock to 3). `chunk_slices` has a `Lifetime` far above the
`UploadTTL`, so that a shortened deadline shows.

For the clients: two submissions fill a list of one entry, so that entries make
room, and make two saves overlap; two tabs meet at one kept copy and at the last
view; one tick lets a kept copy or an entry expire. The form's text is typed while
some secret is still unsent and its selects move while a save is in flight too; what
is typed after the last submission reaches nothing. `MaxOpen` bounds the pages that
are open at a time, the list counting for two, since the list and a read page meet
in the service only, where `SpentElsewhere` does what a tab would do. Three slices
have a first, a middle and a last one; `MaxFiles` 5 is never reached by what one
upload and its late requests can store on a server that knows slices, and bounds
what one that does not may be made to store. Two processes pick names against each
other. Two shares meet at the offscreen document, the last link and the clipboard;
a third adds no new pair.

Clients of a store, store keys, contents, slices and tabs are interchangeable,
hence the symmetry sets; the liveness runs use none. `CHECK_DEADLOCK FALSE` is set
because a model stops when every request has been made, the clock is at its bound
and nobody asks.

Assumptions of the passing upload runs: a request takes no longer than the TTL of
the finish lock, which the code does not ensure (the lock lives 30 s and each Redis
command may take 10 s; `chunk_stalled` shows what happens otherwise), and only the record
of an upload in progress is evicted (the shipped Redis configuration evicts
nothing). With `IdsRepeat` the blob properties of `FileStore` do not hold, since
a name that was given away again can be unlinked by the last reader of its first
owner; that needs a collision of 128-bit ids, so those properties are checked
with fresh ids.

Fairness. `SecretStore` assumes weak fairness of what the server does for a
request in flight: goroutines are scheduled and Redis answers or the 10 s timeout
ends the command. `FileStore` assumes that time passes (weak) and that sweeps get
to each of their steps (strong, per blob): the janitor's ticker fires for ever, and
a sweep that a crash, a disk error or a concurrent removal cut short does not fail
at the same blob every time. That is what "a later sweep gets to the rest" rests on;
the run has one blob, which any number of sweeps may fail to look at or to remove. The client runs assume weak fairness of a page's, a share's
or a process's own next step: an event loop runs what is ready, and a request is
answered or fails, since the browser, Node or the proxy in front of the server
ends a connection that stays silent. Fairness is of the step, not of its outcome:
every request may fail. The list's timer fires (weak) while the page runs it. No
user is obliged to ask and nothing is obliged to fail. A stdin that is piped into
`send` ends or fails. The extension's worker is
not stopped by the browser while a share is in flight.

## 4. Findings and observations

`chunk_stalled` is a finding of its own: the finish lock has no owner and expires
after 30 s, less than a few slow Redis commands may take. A holder that wakes up
later creates the record of a consumed file again.

The following executions are in the models too; no property claims that they
cannot happen, and those that pass are stated so as to say what does hold.

Server:
* A duplicate slice racing completion moves the mtime of the live file to within
  the hour (`handlers.go:623`); restoring it is a separate step that may fail, and
  no resend repeats it. `LiveFileKeepsExpiry` holds without such a fault.
* Between create or write and Chtimes the mtime is "now" (`handlers.go:668`), which
  a sweep takes for due. If it removes the blob at once, Chtimes fails and so does
  the upload. But it judges and removes in two steps: it may Stat (`storage.go:558`)
  before Chtimes and Remove (`storage.go:567`) after SETNX, and then the link that
  was answered has no blob. The next download deletes its record and answers "no
  message". `LinkKeepsItsFile` exempts exactly this sweep, and the model reaches it.
* PTTL is read before the transaction and written back by SET later, so each
  multi-view read moves the deadline later by the time in between, while
  `storage.go:589` says "preserving the TTL"; `AcknowledgedStaysReadable` and
  `LifetimeKept` state the direction that holds, never earlier.
* Between the final EXEC and the unlink a crash or an error leaves the ciphertext
  on disk until its mtime and a sweep, while `view-file.ts:190` says that it has
  been deleted; `BlobsReclaimed` states what holds.

Web pages:
* "Try again" on the download page (`f/index.astro:147`) is a new click. If the first
  one spent the last view and its answer was lost, the second is told "no message"
  and the page says that the file is gone (`view-file.ts:170`), although nobody but
  this page has read it. `OneViewPerDownload` is about each click by itself. So is
  `OneViewPerClick`: a read page whose answer was lost says the same when it is
  asked again (`view-secret.ts:226`).
* The passphrase field stays open while a read is out, and whether a copy is kept is
  decided by what it holds after the awaits (`view-secret.ts:204`): a passphrase
  cleared meanwhile makes a phone keep a copy that the key alone does not open, one
  typed meanwhile keeps none.
* Typing enables the button of a form whose save is in flight (`new-message.ts:47`).
  Of two saves, the second to complete finds the form replaced, and its link is
  never displayed; the list of sent secrets has its id, not its key.
* The label of the lifetime is read from the select after the await
  (`new-message.ts:88`): it names what the select shows by then. The number of
  views was read before it, and `UsesShownAreTrue` covers that one.
* The list of sent secrets is looked at when an answer arrives
  (`view-secret.ts:207`), while recording may be under way in the form's tab: a
  sender's own test read may keep a copy of the message.
* A list page opened in a hidden tab starts its timer (`mySecrets.ts:236`), which
  only a visibilitychange stops, while `mySecrets.ts:30` says that it is paused
  while the tab is hidden.
* Entries are loaded once: one that expires while the page is open is asked for
  and called consumed.
* A program waits in memory for a confirmation after its last view was spent
  (`view-file.ts:194`); the page may be left without a warning by then.

Extension and command line:
* If `chrome.storage.session.set` fails (`background.js:149`), the share ends in an
  error with its secret stored and its link lost; `ToastIsTrue` is about links that
  the storage took. On a page that refuses scripts no toast is seen at all
  (`background.js:158`): `SharesEnd` is about the attempt.
* With the popup and the settings tab open at once, one save may drop the grant of
  the host the other has just written (`popup.js:97`). `HostIsGranted` is checked
  and proved for one page.
* "Clear" removes the last link there is, which may be newer than the one the page
  shows (`popup.js:68`).
* `read-file --out` looks for the file before the download and writes after it
  (`lib.mjs:358`): a file that appears in between is overwritten. `FilesAreKept` is
  about the names the client picks.

## 5. Proofs

A property that TLC checks on a few processes is proved here for any number of
them. Each proof module first strengthens the properties to an invariant that is
inductive, has one lemma per action for it, and derives the theorems in a few lines.

| module | inductive invariant | theorems |
|---|---|---|
| `SecretStoreProofs` | `IInv` (in `SecretStoreInv`), `TookOnce`, `PollSound` | every safety property of `SecretStore`, and that it implements `OneTimeSecret` |
| `OneTimeSecretProofs` | of the promise itself | `PromiseKept` |
| `FileStoreProofs` | `FileInv`, `LinkInv` | every safety property of `FileStore`, and that it implements `OneTimeSecret` |
| `ChunkedUploadProofs` | `ChunkInv`, `ExpiryInv` | every safety property of `ChunkedUpload` |
| `BrowserProofs` | `ReadInv`, `ListInv` | every safety property of `Browser` |
| `FileExchangeProofs` | `ExchangeInv` | every safety property of `FileExchange` |
| `CommandLineProofs` | `CommandInv` | every safety property of `CommandLine` |
| `ExtensionProofs` | `LinkInv`, `GrantInv` | every safety property of `Extension` |

**Text store.** `ViewsConserved` alone is not inductive: a commit writes back the
record the reader saw, so one needs that an undisturbed reader's snapshot is the
stored record (`SnapshotSound`), what the read established in each phase
(`ReadPhases`), how far the save came (`SavePhases`), and, for the lifetime, that
no reader writes back less time than was left (`LifetimeKept`). `KeysMatch` ties
each stored key to its scheme. `Commit` is shared by the two EXEC steps.
`AnswersAreTrue` adds when a request has taken a view (`TookOnce`), `GoneIsForGood`
what a poll that is out may still learn (`PollSound`). The refinement maps the id a
save was given and the views committed to the promise's state: a commit is the
promise's take, an answer its delivery, a failure after the commit its loss, an
expiry its end, and every other step stutters.

**Promise.** `PromiseKept` needs no run: what is held or was answered is never below
what is left to take, and a secret not yet created has no view anywhere.

**File store.** The proof has two layers. `FileInv` (types, phases, snapshots,
conservation, who streams which view) holds even if store keys repeat, and suffices
for `FileViewsConserved` and the refinement. What concerns blobs needs more, and
needs keys that do not repeat (`IdsRepeat = FALSE`, a hypothesis of these theorems;
128 random bits in the code; without it the properties are false, as section 3 says): a
blob belongs to the upload of its name and is whole before a record can follow
(`BlobsOwned`), an open descriptor is the file of the record about to be committed
(`OpenedSound`), a sweep judges by an mtime that had passed (`SweepSound`), and the
record outlives the deadline its blob was given (`LifetimeKept`). `LinksKeepTheirFile`
names its exception, the sweep that looked before Chtimes; `FileAnswersAreTrue` needs
no fresh keys.

**Chunked upload.** `LinkIsWhole` speaks of a blob that requests of several generations
of one upload id write to, so `ChunkInv` has two halves. Before the publication a
request that claimed its slice sends what the index is pinned to, a slice counted
under a store key is in its blob as pinned, and its pin outlives its count
(`BeforePublication`, `StoreGood`): so the request that finds the count complete
publishes what the blob holds. After it every request that had found the upload ends
before the record of the publication is forgotten (`AfterPublication`: its body
arrived `UploadTTL` or more before that record's deadline), and one that may still
write writes what was published; the rest is turned away by the check after the claim.
Only one request finishes at a time (`OneFinisher`), because its lock outlasts it;
hence one count per publication, and nobody left who could delete or revive the
record of a published file. That the lock outlasts its holder is a condition the code
does not ensure, and `chunk_stalled` shows `LinkNeverComesBack` false without it: so
every theorem of this module has it in its statement (`[]HoldersKeepTheirLock`), and
`LocksOutlastRequests` says when it is met, namely if a request takes no longer than
the lock lives (`Patience <= LockTTL`). Failures, lost replies, crashes and evictions
are not excluded.

`LiveFileKeepsExpiry` is the exception: a `restoreFileExpiry` that fails leaves the
blob due too early (section 4), so its theorem assumes that nothing fails
(`~ Faults`). Its layer `ExpiryInv` says how far the file under a key came once it has
a record (`Begun`, `Named`, `Settled`), what each request between a write and the end
of its restoration knows (`Timed`: it arrived before the mtime that is set now, or that
mtime is the record's, and the deadline it is about to write back is not before the
record's), and that nobody but its creator has heard of a new blob (`Fresh`). So the
last writer to leave leaves the record's deadline behind, in whatever order they write,
read the record and restore. The difference of `Patience` is the code's: it reads the
time before it sets the record.

**Browser.** `ShownOnceMoreAtMost` counts displays over several tabs, the service
and the kept copy. `Budget` is the account that makes it inductive: displays so far,
answers not yet displayed, views left at the service and the right to one repetition
together never exceed the views granted and one. `OneCopy` says that this right
exists once, as a kept copy or in the hands of one tab, and not before the last view
is gone. `ListInv` needs in addition that what is listed or shown in a row was recorded
after its save and is not forgotten (`ListHonest`), that the one poll that is out asks
for every row and is right about the secrets it calls gone (`PollHonest`), and that a
row said to be gone has no view left (`RowHonest`). The list is cut by `EntriesAt`,
`Array.filter` as a set of places: what it keeps, in which order and how many, are the
lemmas `RankHits` and `EntriesKept`. (`SelectSeq` of the standard modules is defined
by recursion, which hides it from the prover.)

**Files from page to page.** `LinkNamesTheWholeFile` depends on slices that were sent
in order to a service that publishes once. `ExchangeInv` says of each upload, and of
each request that was given up and may still be executed, that all slices before it
are stored (`InOrder`), and of the service that it has one file per published upload
(`PublishedInv`).

**Command line.** `CommandInv` ties each step of a process to what the service has of
its upload (`SenderHonest`), each request given up to the same (`LateHonest`), to its link and its file name (`ReaderHonest`) and, once it
ended, to its exit code (`EndHonest`); another process may write its file over only if
it was told to, and then it ended well or left it in part, which is what
`OverwrittenByOut` says. Two findings about the model came of this proof: the help
command had kept an arbitrary invocation, and `OverwrittenByOut` had counted processes
that failed; both definitions say now what the program does. The invariant is checked
by TLC as well.

**Extension.** `LinkNamesItsServer` is not inductive: a link may be held by the
storage, the clipboard or a page that was opened long ago, and any of them may be
copied to another. `LinkInv` adds the pages' links, and that a link in anyone's hands
belongs to a share past its save, whose `server` never changes again; `Sound` ties a
share's step to what it has done. For `HostIsGranted`, `GrantInv` adds that a save
grants before it writes and drops a grant other than the host's; that theorem assumes
`OnePage`.

Assumptions. Those named in the modules, on the constants: limits are numbers, in
particular `MaxViews >= 10` and no more links given than `MaxFiles` in `CommandLine`
(the first is the service's limit, the second makes room in its type); the form is not
a secret (`FormAssumption`); the tabs are finitely many (`BrowserAssumption`, `Budget`
counts them); "none", "own" and "part" are no uploads. Besides these, `IdsRepeat = FALSE`,
`OnePage`, `[]HoldersKeepTheirLock` and `~ Faults` where the theorem says so.

Only model-checked: the liveness properties (`ReadsAnswered`, `BlobsReclaimed`,
`RowsCatchUp`, `TransfersEnd`, `CommandsEnd`, `SharesEnd`), which are out of the
prover's reach.

## 6. Plan

1. `UploadPage` over `ChunkedUpload` itself instead of `FileService`, which today
   rests on the argument of section 2.
2. The usage counters, composed with the saves that count.

## 7. Not modelled

* Usage counters (`stats.go`): a display of totals that no other part reads. A
  flush whose reply is lost is merged back and counted twice (`stats.go:186`), and
  the totals are loaded at start-up by two commands while an old process may still
  count (`stats.go:152`).
* The password generator: one page without service or storage. A passphrase that
  waits for its word list replaces the password shown when the user has switched
  back meanwhile (`password-generator.ts:168`); the copied tick is cleared before
  that wait and after a copy may be set again by one in flight.
* HTTP dispatch, start-up, rate and body limits of nginx, logging: configuration.
* The Zapier action: one request without a repetition; what it sends and builds is
  what `SecretKeys` and `LinkProtocol` say.
* Redis losing writes it acknowledged (a crash between snapshots can bring a
  consumed record back; outside what this code can prevent).
* Cryptography beyond the symbolic `SecretKeys`, base64, compression, file names,
  QR codes, progress bars, static pages, blog posts, statistics pages.
* The browser stopping the extension's worker in the middle of a share.
