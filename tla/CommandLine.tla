----------------------------- MODULE CommandLine -----------------------------
(***************************************************************************)
(* Invocations of the command-line client (cli/lib.mjs) against the        *)
(* services at some hosts, in one directory.  A process runs one command:  *)
(* it checks what was typed, makes its requests, and leaves an exit code,  *)
(* a line on stdout and, for read-file, a file.                            *)
(***************************************************************************)
EXTENDS FileService, LinkProtocol, Integers

CONSTANTS
    Processes,
    Invocations,    \* what may be typed, links aside
    Given,          \* what was sent before, in the order it was stored
    MaxAttempts,    \* chunkRetryDelaysMs and the first attempt
    MaxNames,       \* the file names read-file tries: 1000
    Taken           \* those that the user's own files have

(* The service's limits, in views and in seconds.                          *)
Hour == 3600
Day == 24 * Hour
Server == INSTANCE ReadTokens WITH
    Saves <- Uploads, MaxViews <- 10, MaxDuration <- 30 * Day, DefaultDuration <- Day

(* In the place of a number: the option was not typed, or is none.         *)
NotTyped == -1
Malformed == -2
Typed == Nat \cup {NotTyped, Malformed}

Paths == 0 .. MaxNames - 1
NoPath == MaxNames

Invocation ==
    [verb : {"help", "misuse", "send", "read", "send-file", "read-file"},
     host : HostTexts, form : {"url", "path", "fragment"},
     days : Typed, hours : Typed, views : Typed,
     secret : SUBSET {"stdin", "env", "argv"}, passphrase : SUBSET {"env", "argv"},
     out : Paths \cup {NoPath}]

ASSUME CommandLineAssumption ==
    /\ MaxAttempts \in Nat \ {0}
    /\ MaxNames \in Nat \ {0}
    /\ Taken \subseteq Paths
    /\ Invocations \subseteq Invocation /\ Invocations # {}
    /\ Given \in Seq([upload : Uploads \ Processes, text : BOOLEAN, host : Hosts,
                      left : 1 .. MaxViews, locked : BOOLEAN])
    /\ Len(Given) <= MaxFiles
    /\ Processes \subseteq Uploads
    /\ {"none", "own", "part"} \cap Uploads = {}
    /\ MaxViews >= 10

VARIABLES
    proc,       \* each process
    disk,       \* the directory: what is stored under each name
    late        \* requests given up that the service may execute yet

vars == <<serviceVars, proc, disk, late>>

Senders == {"send", "send-file"}
Readers == {"read", "read-file"}

(* parseExpiresIn: days and hours, one of them at least.                   *)
expiresIn(inv) ==
    IF inv.days = NotTyped /\ inv.hours = NotTyped THEN Day
    ELSE (IF inv.days = NotTyped THEN 0 ELSE inv.days * Day)
       + (IF inv.hours = NotTyped THEN 0 ELSE inv.hours * Hour)

(* Mutant: the limit is left out.                                          *)
ExpiresPositive(inv) ==
    /\ Malformed \notin {inv.days, inv.hours}
    /\ expiresIn(inv) > 0

ExpiresAccepted(inv) ==
    /\ Malformed \notin {inv.days, inv.hours}
    /\ expiresIn(inv) > 0
    /\ expiresIn(inv) <= 30 * Day

(* parseViews.                                                             *)
viewsOf(inv) == IF inv.views = NotTyped THEN 1 ELSE inv.views

ViewsAccepted(inv) == viewsOf(inv) \in 1 .. 10

(* resolveOptionalPassphrase: from the environment or the command line.    *)
PassphraseGiven(inv) == inv.passphrase # {}

(* What the three sources of a secret have: all of them may have nothing.  *)
SecretGiven(inv) == inv.secret # {}

(* The links there are: what was sent before, and what was printed.        *)
Printed(p) == proc[p].printed = "link"
Links == (1 .. Len(Given)) \cup {proc[p].id : p \in {q \in Processes : Printed(q)}}

OfGiven(u) == CHOOSE i \in 1 .. Len(Given) : Given[i].upload = u

OriginOfUpload(u) ==
    IF u \in Processes THEN normalizeOrigin(proc[u].inv.host)
    ELSE [scheme |-> "https", host |-> Given[OfGiven(u)].host]

IsText(u) == IF u \in Processes THEN proc[u].inv.verb = "send" ELSE Given[OfGiven(u)].text

(* A link as it is typed: the URL, or the part of it after the host.       *)
LinkTyped(inv, f) ==
    [buildSecretLink(IF f = Cut THEN Unnamed ELSE OriginOfUpload(files[f].upload), f)
        EXCEPT !.form = inv.form]

Accepted(inv, f) ==
    /\ inv.verb # "misuse"
    /\ inv.verb \in Senders => ExpiresAccepted(inv) /\ ViewsAccepted(inv)
    /\ inv.verb = "send-file" => OriginAccepted(inv.host)
    /\ inv.verb \in Readers => LinkAccepted(LinkTyped(inv, f), inv.host)

NotRun ==
    [inv |-> CHOOSE inv \in Invocations : TRUE, step |-> "new", link |-> Cut,
     asked |-> normalizeOrigin(Unnamed), index |-> 0, whole |-> FALSE, attempt |-> 0,
     net |-> "idle", id |-> 0, name |-> 0, code |-> 0, printed |-> "nothing"]

Processing ==
    [inv : Invocations, step : {"new", "listening", "reading", "checking", "sending", "waiting",
                                "asking", "writing", "exited"},
     link : 0 .. MaxFiles, asked : Origins, index : 0 .. Slices - 1, whole : BOOLEAN,
     attempt : 0 .. MaxAttempts - 1, net : {"idle", "out", "ok", "failed", "refused"},
     id : 0 .. MaxFiles, name : Paths \cup {NoPath}, code : 0 .. 1,
     printed : {"nothing", "help", "link", "secret", "path"}]

GivenUp == [request : Request, views : 1 .. MaxViews]

TypeOK ==
    /\ ServiceTypeOK
    /\ proc \in [Processes -> Processing]
    /\ disk \in [Paths -> {"none", "own", "part"} \cup Uploads]
    /\ late \subseteq GivenUp

Init ==
    /\ chunked \in BOOLEAN
    /\ received = [u \in Uploads |-> {}]
    /\ published = [u \in Uploads |-> 0]
    /\ files = [i \in 1 .. Len(Given) |->
                   [upload |-> Given[i].upload, whole |-> TRUE, left |-> Given[i].left]]
    /\ locked = {Given[i].upload : i \in {j \in 1 .. Len(Given) : Given[j].locked}}
    /\ proc = [p \in Processes |-> NotRun]
    /\ disk = [x \in Paths |-> IF x \in Taken THEN "own" ELSE "none"]
    /\ late = {}

Becomes(p, r) == proc' = [proc EXCEPT ![p] = r]

(* A process that exits leaves its exit code and what it printed; of a     *)
(* command that failed nothing else matters any more.                      *)
Exits(r, code, printed) ==
    [(IF code = 1 THEN NotRun
      ELSE [r EXCEPT !.net = "idle", !.index = 0, !.attempt = 0, !.whole = FALSE])
        EXCEPT !.step = "exited", !.code = code, !.printed = printed]

Exit(p, code, printed) == Becomes(p, Exits(proc[p], code, printed))

FirstStep(r) ==
    CASE r.inv.verb = "send-file" -> [r EXCEPT !.step = "reading"]
      [] r.inv.verb = "read-file" /\ r.inv.out # NoPath -> [r EXCEPT !.step = "checking"]
      [] OTHER -> [r EXCEPT !.step = "asking", !.net = "out"]

(* run: what was typed is checked before anything is sent; send checks the *)
(* host when it has its secret.                                            *)
Run(p, inv, f) ==
    /\ proc[p].step = "new"
    /\ inv.verb \notin Readers => f = Cut
    /\ LET r == [NotRun EXCEPT !.inv = inv, !.link = f]
       IN Becomes(p, IF inv.verb = "help" THEN Exits(r, 0, "help")
                     ELSE IF ~ Accepted(inv, f) THEN Exits(r, 1, "nothing")
                     ELSE IF inv.verb = "send" THEN [r EXCEPT !.step = "listening"]
                     ELSE FirstStep([r EXCEPT !.asked =
                              IF inv.verb = "send-file" THEN normalizeOrigin(inv.host)
                              ELSE OriginOf(LinkTyped(inv, f), inv.host)]))
    /\ locked' = IF inv.verb = "send-file" /\ PassphraseGiven(inv) THEN locked \cup {p} ELSE locked
    /\ UNCHANGED <<disk, late, chunked, received, published, files>>

(* send reads a piped stdin to its end, whatever the other sources have:   *)
(* there is no secret, or the input fails, or its first request goes out.  *)
resolveSecret(p) ==
    /\ proc[p].step = "listening"
    /\ \/ /\ SecretGiven(proc[p].inv) /\ OriginAccepted(proc[p].inv.host)
          /\ Becomes(p, [proc[p] EXCEPT !.step = "sending", !.net = "out", !.whole = TRUE,
                                        !.asked = normalizeOrigin(proc[p].inv.host)])
       \/ Exit(p, 1, "nothing")
    /\ UNCHANGED <<disk, late, serviceVars>>

(* createFileLink reads and encrypts the file.                             *)
ReadSource(p) ==
    /\ proc[p].step = "reading"
    /\ \/ Becomes(p, [proc[p] EXCEPT !.step = "sending", !.net = "out"])
       \/ Exit(p, 1, "nothing")
    /\ UNCHANGED <<disk, late, serviceVars>>

RequestOf(p) == [upload |-> p, index |-> proc[p].index, whole |-> proc[p].whole]

(* The service executes a request to save; its answer arrives or not.      *)
Saved(p) ==
    /\ proc[p].step = "sending" /\ proc[p].net = "out"
    /\ Len(files) < MaxFiles
    /\ Serve(RequestOf(p), Server!ClampViews(viewsOf(proc[p].inv)))
    /\ \/ Becomes(p, [proc[p] EXCEPT !.net = "ok", !.id = AnswerId(RequestOf(p))])
       \/ Becomes(p, [proc[p] EXCEPT !.net = "failed"])
       \/ Becomes(p, [proc[p] EXCEPT !.net = "refused"])
    /\ UNCHANGED <<disk, late, chunked, locked>>

(* A request that is not executed so far: refused, or lost, or answered    *)
(* with a status that may pass.  What is lost may be executed yet.         *)
NotSaved(p) ==
    /\ proc[p].step = "sending" /\ proc[p].net = "out"
    /\ LET q == [request |-> RequestOf(p), views |-> Server!ClampViews(viewsOf(proc[p].inv))]
       IN \/ Becomes(p, [proc[p] EXCEPT !.net = "refused"]) /\ late' = late
          \/ Becomes(p, [proc[p] EXCEPT !.net = "failed"]) /\ late' \in {late, late \cup {q}}
    /\ UNCHANGED <<disk, serviceVars>>

LateRequest(q) ==
    /\ q \in late
    /\ Len(files) < MaxFiles
    /\ late' = late \ {q}
    /\ Serve(q.request, q.views)
    /\ UNCHANGED <<proc, disk, chunked, locked>>

(* Only slices are sent again.                                             *)
MayRetry(p) == proc[p].inv.verb = "send-file" /\ proc[p].attempt < MaxAttempts - 1

(* Mutant: the attempts are not counted.                                   *)
WaitUncounted(p) ==
    /\ proc[p].step = "sending" /\ proc[p].net = "failed" /\ MayRetry(p)
    /\ Becomes(p, [proc[p] EXCEPT !.step = "waiting", !.net = "idle"])
    /\ UNCHANGED <<disk, late, serviceVars>>

Wait(p) ==
    /\ proc[p].step = "sending" /\ proc[p].net = "failed" /\ MayRetry(p)
    /\ Becomes(p, [proc[p] EXCEPT !.step = "waiting", !.net = "idle", !.attempt = @ + 1])
    /\ UNCHANGED <<disk, late, serviceVars>>

SendAgain(p) ==
    /\ proc[p].step = "waiting"
    /\ Becomes(p, [proc[p] EXCEPT !.step = "sending", !.net = "out"])
    /\ UNCHANGED <<disk, late, serviceVars>>

SendFails(p) ==
    /\ proc[p].step = "sending"
    /\ proc[p].net = "refused" \/ (proc[p].net = "failed" /\ ~ MayRetry(p))
    /\ Exit(p, 1, "nothing")
    /\ UNCHANGED <<disk, late, serviceVars>>

Early(p) == proc[p].index < Slices - 1 /\ ~ proc[p].whole

NextSlice(p) ==
    /\ proc[p].step = "sending" /\ proc[p].net = "ok" /\ Early(p)
    /\ Becomes(p, IF proc[p].id # 0
                  THEN [proc[p] EXCEPT !.net = "out", !.whole = TRUE, !.attempt = 0, !.id = 0]
                  ELSE [proc[p] EXCEPT !.net = "out", !.index = @ + 1, !.attempt = 0])
    /\ UNCHANGED <<disk, late, serviceVars>>

(* Mutant: the link is printed as soon as there is an id.                  *)
PrintLinkEarly(p) ==
    /\ proc[p].step = "sending" /\ proc[p].net = "ok"
    /\ ~ Early(p) \/ proc[p].id # 0
    /\ Exit(p, 0, "link")
    /\ UNCHANGED <<disk, late, serviceVars>>

PrintLink(p) ==
    /\ proc[p].step = "sending" /\ proc[p].net = "ok" /\ ~ Early(p)
    /\ Exit(p, 0, "link")
    /\ UNCHANGED <<disk, late, serviceVars>>

(* The look at the --out path, before a view is spent.                     *)
StatOut(p) ==
    /\ proc[p].step = "checking"
    /\ IF disk[proc[p].inv.out] = "none"
       THEN Becomes(p, [proc[p] EXCEPT !.step = "asking", !.net = "out"])
       ELSE Exit(p, 1, "nothing")
    /\ UNCHANGED <<disk, late, serviceVars>>

(* The service at the origin asked has something of the kind asked for, to *)
(* be read with this passphrase.                                           *)
Found(p) ==
    LET f == proc[p].link
        u == files[f].upload
    IN /\ files[f].left > 0
       /\ proc[p].asked = OriginOfUpload(u)
       /\ IsText(u) = (proc[p].inv.verb = "read")
       /\ RightKey(f, proc[p].inv.verb = "read-file" /\ PassphraseGiven(proc[p].inv))

ReadAnswered(p) ==
    /\ proc[p].step = "asking" /\ proc[p].net = "out" /\ Found(p)
    /\ Take(proc[p].link)
    /\ Becomes(p, [proc[p] EXCEPT !.net = "ok"])
    /\ UNCHANGED <<disk, late, chunked, received, published, locked>>

(* No answer, "no message", "wrong key", another status, or bytes that do  *)
(* not decrypt: a read is never repeated.                                  *)
ReadFails(p) ==
    /\ proc[p].step = "asking"
    /\ Exit(p, 1, "nothing")
    /\ UNCHANGED <<disk, late, serviceVars>>

FirstName(inv) == IF inv.out = NoPath THEN 0 ELSE inv.out

ReadDecrypted(p) ==
    /\ proc[p].step = "asking" /\ proc[p].net = "ok"
    /\ IF proc[p].inv.verb = "read"
       THEN Exit(p, 0, "secret")
       ELSE Becomes(p, [proc[p] EXCEPT !.step = "writing", !.net = "idle",
                                       !.name = FirstName(proc[p].inv)])
    /\ UNCHANGED <<disk, late, serviceVars>>

Write(p, content) == disk' = [disk EXCEPT ![proc[p].name] = content]

Contents(p) == files[proc[p].link].upload

(* Mutant: the flag of writeFile is its default.                           *)
MayOverwrite(p) == TRUE

(* The flag wx: a name that is taken is not written.                       *)
MayWrite(p) == proc[p].inv.out # NoPath \/ disk[proc[p].name] = "none"

WriteFile(p) ==
    /\ proc[p].step = "writing" /\ proc[p].name # NoPath /\ MayWrite(p)
    /\ Write(p, Contents(p))
    /\ Exit(p, 0, "path")
    /\ UNCHANGED <<late, serviceVars>>

(* The next name: name (1).ext, name (2).ext and so on.                    *)
NextName(p) ==
    /\ proc[p].step = "writing" /\ proc[p].name # NoPath /\ ~ MayWrite(p)
    /\ Becomes(p, [proc[p] EXCEPT !.name = @ + 1])
    /\ UNCHANGED <<disk, late, serviceVars>>

(* No name is left, or the disk refuses the file or a part of it.          *)
WriteFails(p) ==
    /\ proc[p].step = "writing"
    /\ \/ UNCHANGED disk
       \/ proc[p].name # NoPath /\ MayWrite(p) /\ Write(p, "part")
    /\ Exit(p, 1, "nothing")
    /\ UNCHANGED <<late, serviceVars>>

Step(p) ==
    \/ resolveSecret(p) \/ ReadSource(p)
    \/ Saved(p) \/ NotSaved(p) \/ Wait(p) \/ SendAgain(p) \/ SendFails(p)
    \/ NextSlice(p) \/ PrintLink(p)
    \/ StatOut(p) \/ ReadAnswered(p) \/ ReadFails(p) \/ ReadDecrypted(p)
    \/ WriteFile(p) \/ NextName(p) \/ WriteFails(p)

Next ==
    \/ \E p \in Processes, inv \in Invocations, f \in Links \cup {Cut} : Run(p, inv, f)
    \/ \E p \in Processes : Step(p)
    \/ \E q \in late : LateRequest(q)
    \/ \E f \in 1 .. Len(Given) : SpentElsewhere(f) /\ UNCHANGED <<proc, disk, late>>

Spec == Init /\ [][Next]_vars

FairSpec == Spec /\ \A p \in Processes : WF_vars(Step(p))
------------------------------------------------------------------------------
Ended(p, code) == proc[p].step = "exited" /\ proc[p].code = code

(* Another process was told with --out to write there, and did or failed.  *)
OverwrittenByOut(p) ==
    \/ disk[proc[p].name] = "part"
    \/ \E q \in Processes \ {p} : Ended(q, 0) /\ proc[q].inv.out = proc[p].name

(* A script that sees exit code 0 has what it asked for: a link to all of  *)
(* what was sent, at the host it was sent to, or the whole file on disk;   *)
(* and with any other code stdout is empty.                                *)
ExitCodeIsTrue ==
    \A p \in Processes :
        /\ Ended(p, 0) /\ proc[p].inv.verb \in Senders =>
              /\ Printed(p)
              /\ files[proc[p].id].whole /\ files[proc[p].id].upload = p
              /\ proc[p].asked = OriginOfUpload(p)
        /\ Ended(p, 0) /\ proc[p].inv.verb = "read-file" =>
              /\ proc[p].printed = "path"
              /\ disk[proc[p].name] = Contents(p) \/ OverwrittenByOut(p)
        /\ Ended(p, 1) => proc[p].printed = "nothing"

(* Without --out, read-file never writes a name that is taken, by the user *)
(* or by another process in the same directory.                            *)
FilesAreKept ==
    [][\A x \in Paths : disk[x] # "none" /\ disk'[x] # disk[x] =>
          \E p \in Processes : proc[p].step = "writing" /\ proc[p].inv.out = x]_vars

(* The service replaces settings that are out of its range without a word; *)
(* what this client lets pass it takes as they are.                        *)
SettingsAreTaken ==
    \A p \in Processes :
        proc[p].step = "sending" =>
            /\ Server!ClampViews(viewsOf(proc[p].inv)) = viewsOf(proc[p].inv)
            /\ Server!ClampDuration(expiresIn(proc[p].inv)) = expiresIn(proc[p].inv)

(* Every command ends.                                                     *)
CommandsEnd ==
    \A p \in Processes : (proc[p].step # "new") ~> (proc[p].step = "exited")
==============================================================================
