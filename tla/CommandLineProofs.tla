-------------------------- MODULE CommandLineProofs --------------------------
(***************************************************************************)
(* Proofs about the command-line client, for any processes, invocations,   *)
(* links sent before, slices, names and bounds.                            *)
(***************************************************************************)
EXTENDS CommandLine, SequenceTheorems, TLAPS

(* The file of a process that sends has an id of this service.             *)
Names(id, u) == id \in 1 .. Len(files) /\ files[id].upload = u

(* The service publishes an upload once, when all of its slices are there. *)
PublishedInv ==
    \A u \in Uploads : published[u] # 0 =>
        chunked /\ Names(published[u], u) /\ files[published[u]].whole

(* The files there are were sent before, or by one of the processes.       *)
KnownFiles ==
    /\ Len(Given) <= Len(files)
    /\ \A i \in 1 .. Len(files) :
          files[i].upload \in Processes \cup {Given[j].upload : j \in 1 .. Len(Given)}

(* A process that sends has settings that the service takes, sends its     *)
(* slices in order, and knows what the service made of them.               *)
Sends(p) == proc[p].step \in {"reading", "sending", "waiting"}

SenderHonest(p) ==
    /\ Sends(p) \/ proc[p].step = "listening" =>
          /\ proc[p].inv.verb \in Senders
          /\ ExpiresAccepted(proc[p].inv) /\ ViewsAccepted(proc[p].inv)
    /\ proc[p].step = "listening" => proc[p].index = 0
    /\ Sends(p) =>
          /\ proc[p].asked = normalizeOrigin(proc[p].inv.host)
          /\ chunked => 0 .. proc[p].index - 1 \subseteq received[p]
    /\ ~ chunked => proc[p].index = 0
    /\ proc[p].step = "sending" /\ proc[p].net = "ok" =>
          IF Early(p)
          THEN IF chunked THEN proc[p].id = 0 /\ proc[p].index \in received[p]
               ELSE proc[p].id # 0
          ELSE Names(proc[p].id, p) /\ files[proc[p].id].whole

(* A process that reads has a link of this service, and a process told     *)
(* with --out where to write writes there.                                 *)
ReaderHonest(p) ==
    /\ proc[p].step \in {"checking", "asking", "writing"} =>
          proc[p].inv.verb \in Readers /\ proc[p].link \in 1 .. Len(files)
    /\ proc[p].step = "writing" =>
          /\ proc[p].inv.verb = "read-file"
          /\ proc[p].inv.out # NoPath => proc[p].name = proc[p].inv.out

EndHonest(p) ==
    /\ Printed(p) => Ended(p, 0) /\ Names(proc[p].id, p)
    /\ Ended(p, 1) => proc[p].printed = "nothing"
    /\ Ended(p, 0) /\ proc[p].inv.verb \in Senders =>
          /\ Printed(p) /\ files[proc[p].id].whole
          /\ proc[p].asked = normalizeOrigin(proc[p].inv.host)
    /\ Ended(p, 0) /\ proc[p].inv.verb = "read-file" =>
          /\ proc[p].printed = "path"
          /\ proc[p].link \in 1 .. Len(files) /\ proc[p].name \in Paths
          /\ disk[proc[p].name] = Contents(p) \/ OverwrittenByOut(p)
          /\ disk[proc[p].name] # "none"

(* A slice is sent when the ones before it are stored, and then they stay. *)
RequestHonest(q) ==
    /\ q.upload \in Processes
    /\ chunked => 0 .. q.index - 1 \subseteq received[q.upload]
    /\ ~ chunked => q.index = 0

LateHonest == \A q \in late : RequestHonest(q.request)

CommandInv ==
    /\ TypeOK /\ PublishedInv /\ KnownFiles /\ LateHonest
    /\ \A p \in Processes : SenderHonest(p) /\ ReaderHonest(p) /\ EndHonest(p)
------------------------------------------------------------------------------
(* What every step leaves of the service: its slices, its files, whose     *)
(* they are and whether they are whole.                                    *)
ServiceGrows ==
    /\ ServiceTypeOK' /\ PublishedInv' /\ KnownFiles'
    /\ late' \subseteq GivenUp /\ LateHonest'
    /\ UNCHANGED chunked
    /\ \A u \in Uploads : received[u] \subseteq received'[u]
    /\ Len(files) <= Len(files')
    /\ \A i \in 1 .. Len(files) :
          files'[i].upload = files[i].upload /\ files'[i].whole = files[i].whole

LEMMA TypesUnfolded ==
    ASSUME CommandInv
    PROVE  /\ ServiceTypeOK /\ PublishedInv /\ KnownFiles
           /\ late \subseteq GivenUp /\ LateHonest
           /\ proc \in [Processes -> Processing]
           /\ disk \in [Paths -> {"none", "own", "part"} \cup Uploads]
           /\ Len(files) \in Nat
           /\ \A p \in Processes :
                 proc[p] \in Processing /\ SenderHonest(p) /\ ReaderHonest(p) /\ EndHonest(p)
<1>1. Len(files) \in Nat
  BY LenProperties DEF CommandInv, TypeOK, ServiceTypeOK
<1> QED BY <1>1 DEF CommandInv, TypeOK

(* What is known of a request given up stays true while slices are added.  *)
LEMMA LateStays ==
    ASSUME CommandInv, UNCHANGED chunked, late' \subseteq late,
           \A u \in Uploads : received[u] \subseteq received'[u]
    PROVE  late' \subseteq GivenUp /\ LateHonest'
<1>1. late \subseteq GivenUp /\ LateHonest
  BY TypesUnfolded
<1>2. ASSUME NEW q \in late' PROVE RequestHonest(q.request)'
  <2>1. RequestHonest(q.request)
    BY <1>1, <1>2 DEF LateHonest
  <2>2. q.request.upload \in Uploads
    BY <2>1, CommandLineAssumption DEF RequestHonest
  <2>3. received[q.request.upload] \subseteq received'[q.request.upload]
    BY <2>2
  <2> QED BY <2>1, <2>3 DEF RequestHonest
<1> QED BY <1>1, <1>2 DEF LateHonest

LEMMA ServiceRests ==
    ASSUME CommandInv, UNCHANGED <<late, serviceVars>>
    PROVE  ServiceGrows
<1>1. ServiceTypeOK /\ PublishedInv /\ KnownFiles /\ Len(files) \in Nat
  BY TypesUnfolded
<1>2. /\ chunked' = chunked /\ received' = received /\ published' = published
      /\ files' = files /\ locked' = locked
  BY DEF serviceVars
<1>3. ServiceTypeOK' /\ PublishedInv' /\ KnownFiles'
  BY <1>1, <1>2 DEF ServiceTypeOK, PublishedInv, KnownFiles, Names
<1>4. late' \subseteq GivenUp /\ LateHonest'
  BY <1>2, LateStays
<1> QED BY <1>1, <1>2, <1>3, <1>4 DEF ServiceGrows

LEMMA NamesStay ==
    ASSUME CommandInv, ServiceGrows, NEW id, NEW u, Names(id, u)
    PROVE  Names(id, u)' /\ files'[id].whole = files[id].whole
<1>1. Len(files) \in Nat /\ Len(files') \in Nat
  BY TypesUnfolded, LenProperties DEF ServiceGrows, ServiceTypeOK
<1> QED BY <1>1 DEF ServiceGrows, Names

(* What is known of a process stays true while others go on.  A name that  *)
(* is taken is written by a process that was told to, or is left in part.  *)
LEMMA OthersStay ==
    ASSUME CommandInv, ServiceGrows, NEW q \in Processes, proc'[q] = proc[q],
           \A w \in Processes : Ended(w, 0) => proc'[w] = proc[w],
           \A x \in Paths : disk[x] # "none" =>
               /\ disk'[x] # "none"
               /\ \/ disk'[x] \in {disk[x], "part"}
                  \/ \E w \in Processes \ {q} : Ended(w, 0)' /\ proc'[w].inv.out = x
    PROVE  SenderHonest(q)' /\ ReaderHonest(q)' /\ EndHonest(q)'
<1>1. /\ proc[q] \in Processing /\ SenderHonest(q) /\ ReaderHonest(q) /\ EndHonest(q)
      /\ Len(files) \in Nat /\ q \in Uploads
  BY TypesUnfolded, CommandLineAssumption
<1>2. Len(files') \in Nat
  BY LenProperties DEF ServiceGrows, ServiceTypeOK
<1>3. \A i \in 1 .. Len(files) : i \in 1 .. Len(files')
  BY <1>1, <1>2 DEF ServiceGrows
<1>4. SenderHonest(q)'
  <2>1. received[q] \subseteq received'[q] /\ chunked' = chunked
    BY <1>1 DEF ServiceGrows
  <2>2. Names(proc[q].id, q) =>
            Names(proc[q].id, q)' /\ files'[proc[q].id].whole = files[proc[q].id].whole
    BY NamesStay
  <2> QED BY <1>1, <2>1, <2>2 DEF SenderHonest, Sends, Early, Names
<1>5. ReaderHonest(q)'
  BY <1>1, <1>3 DEF ReaderHonest
<1>6. EndHonest(q)'
  <2>1. Names(proc[q].id, q) =>
            Names(proc[q].id, q)' /\ files'[proc[q].id].whole = files[proc[q].id].whole
    BY NamesStay
  <2>2. Printed(q)' => Ended(q, 0)' /\ Names(proc[q].id, q)'
    BY <1>1, <2>1 DEF EndHonest, Printed, Ended
  <2>3. Ended(q, 1)' => proc'[q].printed = "nothing"
    BY <1>1 DEF EndHonest, Ended
  <2>4. Ended(q, 0)' /\ proc'[q].inv.verb \in Senders =>
           /\ Printed(q)' /\ files'[proc'[q].id].whole
           /\ proc'[q].asked = normalizeOrigin(proc'[q].inv.host)
    BY <1>1, <2>1 DEF EndHonest, Ended, Printed
  <2>5. ASSUME Ended(q, 0), proc[q].inv.verb = "read-file"
        PROVE  /\ proc[q].printed = "path"
               /\ proc[q].link \in 1 .. Len(files') /\ proc[q].name \in Paths
               /\ disk'[proc[q].name] = Contents(q)' \/ OverwrittenByOut(q)'
               /\ disk'[proc[q].name] # "none"
    <3>1. /\ proc[q].printed = "path"
          /\ proc[q].link \in 1 .. Len(files) /\ proc[q].name \in Paths
          /\ disk[proc[q].name] = Contents(q) \/ OverwrittenByOut(q)
          /\ disk[proc[q].name] # "none"
      BY <1>1, <2>5 DEF EndHonest
    <3>2. PICK x \in Paths : x = proc[q].name
      BY <3>1
    <3>3. Contents(q)' = Contents(q)
      BY <3>1 DEF Contents, ServiceGrows
    <3>4. disk'[x] # "none"
      BY <3>1, <3>2
    <3>5. OverwrittenByOut(q) => disk[x] = "part" \/ OverwrittenByOut(q)'
      BY <3>2 DEF OverwrittenByOut, Ended
    <3>6. disk'[x] = "part" => OverwrittenByOut(q)'
      BY <3>2 DEF OverwrittenByOut
    <3>7. (\E w \in Processes \ {q} : Ended(w, 0)' /\ proc'[w].inv.out = x)
             => OverwrittenByOut(q)'
      BY <3>2 DEF OverwrittenByOut, Ended
    <3>8. disk'[x] \in {disk[x], "part"} \/ OverwrittenByOut(q)'
      BY <3>1, <3>2, <3>7
    <3>9. disk'[x] = Contents(q)' \/ OverwrittenByOut(q)'
      BY <3>1, <3>2, <3>3, <3>5, <3>6, <3>8
    <3> QED BY <1>3, <3>1, <3>2, <3>4, <3>9
  <2> QED BY <2>2, <2>3, <2>4, <2>5 DEF EndHonest, Ended, Names
<1> QED BY <1>4, <1>5, <1>6

(* A step of one process.                                                  *)
LEMMA Moves ==
    ASSUME CommandInv, ServiceGrows, NEW p \in Processes, NEW new \in Processing,
           proc[p].step # "exited", Becomes(p, new),
           disk' \in [Paths -> {"none", "own", "part"} \cup Uploads],
           \A x \in Paths : disk[x] # "none" =>
               /\ disk'[x] # "none"
               /\ \/ disk'[x] \in {disk[x], "part"}
                  \/ Ended(p, 0)' /\ new.inv.out = x,
           SenderHonest(p)' /\ ReaderHonest(p)' /\ EndHonest(p)'
    PROVE  CommandInv'
<1>1. proc' = [proc EXCEPT ![p] = new] /\ proc \in [Processes -> Processing]
  BY TypesUnfolded DEF Becomes
<1>2. /\ proc' \in [Processes -> Processing] /\ proc'[p] = new
      /\ \A q \in Processes \ {p} : proc'[q] = proc[q]
  BY <1>1
<1>3. \A w \in Processes : Ended(w, 0) => proc'[w] = proc[w]
  BY <1>2 DEF Ended
<1>4. ASSUME NEW q \in Processes PROVE SenderHonest(q)' /\ ReaderHonest(q)' /\ EndHonest(q)'
  <2>1. CASE q # p
    <3>1. \A x \in Paths : disk[x] # "none" =>
            /\ disk'[x] # "none"
            /\ \/ disk'[x] \in {disk[x], "part"}
               \/ \E w \in Processes \ {q} : Ended(w, 0)' /\ proc'[w].inv.out = x
      BY <1>2, <2>1
    <3> QED BY <1>2, <1>3, <2>1, <3>1, OthersStay
  <2> QED BY <2>1
<1>5. TypeOK'
  BY <1>2 DEF TypeOK, ServiceGrows
<1> QED BY <1>4, <1>5 DEF CommandInv, ServiceGrows

(* A step of one process that only changes itself.                         *)
LEMMA MovesAlone ==
    ASSUME CommandInv, NEW p \in Processes, NEW new \in Processing,
           proc[p].step # "exited", Becomes(p, new), UNCHANGED <<disk, late, serviceVars>>,
           SenderHonest(p)' /\ ReaderHonest(p)' /\ EndHonest(p)'
    PROVE  CommandInv'
<1>1. ServiceGrows
  BY ServiceRests
<1>2. disk' \in [Paths -> {"none", "own", "part"} \cup Uploads]
  BY TypesUnfolded
<1> QED BY <1>1, <1>2, Moves

(* Zeros, and the record of a process that has not run.                    *)
LEMMA Bounds ==
    /\ 0 \in 0 .. Slices - 1 /\ 0 \in 0 .. MaxAttempts - 1 /\ 0 \in 0 .. MaxFiles
    /\ 0 \in Paths /\ NoPath \notin Paths
    /\ \A n \in Paths : n + 1 \in Paths \cup {NoPath}
BY FileServiceAssumption, CommandLineAssumption DEF Paths, NoPath

LEMMA NotRunIsProcess ==
    /\ NotRun \in Processing
    /\ NotRun.step = "new" /\ NotRun.index = 0 /\ NotRun.net = "idle" /\ NotRun.id = 0
    /\ NotRun.printed = "nothing" /\ ~ NotRun.whole
<1>1. (CHOOSE inv \in Invocations : TRUE) \in Invocations
  BY CommandLineAssumption
<1>2. normalizeOrigin(Unnamed) \in Origins
  <2>1. Unnamed \in HostTexts /\ OriginAccepted(Unnamed)
    BY LinkProtocolAssumption DEF Unnamed, HostTexts, OriginAccepted
  <2> QED BY <2>1 DEF Origins
<1>3. Cut \in 0 .. MaxFiles
  BY Bounds DEF Cut
<1> HIDE DEF Cut
<1> QED BY <1>1, <1>2, <1>3, Bounds DEF NotRun, Processing

(* A process that exits keeps what it did, or nothing if it failed.        *)
LEMMA ExitShape ==
    ASSUME NEW r \in Processing, NEW code \in 0 .. 1,
           NEW printed \in {"nothing", "help", "link", "secret", "path"}
    PROVE  LET new == Exits(r, code, printed)
           IN  /\ new \in Processing /\ new.step = "exited" /\ new.index = 0 /\ new.net = "idle"
               /\ new.code = code /\ new.printed = printed
               /\ code = 0 => /\ new.inv = r.inv /\ new.link = r.link /\ new.id = r.id
                              /\ new.name = r.name /\ new.asked = r.asked
<1>1. CASE code = 1
  <2> DEFINE new == [NotRun EXCEPT !.step = "exited", !.code = code, !.printed = printed]
  <2>1. Exits(r, code, printed) = new
    BY <1>1 DEF Exits
  <2>2. /\ new \in Processing /\ new.step = "exited" /\ new.index = 0 /\ new.net = "idle"
        /\ new.code = code /\ new.printed = printed
    <3> DEFINE one == [NotRun EXCEPT !.step = "exited", !.printed = printed]
    <3>1. one \in Processing /\ one.step = "exited" /\ one.index = 0 /\ one.net = "idle"
          /\ one.printed = printed
      BY NotRunIsProcess DEF Processing
    <3>2. new = [one EXCEPT !.code = code]
      BY NotRunIsProcess DEF Processing
    <3> HIDE DEF one, new
    <3> QED BY <3>1, <3>2 DEF Processing
  <2>3. code # 0
    BY <1>1
  <2> HIDE DEF new
  <2> QED BY <2>1, <2>2, <2>3
<1>2. CASE code = 0
  <2> DEFINE one == [r EXCEPT !.net = "idle", !.whole = FALSE]
             two == [one EXCEPT !.index = 0]
             three == [two EXCEPT !.attempt = 0]
             rest == [r EXCEPT !.net = "idle", !.index = 0, !.attempt = 0, !.whole = FALSE]
             last == [rest EXCEPT !.step = "exited", !.printed = printed]
             new == [rest EXCEPT !.step = "exited", !.code = code, !.printed = printed]
  <2>1. Exits(r, code, printed) = new
    BY <1>2 DEF Exits
  <2>2. /\ rest \in Processing /\ rest.index = 0 /\ rest.net = "idle" /\ rest.inv = r.inv
        /\ rest.link = r.link /\ rest.id = r.id /\ rest.name = r.name /\ rest.asked = r.asked
    <3>1. one \in Processing /\ one.net = "idle" /\ one.inv = r.inv /\ one.link = r.link
          /\ one.id = r.id /\ one.name = r.name /\ one.asked = r.asked
      BY DEF Processing
    <3> HIDE DEF one
    <3>2. two \in Processing /\ two.net = "idle" /\ two.inv = r.inv /\ two.link = r.link
          /\ two.id = r.id /\ two.name = r.name /\ two.asked = r.asked /\ two.index = 0
      BY <3>1, Bounds DEF Processing
    <3> HIDE DEF two
    <3>3. three \in Processing /\ three.net = "idle" /\ three.inv = r.inv
          /\ three.link = r.link /\ three.id = r.id /\ three.name = r.name
          /\ three.asked = r.asked /\ three.index = 0
      BY <3>2, Bounds DEF Processing
    <3>4. rest = three
      BY DEF three, two, one, Processing
    <3> HIDE DEF three, rest
    <3> QED BY <3>3, <3>4
  <2> HIDE DEF rest
  <2>3. last \in Processing /\ last.step = "exited" /\ last.printed = printed
        /\ last.index = 0 /\ last.net = "idle" /\ last.inv = r.inv /\ last.link = r.link
        /\ last.id = r.id /\ last.name = r.name /\ last.asked = r.asked
    <3>1. last \in Processing
      <4> DEFINE half == [rest EXCEPT !.step = "exited"]
      <4>1. half \in Processing
        BY <2>2 DEF Processing
      <4>2. last = [half EXCEPT !.printed = printed]
        BY <2>2 DEF Processing
      <4> HIDE DEF half, last
      <4> QED BY <4>1, <4>2 DEF Processing
    <3>2. last.step = "exited" /\ last.printed = printed
          /\ last.index = rest.index /\ last.net = rest.net
          /\ last.inv = rest.inv /\ last.link = rest.link
      BY <2>2 DEF Processing
    <3>3. last.id = rest.id /\ last.name = rest.name /\ last.asked = rest.asked
      BY <2>2 DEF Processing
    <3> HIDE DEF last
    <3> QED BY <2>2, <3>1, <3>2, <3>3
  <2>4. new = [last EXCEPT !.code = code]
    BY <2>2 DEF Processing
  <2> HIDE DEF last, new
  <2>5. /\ new \in Processing /\ new.step = "exited" /\ new.index = 0 /\ new.net = "idle"
        /\ new.code = code /\ new.printed = printed
        /\ new.inv = r.inv /\ new.link = r.link /\ new.id = r.id
        /\ new.name = r.name /\ new.asked = r.asked
    BY <2>3, <2>4 DEF Processing
  <2> QED BY <2>1, <2>5
<1> QED BY <1>1, <1>2

(* A process that fails leaves nothing but a name it had begun to write.   *)
LEMMA Fails ==
    ASSUME CommandInv, NEW p \in Processes, proc[p].step # "exited", Exit(p, 1, "nothing"),
           UNCHANGED <<late, serviceVars>>,
           disk' \in [Paths -> {"none", "own", "part"} \cup Uploads],
           \A x \in Paths : disk'[x] \in {disk[x], "part"}
    PROVE  CommandInv'
<1> DEFINE new == Exits(proc[p], 1, "nothing")
<1>1. proc[p] \in Processing /\ proc \in [Processes -> Processing]
  BY TypesUnfolded
<1>2. /\ new \in Processing /\ new.step = "exited" /\ new.index = 0
      /\ new.code = 1 /\ new.printed = "nothing"
  BY <1>1, ExitShape
<1>3. Becomes(p, new)
  BY DEF Exit
<1> HIDE DEF new
<1>4. proc'[p] = new
  BY <1>1, <1>3 DEF Becomes
<1>5. SenderHonest(p)' /\ ReaderHonest(p)' /\ EndHonest(p)'
  BY <1>2, <1>4 DEF SenderHonest, Sends, ReaderHonest, EndHonest, Ended, Printed
<1>6. ServiceGrows
  BY ServiceRests
<1> QED BY <1>2, <1>3, <1>5, <1>6, Moves

------------------------------------------------------------------------------
(* What was sent before.                                                   *)
LEMMA GivenTyped ==
    ASSUME NEW i \in 1 .. Len(Given)
    PROVE  /\ Given[i].upload \in Uploads /\ Given[i].upload \notin Processes
           /\ Given[i].host \in Hosts /\ Given[i].left \in 1 .. MaxViews
<1> DEFINE S == [upload : Uploads \ Processes, text : BOOLEAN, host : Hosts,
                 left : 1 .. MaxViews, locked : BOOLEAN]
<1>1. Given \in Seq(S)
  BY CommandLineAssumption
<1> HIDE DEF S
<1>2. Given[i] \in S
  BY <1>1, ElementOfSeq
<1> QED BY <1>2 DEF S

LEMMA InitCommand == Init => CommandInv
<1> SUFFICES ASSUME Init PROVE CommandInv
  OBVIOUS
<1>1. Given \in Seq([upload : Uploads \ Processes, text : BOOLEAN, host : Hosts,
                     left : 1 .. MaxViews, locked : BOOLEAN])
      /\ Len(Given) \in Nat /\ Len(Given) <= MaxFiles
  BY CommandLineAssumption
<1>2. ASSUME NEW i \in 1 .. Len(Given)
      PROVE  /\ Given[i].upload \in Uploads
             /\ [upload |-> Given[i].upload, whole |-> TRUE, left |-> Given[i].left] \in File
  <2>1. Given[i].upload \in Uploads /\ Given[i].left \in 1 .. MaxViews
    BY GivenTyped
  <2>2. Given[i].left \in 0 .. MaxViews /\ Given[i].upload \in Uploads
    BY <2>1, FileServiceAssumption
  <2> QED BY <2>2 DEF File
<1>3. files = [i \in 1 .. Len(Given) |->
                  [upload |-> Given[i].upload, whole |-> TRUE, left |-> Given[i].left]]
  BY DEF Init
<1>4. files \in Seq(File) /\ Len(files) = Len(Given)
      /\ \A i \in 1 .. Len(files) : files[i].upload = Given[i].upload
  BY <1>1, <1>2, <1>3
<1>5. ServiceTypeOK
  <2>1. locked \subseteq Uploads
    BY <1>2 DEF Init
  <2>2. chunked \in BOOLEAN /\ received \in [Uploads -> SUBSET (0 .. Slices - 1)]
    BY DEF Init
  <2>3. published \in [Uploads -> 0 .. MaxFiles]
    BY Bounds DEF Init
  <2> QED BY <1>1, <1>4, <2>1, <2>2, <2>3 DEF ServiceTypeOK
<1>6. TypeOK
  <2>1. proc \in [Processes -> Processing]
    BY NotRunIsProcess DEF Init
  <2>2. disk \in [Paths -> {"none", "own", "part"} \cup Uploads]
    BY DEF Init
  <2>3. late \subseteq GivenUp
    BY DEF Init
  <2> QED BY <1>5, <2>1, <2>2, <2>3 DEF TypeOK
<1>7. PublishedInv
  BY DEF Init, PublishedInv
<1>8. KnownFiles
  BY <1>1, <1>4 DEF KnownFiles
<1>9. LateHonest
  BY DEF Init, LateHonest
<1>10. ASSUME NEW p \in Processes PROVE SenderHonest(p) /\ ReaderHonest(p) /\ EndHonest(p)
  <2>1. proc[p] = NotRun
    BY DEF Init
  <2> QED BY <2>1, NotRunIsProcess DEF SenderHonest, Sends, ReaderHonest, EndHonest, Ended, Printed
<1> QED BY <1>6, <1>7, <1>8, <1>9, <1>10 DEF CommandInv

------------------------------------------------------------------------------
(* What is typed.                                                          *)

LEMMA NormalHost ==
    ASSUME NEW h \in HostTexts
    PROVE  normalizeOrigin(h) \in HostTexts
           /\ (OriginAccepted(h) => normalizeOrigin(h) \in Origins)
<1>1. PICK scheme \in {"none", "https", "http", "ftp"} :
          scheme = IF h.scheme = "none" THEN "https" ELSE h.scheme
  BY DEF HostTexts
<1>2. normalizeOrigin(h) = [h EXCEPT !.scheme = scheme]
  BY <1>1 DEF normalizeOrigin
<1>3. normalizeOrigin(h) \in HostTexts
  BY <1>2 DEF HostTexts
<1> QED BY <1>3 DEF Origins

(* Every link there is names a file of this service.                       *)
LEMMA LinksAreFiles ==
    ASSUME CommandInv, NEW f \in Links
    PROVE  f \in 1 .. Len(files) /\ OriginOfUpload(files[f].upload) \in HostTexts
<1>1. Len(files) \in Nat /\ KnownFiles
      /\ \A q \in Processes : proc[q] \in Processing /\ EndHonest(q)
  BY TypesUnfolded
<1>2. f \in 1 .. Len(files)
  <2>1. CASE f \in 1 .. Len(Given)
    BY <1>1, <2>1, CommandLineAssumption DEF KnownFiles
  <2>2. ASSUME NEW q \in Processes, Printed(q), f = proc[q].id PROVE f \in 1 .. Len(files)
    BY <1>1, <2>2 DEF EndHonest, Names
  <2> QED BY <2>1, <2>2 DEF Links
<1>3. PICK u : u = files[f].upload
  OBVIOUS
<1>4. u \in Processes \/ \E j \in 1 .. Len(Given) : Given[j].upload = u
  BY <1>1, <1>2, <1>3 DEF KnownFiles
<1>5. CASE u \in Processes
  <2>1. proc[u].inv \in Invocations
    BY <1>1, <1>5 DEF Processing
  <2>2. proc[u].inv.host \in HostTexts
    BY <2>1, CommandLineAssumption DEF Invocation
  <2>3. normalizeOrigin(proc[u].inv.host) \in HostTexts
    BY <2>2, NormalHost
  <2> QED BY <1>2, <1>3, <1>5, <2>3 DEF OriginOfUpload
<1>6. CASE u \notin Processes
  <2>1. \E j \in 1 .. Len(Given) : Given[j].upload = u
    BY <1>4, <1>6
  <2>2. OfGiven(u) \in 1 .. Len(Given)
    BY <2>1 DEF OfGiven
  <2>3. Given[OfGiven(u)].host \in Hosts
    BY <2>2, GivenTyped
  <2>4. [scheme |-> "https", host |-> Given[OfGiven(u)].host] \in HostTexts
    BY <2>3 DEF HostTexts
  <2> QED BY <1>2, <1>3, <1>6, <2>4 DEF OriginOfUpload
<1> QED BY <1>5, <1>6

(* What a process asks is a host that it accepted.                         *)
LEMMA AskedIsOrigin ==
    ASSUME CommandInv, NEW inv \in Invocations, NEW f \in Links \cup {Cut}, Accepted(inv, f)
    PROVE  /\ inv.verb = "send-file" => normalizeOrigin(inv.host) \in Origins
           /\ inv.verb \in Readers =>
                 /\ f \in 1 .. Len(files)
                 /\ OriginOf(LinkTyped(inv, f), inv.host) \in Origins
<1>1. inv \in Invocation /\ inv.host \in HostTexts /\ inv.form \in {"url", "path", "fragment"}
  BY CommandLineAssumption DEF Invocation
<1>2. ASSUME inv.verb = "send-file" PROVE normalizeOrigin(inv.host) \in Origins
  <2>1. OriginAccepted(inv.host)
    BY <1>2 DEF Accepted
  <2> QED BY <1>1, <2>1, NormalHost
<1>3. ASSUME inv.verb \in Readers
      PROVE  f \in 1 .. Len(files) /\ OriginOf(LinkTyped(inv, f), inv.host) \in Origins
  <2> DEFINE link == LinkTyped(inv, f)
             origin == IF f = Cut THEN Unnamed ELSE OriginOfUpload(files[f].upload)
  <2>1. link.form = inv.form /\ link.origin = origin /\ link.token = f
    BY DEF LinkTyped, buildSecretLink
  <2>2. LinkAccepted(link, inv.host)
    BY <1>3 DEF Accepted
  <2> HIDE DEF link
  <2>3. f # Cut
    BY <2>1, <2>2 DEF LinkAccepted, isValidLinkToken
  <2>4. f \in 1 .. Len(files) /\ origin \in HostTexts
    BY <2>3, LinksAreFiles
  <2> HIDE DEF origin
  <2>5. CASE link.form = "url"
    <3>1. OriginAccepted(origin)
      BY <2>1, <2>2, <2>5 DEF LinkAccepted
    <3>2. normalizeOrigin(origin) \in Origins
      BY <2>4, <3>1, NormalHost
    <3> QED BY <2>1, <2>4, <2>5, <3>2 DEF OriginOf, link
  <2>6. CASE link.form # "url"
    <3>1. OriginAccepted(inv.host)
      BY <2>2 DEF LinkAccepted
    <3>2. normalizeOrigin(inv.host) \in Origins
      BY <1>1, <3>1, NormalHost
    <3> QED BY <2>4, <2>6, <3>2 DEF OriginOf, link
  <2> QED BY <2>5, <2>6
<1> QED BY <1>2, <1>3

LEMMA LockedGrows ==
    ASSUME CommandInv, UNCHANGED <<late, chunked, received, published, files>>,
           locked' \subseteq Uploads
    PROVE  ServiceGrows
<1>1. ServiceTypeOK /\ PublishedInv /\ KnownFiles /\ Len(files) \in Nat
  BY TypesUnfolded
<1>2. ServiceTypeOK' /\ PublishedInv' /\ KnownFiles'
  BY <1>1 DEF ServiceTypeOK, PublishedInv, KnownFiles, Names
<1>3. late' \subseteq GivenUp /\ LateHonest'
  BY LateStays
<1> QED BY <1>1, <1>2, <1>3 DEF ServiceGrows

(* Where an accepted command begins.                                       *)
LEMMA FirstStepShape ==
    ASSUME NEW r \in Processing, r.net = "idle", r.inv.verb \in {"send-file"} \cup Readers
    PROVE  LET new == FirstStep(r)
           IN  /\ new \in Processing /\ new.inv = r.inv /\ new.link = r.link
               /\ new.asked = r.asked /\ new.index = r.index /\ new.printed = r.printed
               /\ new.net \in {"idle", "out"}
               /\ new.step \in
                     IF r.inv.verb = "send-file" THEN {"reading"} ELSE {"checking", "asking"}
<1>1. CASE r.inv.verb = "send-file"
  <2>1. FirstStep(r) = [r EXCEPT !.step = "reading"]
    BY <1>1 DEF FirstStep
  <2> QED BY <1>1, <2>1 DEF Processing, Readers
<1>2. CASE r.inv.verb = "read-file" /\ r.inv.out # NoPath
  <2>1. FirstStep(r) = [r EXCEPT !.step = "checking"]
    BY <1>2 DEF FirstStep
  <2> QED BY <1>2, <2>1 DEF Processing, Readers
<1>3. CASE r.inv.verb \in Readers /\ ~ (r.inv.verb = "read-file" /\ r.inv.out # NoPath)
  <2>1. FirstStep(r) = [r EXCEPT !.step = "asking", !.net = "out"]
    BY <1>3 DEF FirstStep, Readers
  <2> QED BY <1>3, <2>1 DEF Processing, Readers
<1> QED BY <1>1, <1>2, <1>3 DEF Readers

(* A command begins.                                                       *)
LEMMA StepRun ==
    ASSUME CommandInv, NEW p \in Processes, NEW inv \in Invocations, NEW f \in Links \cup {Cut},
           Run(p, inv, f)
    PROVE  CommandInv'
<1> DEFINE r == [NotRun EXCEPT !.inv = inv, !.link = f]
           asks == IF inv.verb = "send-file" THEN normalizeOrigin(inv.host)
                   ELSE OriginOf(LinkTyped(inv, f), inv.host)
           asking == [r EXCEPT !.asked = asks]
<1>1. /\ ServiceTypeOK /\ proc \in [Processes -> Processing]
      /\ disk \in [Paths -> {"none", "own", "part"} \cup Uploads] /\ Len(files) \in Nat
  BY TypesUnfolded
<1>2. f \in 0 .. MaxFiles
  <2>1. CASE f = Cut
    BY <2>1, Bounds DEF Cut
  <2>2. CASE f \in Links
    BY <1>1, <2>2, LinksAreFiles, FileServiceAssumption DEF ServiceTypeOK
  <2> QED BY <2>1, <2>2
<1>3. /\ r \in Processing /\ r.inv = inv /\ r.link = f /\ r.net = "idle" /\ r.index = 0
      /\ r.printed = "nothing"
  <2>1. r \in Processing
    BY <1>2, NotRunIsProcess DEF Processing
  <2> QED BY <2>1, NotRunIsProcess DEF Processing
<1>4. proc[p].step = "new" /\ UNCHANGED <<disk, late, chunked, received, published, files>>
  BY DEF Run
<1>5. ServiceGrows
  <2>1. locked' \subseteq Uploads
    BY <1>1, CommandLineAssumption DEF Run, ServiceTypeOK
  <2> QED BY <1>4, <2>1, LockedGrows
<1>6. Becomes(p, IF inv.verb = "help" THEN Exits(r, 0, "help")
                 ELSE IF ~ Accepted(inv, f) THEN Exits(r, 1, "nothing")
                 ELSE IF inv.verb = "send" THEN [r EXCEPT !.step = "listening"]
                 ELSE FirstStep(asking))
  BY DEF Run
<1> HIDE DEF asking
<1>7. ASSUME NEW new \in Processing, Becomes(p, new), new.inv = inv \/ new.code = 1,
             SenderHonest(p)' /\ ReaderHonest(p)' /\ EndHonest(p)'
      PROVE  CommandInv'
  <2>1. disk' \in [Paths -> {"none", "own", "part"} \cup Uploads]
        /\ \A x \in Paths : disk'[x] = disk[x]
    BY <1>1, <1>4
  <2> QED BY <1>4, <1>5, <1>7, <2>1, Moves
<1>8. ASSUME NEW new, Becomes(p, new) PROVE proc'[p] = new
  BY <1>1, <1>8 DEF Becomes
<1> HIDE DEF r, asks
<1>9. CASE inv.verb = "help"
  <2> DEFINE new == Exits(r, 0, "help")
  <2>1. /\ new \in Processing /\ new.step = "exited" /\ new.index = 0 /\ new.code = 0
        /\ new.printed = "help" /\ new.inv = inv
    BY <1>3, ExitShape
  <2>2. Becomes(p, new)
    BY <1>6, <1>9
  <2> HIDE DEF new
  <2>3. SenderHonest(p)' /\ ReaderHonest(p)' /\ EndHonest(p)'
    BY <1>8, <1>9, <2>1, <2>2
       DEF SenderHonest, Sends, ReaderHonest, EndHonest, Ended, Printed, Senders
  <2> QED BY <1>7, <2>1, <2>2, <2>3
<1>10. CASE inv.verb # "help" /\ ~ Accepted(inv, f)
  <2> DEFINE new == Exits(r, 1, "nothing")
  <2>1. /\ new \in Processing /\ new.step = "exited" /\ new.index = 0 /\ new.code = 1
        /\ new.printed = "nothing"
    BY <1>3, ExitShape
  <2>2. Becomes(p, new)
    BY <1>6, <1>10
  <2> HIDE DEF new
  <2>3. SenderHonest(p)' /\ ReaderHonest(p)' /\ EndHonest(p)'
    BY <1>8, <2>1, <2>2 DEF SenderHonest, Sends, ReaderHonest, EndHonest, Ended, Printed
  <2> QED BY <1>7, <2>1, <2>2, <2>3
<1>11. CASE inv.verb = "send" /\ Accepted(inv, f)
  <2>1. ExpiresAccepted(inv) /\ ViewsAccepted(inv) /\ inv.verb \in Senders
    BY <1>11 DEF Accepted, Senders
  <2> DEFINE new == [r EXCEPT !.step = "listening"]
  <2>2. /\ new \in Processing /\ new.step = "listening" /\ new.inv = inv /\ new.index = 0
        /\ new.printed = "nothing" /\ new.net = "idle"
    BY <1>3 DEF Processing
  <2>3. Becomes(p, new)
    BY <1>6, <1>11
  <2> HIDE DEF new
  <2>4. proc'[p] = new
    BY <1>8, <2>3
  <2>5. SenderHonest(p)' /\ ReaderHonest(p)' /\ EndHonest(p)'
    BY <2>1, <2>2, <2>4 DEF SenderHonest, Sends, ReaderHonest, EndHonest, Ended, Printed
  <2> QED BY <1>7, <2>2, <2>3, <2>5
<1>12. CASE inv.verb \notin {"help", "send"} /\ Accepted(inv, f)
  <2>1. inv.verb \in {"send-file"} \cup Readers /\ (inv.verb = "send-file" <=> inv.verb \in Senders)
    <3>1. inv.verb \in {"help", "misuse", "send", "read", "send-file", "read-file"}
      BY CommandLineAssumption DEF Invocation
    <3> QED BY <1>12, <3>1 DEF Accepted, Senders, Readers
  <2>2. asks \in Origins /\ (inv.verb \in Readers => f \in 1 .. Len(files))
        /\ (inv.verb \in Senders => asks = normalizeOrigin(inv.host))
    BY <1>12, <2>1, AskedIsOrigin DEF asks
  <2>3. /\ asking \in Processing /\ asking.inv = inv /\ asking.link = f /\ asking.net = "idle"
        /\ asking.index = 0 /\ asking.printed = "nothing" /\ asking.asked = asks
    <3>1. asking \in Processing
      BY <1>3, <2>2 DEF asking, Processing
    <3> QED BY <1>3, <3>1 DEF asking, Processing
  <2>4. inv.verb \in Senders => ExpiresAccepted(inv) /\ ViewsAccepted(inv)
    BY <1>12 DEF Accepted
  <2> DEFINE new == FirstStep(asking)
  <2>5. /\ new \in Processing /\ new.inv = inv /\ new.link = f
        /\ new.asked = asks /\ new.index = 0 /\ new.printed = "nothing"
        /\ new.net \in {"idle", "out"}
        /\ new.step \in IF inv.verb = "send-file" THEN {"reading"} ELSE {"checking", "asking"}
    BY <2>1, <2>3, FirstStepShape
  <2>6. Becomes(p, new)
    BY <1>6, <1>12
  <2> HIDE DEF new
  <2>7. proc'[p] = new
    BY <1>8, <2>6
  <2>8. SenderHonest(p)'
    <3>1. (0 .. new.index - 1) = {}
      BY <2>5
    <3>2. new.step \in {"reading", "sending", "waiting", "listening"} =>
              new.step = "reading" /\ inv.verb \in Senders
      BY <2>1, <2>5
    <3> QED BY <2>2, <2>4, <2>5, <2>7, <3>1, <3>2 DEF SenderHonest, Sends
  <2>9. ReaderHonest(p)'
    <3>1. new.step # "writing" /\ (new.step \in {"checking", "asking"} => inv.verb \in Readers)
      BY <2>1, <2>5
    <3> QED BY <1>4, <2>2, <2>5, <2>7, <3>1 DEF ReaderHonest
  <2>10. EndHonest(p)'
    BY <2>5, <2>7 DEF EndHonest, Ended, Printed
  <2> QED BY <1>7, <2>5, <2>6, <2>8, <2>9, <2>10
<1> QED BY <1>9, <1>10, <1>11, <1>12

(* The secret is there and the first request goes out, or the command is   *)
(* over.                                                                   *)
LEMMA StepResolveSecret ==
    ASSUME CommandInv, NEW p \in Processes, resolveSecret(p)
    PROVE  CommandInv'
<1>1. proc[p].step = "listening" /\ UNCHANGED <<disk, late, serviceVars>>
  BY DEF resolveSecret
<1>2. proc[p] \in Processing /\ proc \in [Processes -> Processing] /\ SenderHonest(p)
  BY TypesUnfolded
<1>3. CASE Exit(p, 1, "nothing")
  <2>1. disk' \in [Paths -> {"none", "own", "part"} \cup Uploads]
        /\ \A x \in Paths : disk'[x] = disk[x]
    BY <1>1, TypesUnfolded
  <2> QED BY <1>1, <1>3, <2>1, Fails
<1> DEFINE origin == normalizeOrigin(proc[p].inv.host)
           new == [proc[p] EXCEPT !.step = "sending", !.net = "out", !.whole = TRUE,
                                  !.asked = origin]
<1>4. CASE OriginAccepted(proc[p].inv.host) /\ Becomes(p, new)
  <2>1. proc[p].inv \in Invocation
    BY <1>2, CommandLineAssumption DEF Processing
  <2>2. origin \in Origins
    BY <1>4, <2>1, NormalHost DEF Invocation
  <2> HIDE DEF origin
  <2>3. /\ new \in Processing /\ new.step = "sending" /\ new.net = "out"
        /\ new.inv = proc[p].inv /\ new.asked = origin /\ new.index = proc[p].index
        /\ new.printed = proc[p].printed
    BY <1>2, <2>2 DEF Processing
  <2>4. Becomes(p, new)
    BY <1>4
  <2> HIDE DEF new
  <2>5. proc'[p] = new
    BY <1>2, <2>4 DEF Becomes
  <2>6. SenderHonest(p)'
    <3>1. proc[p].index = 0 /\ (0 .. new.index - 1) = {}
      BY <1>1, <1>2, <2>3 DEF SenderHonest
    <3>2. /\ proc[p].inv.verb \in Senders
          /\ ExpiresAccepted(proc[p].inv) /\ ViewsAccepted(proc[p].inv)
      BY <1>1, <1>2 DEF SenderHonest
    <3> QED BY <2>3, <2>5, <3>1, <3>2 DEF SenderHonest, Sends, origin
  <2>7. ReaderHonest(p)' /\ EndHonest(p)'
    <3>1. EndHonest(p)
      BY TypesUnfolded
    <3>2. proc[p].printed # "link"
      BY <1>1, <3>1 DEF EndHonest, Ended, Printed
    <3> QED BY <2>3, <2>5, <3>2 DEF ReaderHonest, EndHonest, Ended, Printed
  <2>8. proc[p].step # "exited"
    BY <1>1
  <2> QED BY <1>1, <2>3, <2>4, <2>6, <2>7, <2>8, MovesAlone
<1> QED BY <1>3, <1>4 DEF resolveSecret

(* A process that sends goes on sending.                                   *)
LEMMA SenderMoves ==
    ASSUME CommandInv, ServiceGrows, UNCHANGED disk,
           NEW p \in Processes, NEW new \in Processing, Becomes(p, new),
           Sends(p), new.step \in {"sending", "waiting"},
           new.inv = proc[p].inv, new.asked = proc[p].asked, new.printed = proc[p].printed,
           chunked => 0 .. new.index - 1 \subseteq received'[p],
           ~ chunked => new.index = 0,
           new.step = "sending" /\ new.net = "ok" =>
              IF new.index < Slices - 1 /\ ~ new.whole
              THEN IF chunked THEN new.id = 0 /\ new.index \in received'[p]
                   ELSE new.id # 0
              ELSE Names(new.id, p)' /\ files'[new.id].whole
    PROVE  CommandInv'
<1>1. /\ proc \in [Processes -> Processing] /\ SenderHonest(p) /\ EndHonest(p)
      /\ disk' \in [Paths -> {"none", "own", "part"} \cup Uploads]
  BY TypesUnfolded
<1>2. proc'[p] = new /\ chunked' = chunked
  BY <1>1 DEF Becomes, ServiceGrows
<1>3. proc[p].step # "exited" /\ new.printed # "link"
  BY <1>1 DEF Sends, EndHonest, Ended, Printed
<1>4. SenderHonest(p)'
  BY <1>1, <1>2 DEF SenderHonest, Sends, Early, Names
<1>5. ReaderHonest(p)' /\ EndHonest(p)'
  BY <1>2, <1>3 DEF ReaderHonest, EndHonest, Ended, Printed
<1> QED BY <1>1, <1>3, <1>4, <1>5, Moves

(* A process that reads goes on reading.                                   *)
LEMMA ReaderMoves ==
    ASSUME CommandInv, ServiceGrows, UNCHANGED disk,
           NEW p \in Processes, NEW new \in Processing, Becomes(p, new),
           proc[p].step \in {"checking", "asking", "writing"},
           new.step \in {"checking", "asking", "writing"},
           new.inv = proc[p].inv, new.link = proc[p].link, new.printed = proc[p].printed,
           new.index = proc[p].index,
           new.step = "writing" =>
              /\ new.inv.verb = "read-file"
              /\ new.inv.out # NoPath => new.name = new.inv.out
    PROVE  CommandInv'
<1>1. /\ proc \in [Processes -> Processing] /\ SenderHonest(p) /\ ReaderHonest(p)
      /\ EndHonest(p) /\ Len(files) \in Nat
      /\ disk' \in [Paths -> {"none", "own", "part"} \cup Uploads]
  BY TypesUnfolded
<1>2. proc'[p] = new /\ chunked' = chunked /\ Len(files) <= Len(files')
  BY <1>1 DEF Becomes, ServiceGrows
<1>3. proc[p].step # "exited" /\ new.printed # "link"
  BY <1>1 DEF EndHonest, Ended, Printed
<1>4. SenderHonest(p)'
  BY <1>1, <1>2 DEF SenderHonest, Sends
<1>5. Len(files') \in Nat
  BY LenProperties DEF ServiceGrows, ServiceTypeOK
<1>6. ReaderHonest(p)'
  BY <1>1, <1>2, <1>5 DEF ReaderHonest
<1>7. EndHonest(p)'
  BY <1>2, <1>3 DEF EndHonest, Ended, Printed
<1> QED BY <1>1, <1>3, <1>4, <1>6, <1>7, Moves

------------------------------------------------------------------------------
(* What the service does with a request to save.                           *)

(* A file is added, whole or not, of a process.                            *)
LEMMA FileAdded ==
    ASSUME CommandInv, NEW p \in Processes, NEW whole \in BOOLEAN, NEW views \in 0 .. MaxViews,
           Len(files) < MaxFiles, files' = NewFile(p, whole, views),
           NEW id, id = Len(files) + 1
    PROVE  /\ files' \in Seq(File) /\ Len(files') <= MaxFiles /\ Len(files) <= Len(files')
           /\ \A i \in 1 .. Len(files) : files'[i] = files[i]
           /\ Names(id, p)' /\ files'[id].whole = whole
           /\ KnownFiles' /\ id \in 1 .. MaxFiles
<1>1. /\ ServiceTypeOK /\ KnownFiles /\ Len(files) \in Nat
      /\ files \in Seq(File)
  BY TypesUnfolded DEF ServiceTypeOK
<1> DEFINE new == [upload |-> p, whole |-> whole, left |-> views]
<1>2. new \in File /\ new.upload = p /\ new.whole = whole
  BY CommandLineAssumption DEF File
<1>3. files' = Append(files, new)
  BY DEF NewFile
<1> HIDE DEF new
<1>4. /\ files' \in Seq(File) /\ Len(files') = Len(files) + 1
      /\ \A i \in 1 .. Len(files) : files'[i] = files[i]
      /\ files'[Len(files) + 1] = new
  BY <1>1, <1>2, <1>3, AppendProperties
<1>5. Len(files) + 1 \in 1 .. MaxFiles /\ Len(files) + 1 \in 1 .. Len(files')
  BY <1>1, <1>4, FileServiceAssumption
<1>6. KnownFiles'
  <2>1. Len(Given) <= Len(files')
    BY <1>1, <1>4, CommandLineAssumption, LenProperties DEF KnownFiles
  <2>2. ASSUME NEW i \in 1 .. Len(files')
        PROVE  files'[i].upload \in Processes \cup {Given[j].upload : j \in 1 .. Len(Given)}
    <3>1. CASE i = Len(files) + 1
      BY <1>2, <1>4, <3>1
    <3>2. CASE i # Len(files) + 1
      <4>1. i \in 1 .. Len(files)
        BY <1>1, <1>4, <3>2
      <4> QED BY <1>1, <1>4, <4>1 DEF KnownFiles
    <3> QED BY <3>1, <3>2
  <2> QED BY <2>1, <2>2 DEF KnownFiles
<1> QED BY <1>1, <1>2, <1>4, <1>5, <1>6 DEF Names

LEMMA ServeGrows ==
    ASSUME CommandInv, NEW q \in Request, RequestHonest(q), NEW views \in 0 .. MaxViews,
           Len(files) < MaxFiles, Serve(q, views), UNCHANGED <<chunked, locked>>,
           late' \subseteq late,
           NEW id, id = AnswerId(q)
    PROVE  /\ ServiceGrows /\ id \in 0 .. MaxFiles
           /\ IF q.index < Slices - 1 /\ ~ q.whole
              THEN IF chunked THEN id = 0 /\ q.index \in received'[q.upload] ELSE id # 0
              ELSE Names(id, q.upload)' /\ files'[id].whole
<1>1. PICK p \in Processes : p = q.upload
  BY DEF RequestHonest
<1>2. /\ ServiceTypeOK /\ PublishedInv /\ KnownFiles /\ Len(files) \in Nat /\ p \in Uploads
      /\ q.index \in 0 .. Slices - 1 /\ q.whole \in BOOLEAN
  BY TypesUnfolded, CommandLineAssumption DEF Request
<1>3. /\ received \in [Uploads -> SUBSET (0 .. Slices - 1)]
      /\ published \in [Uploads -> 0 .. MaxFiles] /\ chunked \in BOOLEAN
      /\ locked \subseteq Uploads /\ files \in Seq(File) /\ Len(files) <= MaxFiles
  BY <1>2 DEF ServiceTypeOK
<1>4. /\ chunked => 0 .. q.index - 1 \subseteq received[p]
      /\ ~ chunked => q.index = 0
  BY <1>1 DEF RequestHonest
<1>5. Slices \in Nat \ {0} /\ MaxFiles \in Nat
  BY FileServiceAssumption
<1> DEFINE early == q.index < Slices - 1 /\ ~ q.whole
<1>6. early <=> (q.index < Slices - 1 /\ ~ q.whole)
  OBVIOUS
<1> HIDE DEF early
<1>7. Serve(q, views) /\ id = AnswerId(q)
  OBVIOUS
<1> DEFINE Answered ==
       /\ ServiceGrows /\ id \in 0 .. MaxFiles
       /\ IF early THEN IF chunked THEN id = 0 /\ q.index \in received'[p] ELSE id # 0
          ELSE Names(id, p)' /\ files'[id].whole
<1> SUFFICES Answered
  BY <1>1, <1>6
<1>8. CASE Single(q)
  <2> DEFINE whole == q.whole \/ Slices = 1
  <2>1. /\ files' = NewFile(p, whole, views) /\ UNCHANGED <<received, published>>
        /\ id = Len(files) + 1 /\ whole \in BOOLEAN
    BY <1>1, <1>2, <1>7, <1>8 DEF Serve, AnswerId
  <2>2. ~ early => whole
    BY <1>1, <1>2, <1>4, <1>5, <1>6, <1>8 DEF Single
  <2>3. early => ~ chunked
    BY <1>6, <1>8 DEF Single
  <2> HIDE DEF whole
  <2>4. /\ files' \in Seq(File) /\ Len(files') <= MaxFiles /\ Len(files) <= Len(files')
        /\ \A i \in 1 .. Len(files) : files'[i] = files[i]
        /\ Names(id, p)' /\ files'[id].whole = whole
        /\ KnownFiles' /\ id \in 1 .. MaxFiles
    BY <2>1, FileAdded
  <2>5. ServiceTypeOK'
    BY <1>3, <2>1, <2>4 DEF ServiceTypeOK
  <2>6. Len(files') \in Nat
    BY <2>4, LenProperties
  <2>7. PublishedInv'
    BY <1>1, <1>2, <2>1, <2>4, <2>6 DEF PublishedInv, Names
  <2>9. late' \subseteq GivenUp /\ LateHonest'
    BY <2>1, LateStays
  <2>8. ServiceGrows
    BY <2>1, <2>4, <2>5, <2>7, <2>9 DEF ServiceGrows
  <2> QED BY <1>1, <1>2, <2>1, <2>2, <2>3, <2>4, <2>8
<1>9. CASE ~ Single(q)
  <2>1. chunked /\ ~ q.whole
    BY <1>9 DEF Single
  <2>2. received' = [received EXCEPT ![p] = @ \cup {q.index}]
    BY <1>1, <1>2, <1>7, <1>9 DEF Serve
  <2>3. /\ received' \in [Uploads -> SUBSET (0 .. Slices - 1)]
        /\ \A u \in Uploads : received[u] \subseteq received'[u]
        /\ received'[p] = received[p] \cup {q.index}
    BY <1>1, <1>2, <1>3, <2>2
  <2>4. CASE IsLast(q) /\ published[p] = 0
    <3> DEFINE whole == received'[p] = 0 .. Slices - 1
    <3>1. /\ files' = NewFile(p, whole, views) /\ whole \in BOOLEAN
          /\ published' = [published EXCEPT ![p] = id]
          /\ id = Len(files) + 1
      BY <1>1, <1>2, <1>7, <1>9, <2>4 DEF Serve, AnswerId
    <3>2. ~ early /\ q.index = Slices - 1
      BY <1>1, <1>2, <1>5, <1>6, <2>4 DEF IsLast
    <3>3. whole
      <4>1. 0 .. Slices - 2 \subseteq received[p]
        BY <1>1, <1>2, <1>4, <1>5, <2>1, <3>2
      <4>2. ASSUME NEW i \in 0 .. Slices - 1 PROVE i \in received'[p]
        BY <1>5, <2>3, <3>2, <4>1
      <4>3. received'[p] \subseteq 0 .. Slices - 1
        BY <1>1, <1>2, <2>3
      <4> QED BY <4>2, <4>3
    <3> HIDE DEF whole
    <3>4. /\ files' \in Seq(File) /\ Len(files') <= MaxFiles /\ Len(files) <= Len(files')
          /\ \A i \in 1 .. Len(files) : files'[i] = files[i]
          /\ Names(id, p)' /\ files'[id].whole = whole
          /\ KnownFiles' /\ id \in 1 .. MaxFiles
      BY <3>1, FileAdded
    <3>5. /\ published' \in [Uploads -> 0 .. MaxFiles] /\ published'[p] = id
          /\ \A u \in Uploads \ {p} : published'[u] = published[u]
      BY <1>1, <1>2, <1>3, <3>1, <3>4
    <3>6. ServiceTypeOK'
      BY <1>3, <2>3, <3>4, <3>5 DEF ServiceTypeOK
    <3>7. Len(files') \in Nat
      BY <3>4, LenProperties
    <3>8. PublishedInv'
      <4>1. ASSUME NEW u \in Uploads, published'[u] # 0
            PROVE  /\ chunked' /\ published'[u] \in 1 .. Len(files')
                   /\ files'[published'[u]].upload = u /\ files'[published'[u]].whole
        <5>1. CASE u = p
          BY <2>1, <3>3, <3>4, <3>5, <5>1 DEF Names
        <5>2. CASE u # p
          <6>1. chunked /\ Names(published[u], u) /\ files[published[u]].whole
                /\ published'[u] = published[u]
            BY <1>1, <1>2, <3>5, <4>1, <5>2 DEF PublishedInv
          <6> QED BY <1>1, <1>2, <3>4, <3>7, <6>1 DEF Names
        <5> QED BY <5>1, <5>2
      <4> QED BY <4>1 DEF PublishedInv, Names
    <3>12. late' \subseteq GivenUp /\ LateHonest'
      BY <2>3, LateStays
    <3>9. ServiceGrows
      BY <2>3, <3>4, <3>6, <3>8, <3>12 DEF ServiceGrows
    <3>10. id \in 0 .. MaxFiles
      BY <1>5, <3>4
    <3>11. files'[id].whole
      BY <3>3, <3>4
    <3> QED BY <3>2, <3>4, <3>9, <3>10, <3>11
  <2>5. CASE ~ (IsLast(q) /\ published[p] = 0)
    <3>1. UNCHANGED <<files, published>>
      BY <1>1, <1>2, <1>7, <1>9, <2>5 DEF Serve
    <3>2. id = IF IsLast(q) THEN published[p] ELSE 0
      BY <1>1, <1>2, <1>7, <1>9, <2>5 DEF AnswerId
    <3>3. ServiceTypeOK' /\ PublishedInv' /\ KnownFiles'
      <4>1. ServiceTypeOK'
        BY <1>3, <2>3, <3>1 DEF ServiceTypeOK
      <4>2. PublishedInv'
        BY <1>1, <1>2, <3>1 DEF PublishedInv, Names
      <4> QED BY <1>1, <1>2, <3>1, <4>1, <4>2 DEF KnownFiles
    <3>7. late' \subseteq GivenUp /\ LateHonest'
      BY <2>3, LateStays
    <3>4. ServiceGrows
      BY <1>1, <1>2, <2>3, <3>1, <3>3, <3>7 DEF ServiceGrows
    <3>5. CASE IsLast(q)
      <4>1. ~ early /\ published[p] # 0 /\ id = published[p]
        BY <1>1, <1>2, <1>5, <1>6, <2>5, <3>2, <3>5 DEF IsLast
      <4>2. Names(published[p], p) /\ files[published[p]].whole /\ published[p] \in 0 .. MaxFiles
        BY <1>1, <1>2, <1>3, <4>1 DEF PublishedInv
      <4> QED BY <3>1, <3>4, <4>1, <4>2 DEF Names
    <3>6. CASE ~ IsLast(q)
      <4>1. early /\ id = 0
        BY <1>1, <1>2, <1>5, <1>6, <2>1, <3>2, <3>6 DEF IsLast
      <4> QED BY <1>1, <1>2, <2>1, <2>3, <3>4, <4>1, Bounds
    <3> QED BY <3>5, <3>6
  <2> QED BY <2>4, <2>5
<1> QED BY <1>8, <1>9

(* What a process that sends asks of the service.                          *)
LEMMA RequestSent ==
    ASSUME CommandInv, NEW p \in Processes, Sends(p)
    PROVE  /\ RequestOf(p) \in Request /\ RequestHonest(RequestOf(p))
           /\ RequestOf(p).upload = p /\ RequestOf(p).index = proc[p].index
           /\ RequestOf(p).whole = proc[p].whole
<1>1. proc[p] \in Processing /\ SenderHonest(p) /\ p \in Uploads
  BY TypesUnfolded, CommandLineAssumption
<1>2. RequestOf(p) = [upload |-> p, index |-> proc[p].index, whole |-> proc[p].whole]
  BY DEF RequestOf
<1>3. RequestOf(p) \in Request
  BY <1>1, <1>2 DEF Processing, Request
<1>4. RequestHonest(RequestOf(p))
  BY <1>1, <1>2 DEF RequestHonest, SenderHonest, Sends
<1> QED BY <1>2, <1>3, <1>4

LEMMA SaveGrows ==
    ASSUME CommandInv, NEW p \in Processes, NEW views \in 0 .. MaxViews,
           proc[p].step = "sending", Len(files) < MaxFiles,
           Serve(RequestOf(p), views), UNCHANGED <<late, chunked, locked>>,
           NEW id, id = AnswerId(RequestOf(p))
    PROVE  /\ ServiceGrows /\ id \in 0 .. MaxFiles
           /\ IF Early(p)
              THEN IF chunked THEN id = 0 /\ proc[p].index \in received'[p] ELSE id # 0
              ELSE Names(id, p)' /\ files'[id].whole
<1>0. PICK q : q = RequestOf(p)
  OBVIOUS
<1>1. /\ q \in Request /\ RequestHonest(q) /\ q.upload = p /\ q.index = proc[p].index
      /\ q.whole = proc[p].whole
  BY <1>0, RequestSent DEF Sends
<1>2. Serve(q, views) /\ id = AnswerId(q) /\ late' \subseteq late
      /\ UNCHANGED <<chunked, locked>>
  BY <1>0
<1>3. /\ ServiceGrows /\ id \in 0 .. MaxFiles
      /\ IF q.index < Slices - 1 /\ ~ q.whole
         THEN IF chunked THEN id = 0 /\ q.index \in received'[q.upload] ELSE id # 0
         ELSE Names(id, q.upload)' /\ files'[id].whole
  BY <1>1, <1>2, ServeGrows
<1>4. Early(p) <=> q.index < Slices - 1 /\ ~ q.whole
  BY <1>1 DEF Early
<1>5. Names(id, q.upload)' <=> Names(id, p)'
  BY <1>1 DEF Names
<1>6. received'[q.upload] = received'[p]
  BY <1>1
<1> QED BY <1>1, <1>3, <1>4, <1>5, <1>6

------------------------------------------------------------------------------
(* The steps of a process that sends.                                      *)

(* What is known of it before such a step.                                 *)
LEMMA SenderFacts ==
    ASSUME CommandInv, ServiceGrows, NEW p \in Processes, Sends(p)
    PROVE  /\ proc[p] \in Processing /\ SenderHonest(p)
           /\ proc[p].index \in 0 .. Slices - 1 /\ proc[p].attempt \in 0 .. MaxAttempts - 1
           /\ chunked => 0 .. proc[p].index - 1 \subseteq received'[p]
           /\ ~ chunked => proc[p].index = 0
<1>1. proc[p] \in Processing /\ SenderHonest(p) /\ p \in Uploads
  BY TypesUnfolded, CommandLineAssumption
<1>2. received[p] \subseteq received'[p]
  BY <1>1 DEF ServiceGrows
<1> QED BY <1>1, <1>2 DEF SenderHonest, Processing

LEMMA StepReadSource ==
    ASSUME CommandInv, NEW p \in Processes, ReadSource(p)
    PROVE  CommandInv'
<1>1. proc[p].step = "reading" /\ UNCHANGED <<disk, late, serviceVars>>
  BY DEF ReadSource
<1>2. CASE Exit(p, 1, "nothing")
  <2>1. disk' \in [Paths -> {"none", "own", "part"} \cup Uploads]
        /\ \A x \in Paths : disk'[x] = disk[x]
    BY <1>1, TypesUnfolded
  <2> QED BY <1>1, <1>2, <2>1, Fails
<1>3. CASE Becomes(p, [proc[p] EXCEPT !.step = "sending", !.net = "out"])
  <2> DEFINE new == [proc[p] EXCEPT !.step = "sending", !.net = "out"]
  <2>1. ServiceGrows /\ Sends(p)
    BY <1>1, ServiceRests DEF Sends
  <2>2. proc[p] \in Processing
    BY TypesUnfolded
  <2>3. new \in Processing
    BY <2>2 DEF Processing
  <2>4. /\ new.step = "sending" /\ new.net = "out" /\ new.inv = proc[p].inv
        /\ new.asked = proc[p].asked /\ new.printed = proc[p].printed
        /\ new.index = proc[p].index
    BY <2>2 DEF Processing
  <2> HIDE DEF new
  <2>5. Becomes(p, new)
    BY <1>3 DEF new
  <2>6. UNCHANGED disk /\ new.net # "ok"
    BY <1>1, <2>4
  <2> QED BY <2>1, <2>3, <2>4, <2>5, <2>6, SenderFacts, SenderMoves
<1> QED BY <1>1, <1>2, <1>3 DEF ReadSource

(* An answer to a request to save.                                         *)
LEMMA AnswerComes ==
    ASSUME CommandInv, ServiceGrows, UNCHANGED disk, NEW p \in Processes,
           proc[p].step = "sending", NEW net \in {"failed", "refused"},
           Becomes(p, [proc[p] EXCEPT !.net = net])
    PROVE  CommandInv'
<1> DEFINE new == [proc[p] EXCEPT !.net = net]
<1>1. proc[p] \in Processing /\ Sends(p)
  BY TypesUnfolded DEF Sends
<1>2. new \in Processing
  BY <1>1 DEF Processing
<1>3. /\ new.step = "sending" /\ new.net # "ok" /\ new.inv = proc[p].inv
      /\ new.asked = proc[p].asked /\ new.printed = proc[p].printed
      /\ new.index = proc[p].index
  BY <1>1 DEF Processing
<1>4. Becomes(p, new)
  OBVIOUS
<1> HIDE DEF new
<1> QED BY <1>1, <1>2, <1>3, <1>4, SenderFacts, SenderMoves

(* The views a process asks for are in the range of the service.           *)
LEMMA ViewsSent ==
    ASSUME CommandInv, NEW p \in Processes, Sends(p)
    PROVE  Server!ClampViews(viewsOf(proc[p].inv)) \in 1 .. MaxViews
<1>1. viewsOf(proc[p].inv) \in 1 .. 10
  BY TypesUnfolded DEF SenderHonest, ViewsAccepted
<1> QED BY <1>1, CommandLineAssumption, FileServiceAssumption DEF Server!ClampViews

LEMMA StepNotSaved ==
    ASSUME CommandInv, NEW p \in Processes, NotSaved(p)
    PROVE  CommandInv'
<1> DEFINE views == Server!ClampViews(viewsOf(proc[p].inv))
           q == [request |-> RequestOf(p), views |-> views]
<1>1. /\ proc[p].step = "sending" /\ Sends(p) /\ UNCHANGED <<disk, serviceVars>>
      /\ late' \in {late, late \cup {q}}
  BY DEF NotSaved, Sends
<1>2. RequestOf(p) \in Request /\ RequestHonest(RequestOf(p)) /\ views \in 1 .. MaxViews
  BY <1>1, RequestSent, ViewsSent
<1> HIDE DEF views
<1>3. q \in GivenUp /\ q.request = RequestOf(p)
  BY <1>2 DEF GivenUp
<1> HIDE DEF q
<1>4. /\ ServiceTypeOK /\ PublishedInv /\ KnownFiles /\ Len(files) \in Nat
      /\ late \subseteq GivenUp /\ LateHonest
  BY TypesUnfolded
<1>5. late' \subseteq GivenUp /\ LateHonest'
  <2>1. \A w \in late' : w \in late \/ w = q
    BY <1>1
  <2>2. chunked' = chunked /\ received' = received
    BY <1>1 DEF serviceVars
  <2>3. \A w \in late' : RequestHonest(w.request)
    BY <1>2, <1>3, <1>4, <2>1 DEF LateHonest
  <2>4. \A w \in late' : RequestHonest(w.request)'
    BY <2>2, <2>3 DEF RequestHonest
  <2> QED BY <1>3, <1>4, <2>1, <2>4 DEF LateHonest
<1>6. ServiceTypeOK' /\ PublishedInv' /\ KnownFiles'
  BY <1>1, <1>4 DEF serviceVars, ServiceTypeOK, PublishedInv, KnownFiles, Names
<1>7. ServiceGrows /\ UNCHANGED disk
  BY <1>1, <1>4, <1>5, <1>6 DEF ServiceGrows, serviceVars
<1>8. PICK net \in {"failed", "refused"} : Becomes(p, [proc[p] EXCEPT !.net = net])
  BY DEF NotSaved
<1> QED BY <1>1, <1>7, <1>8, AnswerComes

LEMMA StepSaved ==
    ASSUME CommandInv, NEW p \in Processes, Saved(p)
    PROVE  CommandInv'
<1> DEFINE views == Server!ClampViews(viewsOf(proc[p].inv))
<1>1. /\ proc[p].step = "sending" /\ Len(files) < MaxFiles 
      /\ UNCHANGED <<disk, late, chunked, locked>> /\ Serve(RequestOf(p), views)
  BY DEF Saved
<1>2. proc[p] \in Processing /\ Sends(p) /\ SenderHonest(p)
  BY <1>1, TypesUnfolded DEF Sends
<1>3. views \in 0 .. MaxViews
  <2>1. views \in 1 .. MaxViews
    BY <1>2, ViewsSent
  <2> HIDE DEF views
  <2> QED BY <2>1, FileServiceAssumption
<1> HIDE DEF views
<1>4. PICK id : id = AnswerId(RequestOf(p))
  OBVIOUS
<1>5. /\ ServiceGrows /\ id \in 0 .. MaxFiles
      /\ IF Early(p)
         THEN IF chunked THEN id = 0 /\ proc[p].index \in received'[p] ELSE id # 0
         ELSE Names(id, p)' /\ files'[id].whole
  BY <1>1, <1>3, <1>4, SaveGrows
<1>6. CASE \E net \in {"failed", "refused"} : Becomes(p, [proc[p] EXCEPT !.net = net])
  <2>1. PICK net \in {"failed", "refused"} : Becomes(p, [proc[p] EXCEPT !.net = net])
    BY <1>6
  <2> QED BY <1>1, <1>5, <2>1, AnswerComes
<1>7. CASE Becomes(p, [proc[p] EXCEPT !.net = "ok", !.id = id])
  <2> DEFINE one == [proc[p] EXCEPT !.net = "ok"]
             new == [proc[p] EXCEPT !.net = "ok", !.id = id]
  <2>1. one \in Processing
    BY <1>2 DEF Processing
  <2>2. /\ one.step = "sending" /\ one.net = "ok" /\ one.inv = proc[p].inv
        /\ one.asked = proc[p].asked /\ one.printed = proc[p].printed
        /\ one.index = proc[p].index /\ one.whole = proc[p].whole
    BY <1>1, <1>2 DEF Processing
  <2>3. new = [one EXCEPT !.id = id]
    BY <1>2 DEF Processing
  <2>4. Becomes(p, new)
    BY <1>7
  <2> HIDE DEF one, new
  <2>5. new \in Processing
    BY <1>5, <2>1, <2>3 DEF Processing
  <2>6. /\ new.step = "sending" /\ new.net = "ok" /\ new.inv = proc[p].inv
        /\ new.asked = proc[p].asked /\ new.printed = proc[p].printed
        /\ new.index = proc[p].index /\ new.whole = proc[p].whole /\ new.id = id
    BY <1>5, <2>1, <2>2, <2>3 DEF Processing
  <2>7. PICK after \in Processing : after = new
    BY <2>5
  <2>8. IF after.index < Slices - 1 /\ ~ after.whole
        THEN IF chunked THEN after.id = 0 /\ after.index \in received'[p] ELSE after.id # 0
        ELSE Names(after.id, p)' /\ files'[after.id].whole
    BY <1>5, <2>6, <2>7 DEF Early, Names
  <2>9. UNCHANGED disk
    BY <1>1
  <2> QED BY <1>2, <1>5, <2>4, <2>6, <2>7, <2>8, <2>9, SenderFacts, SenderMoves
<1> QED BY <1>4, <1>6, <1>7 DEF Saved

LEMMA StepWait ==
    ASSUME CommandInv, NEW p \in Processes, Wait(p)
    PROVE  CommandInv'
<1>1. ServiceGrows /\ UNCHANGED disk
  BY ServiceRests DEF Wait
<1>2. /\ proc[p] \in Processing /\ Sends(p) /\ proc[p].attempt \in 0 .. MaxAttempts - 1
      /\ chunked => 0 .. proc[p].index - 1 \subseteq received'[p]
      /\ ~ chunked => proc[p].index = 0
  <2>1. Sends(p)
    BY DEF Wait, Sends
  <2> QED BY <1>1, <2>1, TypesUnfolded, SenderFacts
<1>3. proc[p].attempt + 1 \in 0 .. MaxAttempts - 1
  <2>1. proc[p].attempt < MaxAttempts - 1
    BY DEF Wait, MayRetry
  <2>2. MaxAttempts \in Nat
    BY CommandLineAssumption
  <2> QED BY <1>2, <2>1, <2>2
<1> DEFINE one == [proc[p] EXCEPT !.step = "waiting", !.net = "idle"]
           new == [proc[p] EXCEPT !.step = "waiting", !.net = "idle", !.attempt = @ + 1]
<1>4. /\ one \in Processing /\ one.step = "waiting" /\ one.inv = proc[p].inv
      /\ one.asked = proc[p].asked /\ one.printed = proc[p].printed
      /\ one.index = proc[p].index
  BY <1>2 DEF Processing
<1>5. new = [one EXCEPT !.attempt = proc[p].attempt + 1]
  BY <1>2 DEF Processing
<1>6. Becomes(p, new)
  BY DEF Wait
<1> HIDE DEF one, new
<1>7. new \in Processing
  BY <1>3, <1>4, <1>5 DEF Processing
<1>8. /\ new.step = "waiting" /\ new.inv = proc[p].inv
      /\ new.asked = proc[p].asked /\ new.printed = proc[p].printed
      /\ new.index = proc[p].index
  BY <1>4, <1>5 DEF Processing
<1> QED BY <1>1, <1>2, <1>6, <1>7, <1>8, SenderMoves

LEMMA StepSendAgain ==
    ASSUME CommandInv, NEW p \in Processes, SendAgain(p)
    PROVE  CommandInv'
<1>1. ServiceGrows /\ UNCHANGED disk /\ Sends(p)
  BY ServiceRests DEF SendAgain, Sends
<1>2. proc[p] \in Processing
  BY TypesUnfolded
<1> DEFINE new == [proc[p] EXCEPT !.step = "sending", !.net = "out"]
<1>3. new \in Processing
  BY <1>2 DEF Processing
<1>4. /\ new.step = "sending" /\ new.net = "out" /\ new.inv = proc[p].inv
      /\ new.asked = proc[p].asked /\ new.printed = proc[p].printed
      /\ new.index = proc[p].index
  BY <1>2 DEF Processing
<1>5. Becomes(p, new)
  BY DEF SendAgain
<1> HIDE DEF new
<1>6. new.net # "ok"
  BY <1>4
<1> QED BY <1>1, <1>3, <1>4, <1>5, <1>6, SenderFacts, SenderMoves

LEMMA StepSendFails ==
    ASSUME CommandInv, NEW p \in Processes, SendFails(p)
    PROVE  CommandInv'
<1>1. /\ proc[p].step # "exited" /\ Exit(p, 1, "nothing") /\ UNCHANGED <<late, serviceVars>>
      /\ disk' = disk
  BY DEF SendFails
<1>2. disk' \in [Paths -> {"none", "own", "part"} \cup Uploads]
      /\ \A x \in Paths : disk'[x] = disk[x]
  BY <1>1, TypesUnfolded
<1> QED BY <1>1, <1>2, Fails

LEMMA StepNextSlice ==
    ASSUME CommandInv, NEW p \in Processes, NextSlice(p)
    PROVE  CommandInv'
<1>1. /\ proc[p].step = "sending" /\ proc[p].net = "ok" /\ Early(p)
      /\ UNCHANGED <<disk, late, serviceVars>>
  BY DEF NextSlice
<1>2. ServiceGrows /\ UNCHANGED disk /\ Sends(p)
  BY <1>1, ServiceRests DEF Sends
<1>3. /\ proc[p] \in Processing /\ SenderHonest(p)
      /\ proc[p].index \in 0 .. Slices - 1
      /\ chunked => 0 .. proc[p].index - 1 \subseteq received'[p]
      /\ ~ chunked => proc[p].index = 0
  BY <1>2, SenderFacts
<1>4. IF chunked THEN proc[p].id = 0 /\ proc[p].index \in received[p] ELSE proc[p].id # 0
  BY <1>1, <1>3 DEF SenderHonest
<1>5. CASE proc[p].id # 0
  <2> DEFINE one == [proc[p] EXCEPT !.net = "out", !.whole = TRUE]
             two == [one EXCEPT !.attempt = 0]
             new == [proc[p] EXCEPT !.net = "out", !.whole = TRUE, !.attempt = 0, !.id = 0]
  <2>1. /\ one \in Processing /\ one.step = "sending" /\ one.net = "out"
        /\ one.inv = proc[p].inv /\ one.asked = proc[p].asked
        /\ one.printed = proc[p].printed /\ one.index = proc[p].index
    BY <1>1, <1>3 DEF Processing
  <2>2. new = [two EXCEPT !.id = 0]
    BY <1>3 DEF Processing
  <2> HIDE DEF one, new
  <2>3. /\ two \in Processing /\ two.step = "sending" /\ two.net = "out"
        /\ two.inv = proc[p].inv /\ two.asked = proc[p].asked
        /\ two.printed = proc[p].printed /\ two.index = proc[p].index
    BY <2>1, Bounds DEF Processing
  <2> HIDE DEF two
  <2>4. new \in Processing
    BY <2>2, <2>3, Bounds DEF Processing
  <2>5. /\ new.step = "sending" /\ new.net # "ok"
        /\ new.inv = proc[p].inv /\ new.asked = proc[p].asked
        /\ new.printed = proc[p].printed /\ new.index = proc[p].index
    BY <2>2, <2>3 DEF Processing
  <2>6. Becomes(p, new)
    BY <1>5 DEF NextSlice, new
  <2> QED BY <1>2, <1>3, <2>4, <2>5, <2>6, SenderMoves
<1>6. CASE proc[p].id = 0
  <2> DEFINE one == [proc[p] EXCEPT !.net = "out"]
             two == [one EXCEPT !.attempt = 0]
             new == [proc[p] EXCEPT !.net = "out", !.index = @ + 1, !.attempt = 0]
  <2>1. /\ one \in Processing /\ one.step = "sending" /\ one.net = "out"
        /\ one.inv = proc[p].inv /\ one.asked = proc[p].asked
        /\ one.printed = proc[p].printed
    BY <1>1, <1>3 DEF Processing
  <2>2. new = [two EXCEPT !.index = proc[p].index + 1]
    BY <1>3 DEF Processing
  <2> HIDE DEF one, new
  <2>3. /\ two \in Processing /\ two.step = "sending" /\ two.net = "out"
        /\ two.inv = proc[p].inv /\ two.asked = proc[p].asked
        /\ two.printed = proc[p].printed
    BY <2>1, Bounds DEF Processing
  <2> HIDE DEF two
  <2>4. proc[p].index + 1 \in 0 .. Slices - 1
    BY <1>1, <1>3, FileServiceAssumption DEF Early
  <2>5. new \in Processing
    BY <2>2, <2>3, <2>4 DEF Processing
  <2>6. /\ new.step = "sending" /\ new.net # "ok"
        /\ new.inv = proc[p].inv /\ new.asked = proc[p].asked
        /\ new.printed = proc[p].printed /\ new.index = proc[p].index + 1
    BY <2>2, <2>3, <2>4 DEF Processing
  <2>7. Becomes(p, new)
    BY <1>6 DEF NextSlice, new
  <2>8. chunked /\ proc[p].index \in received'[p]
    BY <1>1, <1>4, <1>6 DEF serviceVars
  <2>9. 0 .. new.index - 1 \subseteq received'[p]
    <3>1. ASSUME NEW i \in 0 .. new.index - 1 PROVE i \in received'[p]
      <4>1. i = proc[p].index \/ i \in 0 .. proc[p].index - 1
        BY <1>3, <2>6
      <4> QED BY <1>3, <2>8, <4>1
    <3> QED BY <3>1
  <2> QED BY <1>2, <2>5, <2>6, <2>7, <2>8, <2>9, SenderMoves
<1> QED BY <1>5, <1>6

LEMMA StepPrintLink ==
    ASSUME CommandInv, NEW p \in Processes, PrintLink(p)
    PROVE  CommandInv'
<1> DEFINE new == Exits(proc[p], 0, "link")
<1>1. /\ proc[p].step = "sending" /\ proc[p].net = "ok" /\ ~ Early(p)
      /\ UNCHANGED <<disk, late, serviceVars>> /\ Becomes(p, new)
  BY DEF PrintLink, Exit
<1>2. proc[p] \in Processing /\ proc \in [Processes -> Processing] /\ SenderHonest(p)
  BY TypesUnfolded
<1>3. /\ new \in Processing /\ new.step = "exited" /\ new.index = 0 /\ new.code = 0
      /\ new.printed = "link" /\ new.inv = proc[p].inv /\ new.id = proc[p].id
      /\ new.asked = proc[p].asked
  BY <1>2, ExitShape
<1> HIDE DEF new
<1>4. proc'[p] = new /\ files' = files
  BY <1>1, <1>2 DEF Becomes, serviceVars
<1>5. /\ proc[p].inv.verb \in Senders /\ proc[p].asked = normalizeOrigin(proc[p].inv.host)
      /\ Names(proc[p].id, p) /\ files[proc[p].id].whole
  BY <1>1, <1>2 DEF SenderHonest, Sends
<1>6. SenderHonest(p)' /\ ReaderHonest(p)'
  BY <1>3, <1>4 DEF SenderHonest, Sends, ReaderHonest
<1>7. EndHonest(p)'
  BY <1>3, <1>4, <1>5 DEF EndHonest, Ended, Printed, Names, Senders
<1>8. proc[p].step # "exited"
  BY <1>1
<1> QED BY <1>1, <1>3, <1>6, <1>7, <1>8, MovesAlone

------------------------------------------------------------------------------
(* The steps of a process that reads.                                      *)

(* A file loses views.                                                     *)
LEMMA FilesSpend ==
    ASSUME CommandInv, NEW f \in 1 .. Len(files), NEW v \in 0 .. MaxViews,
           files' = [files EXCEPT ![f].left = v],
           UNCHANGED <<late, chunked, received, published, locked>>
    PROVE  ServiceGrows
<1>1. ServiceTypeOK /\ PublishedInv /\ KnownFiles /\ Len(files) \in Nat
  BY TypesUnfolded
<1>2. files \in Seq(File)
  BY <1>1 DEF ServiceTypeOK
<1> DEFINE spent == [files[f] EXCEPT !.left = v]
<1>3. files[f] \in File
  BY <1>2, ElementOfSeq
<1>4. spent \in File /\ spent.upload = files[f].upload /\ spent.whole = files[f].whole
  BY <1>3 DEF File
<1>5. files' = [files EXCEPT ![f] = spent]
  OBVIOUS
<1> HIDE DEF spent
<1>6. files' \in Seq(File) /\ Len(files') = Len(files)
  BY <1>2, <1>4, <1>5, ExceptSeq
<1>7. \A i \in 1 .. Len(files) :
          files'[i].upload = files[i].upload /\ files'[i].whole = files[i].whole
  BY <1>2, <1>4, <1>5
<1>8. ServiceTypeOK'
  BY <1>1, <1>6 DEF ServiceTypeOK
<1>9. PublishedInv' /\ KnownFiles'
  BY <1>1, <1>6, <1>7 DEF PublishedInv, KnownFiles, Names
<1>10. late' \subseteq GivenUp /\ LateHonest'
  BY LateStays
<1> QED BY <1>1, <1>6, <1>7, <1>8, <1>9, <1>10 DEF ServiceGrows

LEMMA StepStatOut ==
    ASSUME CommandInv, NEW p \in Processes, StatOut(p)
    PROVE  CommandInv'
<1>1. proc[p].step = "checking" /\ UNCHANGED <<disk, late, serviceVars>>
  BY DEF StatOut
<1>2. CASE Exit(p, 1, "nothing")
  <2>1. disk' \in [Paths -> {"none", "own", "part"} \cup Uploads]
        /\ \A x \in Paths : disk'[x] = disk[x]
    BY <1>1, TypesUnfolded
  <2> QED BY <1>1, <1>2, <2>1, Fails
<1>3. CASE Becomes(p, [proc[p] EXCEPT !.step = "asking", !.net = "out"])
  <2> DEFINE new == [proc[p] EXCEPT !.step = "asking", !.net = "out"]
  <2>1. ServiceGrows
    BY <1>1, ServiceRests
  <2>2. proc[p] \in Processing
    BY TypesUnfolded
  <2>3. new \in Processing
    BY <2>2 DEF Processing
  <2>4. /\ new.step = "asking" /\ new.inv = proc[p].inv
        /\ new.link = proc[p].link /\ new.printed = proc[p].printed
        /\ new.index = proc[p].index
    BY <2>2 DEF Processing
  <2> HIDE DEF new
  <2>5. Becomes(p, new)
    BY <1>3 DEF new
  <2> QED BY <1>1, <2>1, <2>3, <2>4, <2>5, ReaderMoves
<1> QED BY <1>2, <1>3 DEF StatOut

LEMMA StepReadAnswered ==
    ASSUME CommandInv, NEW p \in Processes, ReadAnswered(p)
    PROVE  CommandInv'
<1>1. /\ proc[p].step = "asking" /\ Found(p) /\ Take(proc[p].link)
      /\ Becomes(p, [proc[p] EXCEPT !.net = "ok"])
      /\ UNCHANGED <<disk, late, chunked, received, published, locked>>
  BY DEF ReadAnswered
<1>2. /\ proc[p] \in Processing /\ ReaderHonest(p) /\ files \in Seq(File)
  BY TypesUnfolded DEF ServiceTypeOK
<1>3. PICK f \in 1 .. Len(files) : f = proc[p].link
  BY <1>1, <1>2 DEF ReaderHonest
<1>4. ServiceGrows
  <2>1. files[f] \in File
    BY <1>2, ElementOfSeq
  <2>2. files[f].left - 1 \in 0 .. MaxViews
    BY <1>1, <1>3, <2>1, FileServiceAssumption DEF Found, File
  <2>3. files' = [files EXCEPT ![f].left = files[f].left - 1]
    BY <1>1, <1>2, <1>3 DEF Take
  <2>4. UNCHANGED <<late, chunked, received, published, locked>>
    BY <1>1
  <2> QED BY <2>2, <2>3, <2>4, FilesSpend
<1> DEFINE new == [proc[p] EXCEPT !.net = "ok"]
<1>5. new \in Processing
  BY <1>2 DEF Processing
<1>6. /\ new.step = "asking" /\ new.inv = proc[p].inv
      /\ new.link = proc[p].link /\ new.printed = proc[p].printed
      /\ new.index = proc[p].index
  BY <1>1, <1>2 DEF Processing
<1> HIDE DEF new
<1>7. Becomes(p, new) /\ UNCHANGED disk
  BY <1>1 DEF new
<1> QED BY <1>1, <1>4, <1>5, <1>6, <1>7, ReaderMoves

LEMMA StepReadFails ==
    ASSUME CommandInv, NEW p \in Processes, ReadFails(p)
    PROVE  CommandInv'
<1>1. /\ proc[p].step # "exited" /\ Exit(p, 1, "nothing") /\ UNCHANGED <<late, serviceVars>>
      /\ disk' = disk
  BY DEF ReadFails
<1>2. disk' \in [Paths -> {"none", "own", "part"} \cup Uploads]
      /\ \A x \in Paths : disk'[x] = disk[x]
  BY <1>1, TypesUnfolded
<1> QED BY <1>1, <1>2, Fails

LEMMA StepReadDecrypted ==
    ASSUME CommandInv, NEW p \in Processes, ReadDecrypted(p)
    PROVE  CommandInv'
<1>1. proc[p].step = "asking" /\ UNCHANGED <<disk, late, serviceVars>>
  BY DEF ReadDecrypted
<1>2. proc[p] \in Processing /\ proc \in [Processes -> Processing] /\ ReaderHonest(p)
  BY TypesUnfolded
<1>3. proc[p].inv.verb \in Readers
  BY <1>1, <1>2 DEF ReaderHonest
<1>4. CASE proc[p].inv.verb = "read"
  <2> DEFINE new == Exits(proc[p], 0, "secret")
  <2>1. Becomes(p, new)
    BY <1>4 DEF ReadDecrypted, Exit
  <2>2. /\ new \in Processing /\ new.step = "exited" /\ new.index = 0 /\ new.code = 0
        /\ new.printed = "secret" /\ new.inv = proc[p].inv
    BY <1>2, ExitShape
  <2> HIDE DEF new
  <2>3. proc'[p] = new
    BY <1>2, <2>1 DEF Becomes
  <2>4. SenderHonest(p)' /\ ReaderHonest(p)' /\ EndHonest(p)'
    BY <1>4, <2>2, <2>3
       DEF SenderHonest, Sends, ReaderHonest, EndHonest, Ended, Printed, Senders
  <2>5. proc[p].step # "exited"
    BY <1>1
  <2> QED BY <1>1, <2>1, <2>2, <2>4, <2>5, MovesAlone
<1>5. CASE proc[p].inv.verb # "read"
  <2> DEFINE first == FirstName(proc[p].inv)
             one == [proc[p] EXCEPT !.step = "writing", !.net = "idle"]
             new == [proc[p] EXCEPT !.step = "writing", !.net = "idle", !.name = first]
  <2>1. Becomes(p, new)
    BY <1>5 DEF ReadDecrypted
  <2>2. proc[p].inv.out \in Paths \cup {NoPath}
    <3>1. proc[p].inv \in Invocation
      BY <1>2, CommandLineAssumption DEF Processing
    <3> QED BY <3>1 DEF Invocation
  <2>3. first \in Paths \cup {NoPath} /\ (proc[p].inv.out # NoPath => first = proc[p].inv.out)
    BY <2>2, Bounds DEF FirstName
  <2> HIDE DEF first
  <2>4. /\ one \in Processing /\ one.step = "writing" /\ one.inv = proc[p].inv
        /\ one.link = proc[p].link /\ one.printed = proc[p].printed
        /\ one.index = proc[p].index
    BY <1>2 DEF Processing
  <2>5. new = [one EXCEPT !.name = first]
    BY <1>2 DEF Processing
  <2> HIDE DEF one, new
  <2>6. new \in Processing
    BY <2>3, <2>4, <2>5 DEF Processing
  <2>7. /\ new.step = "writing" /\ new.inv = proc[p].inv
        /\ new.link = proc[p].link /\ new.printed = proc[p].printed
        /\ new.index = proc[p].index /\ new.name = first
    BY <2>3, <2>4, <2>5 DEF Processing
  <2>8. new.inv.verb = "read-file" /\ (new.inv.out # NoPath => new.name = new.inv.out)
    BY <1>3, <1>5, <2>3, <2>7 DEF Readers
  <2>9. ServiceGrows
    BY <1>1, ServiceRests
  <2> QED BY <1>1, <2>1, <2>6, <2>7, <2>8, <2>9, ReaderMoves
<1> QED BY <1>4, <1>5

LEMMA StepWriteFile ==
    ASSUME CommandInv, NEW p \in Processes, WriteFile(p)
    PROVE  CommandInv'
<1> DEFINE new == Exits(proc[p], 0, "path")
<1>1. /\ proc[p].step = "writing" /\ proc[p].name # NoPath /\ MayWrite(p)
      /\ Becomes(p, new) /\ UNCHANGED <<late, serviceVars>>
  BY DEF WriteFile, Exit
<1>2. /\ proc[p] \in Processing /\ proc \in [Processes -> Processing] /\ ReaderHonest(p)
      /\ disk \in [Paths -> {"none", "own", "part"} \cup Uploads] /\ files \in Seq(File)
  BY TypesUnfolded DEF ServiceTypeOK
<1>3. /\ new \in Processing /\ new.step = "exited" /\ new.index = 0 /\ new.code = 0
      /\ new.printed = "path" /\ new.inv = proc[p].inv /\ new.link = proc[p].link
      /\ new.name = proc[p].name
  BY <1>2, ExitShape
<1> HIDE DEF new
<1>4. PICK x \in Paths : x = proc[p].name
  BY <1>1, <1>2 DEF Processing
<1>5. PICK content \in Uploads : content = Contents(p)
  <2>1. proc[p].link \in 1 .. Len(files)
    BY <1>1, <1>2 DEF ReaderHonest
  <2>2. files[proc[p].link] \in File
    BY <1>2, <2>1, ElementOfSeq
  <2> QED BY <2>2 DEF Contents, File
<1>6. disk' = [disk EXCEPT ![x] = content]
  BY <1>4, <1>5 DEF WriteFile, Write
<1>7. /\ disk' \in [Paths -> {"none", "own", "part"} \cup Uploads] /\ disk'[x] = content
      /\ \A y \in Paths \ {x} : disk'[y] = disk[y]
  BY <1>2, <1>6
<1>8. content # "none"
  BY CommandLineAssumption
<1>9. proc'[p] = new /\ files' = files
  BY <1>1, <1>2 DEF Becomes, serviceVars
<1>10. SenderHonest(p)' /\ ReaderHonest(p)'
  BY <1>3, <1>9 DEF SenderHonest, Sends, ReaderHonest
<1>11. EndHonest(p)'
  <2>1. /\ proc[p].inv.verb = "read-file" /\ proc[p].link \in 1 .. Len(files)
    BY <1>1, <1>2 DEF ReaderHonest
  <2>2. Contents(p)' = content
    BY <1>3, <1>5, <1>9 DEF Contents
  <2> QED BY <1>3, <1>4, <1>7, <1>8, <1>9, <2>1, <2>2 DEF EndHonest, Ended, Printed, Senders
<1>12. ASSUME NEW y \in Paths, disk[y] # "none"
       PROVE  /\ disk'[y] # "none"
              /\ disk'[y] \in {disk[y], "part"} \/ (Ended(p, 0)' /\ new.inv.out = y)
  <2>1. CASE y # x
    BY <1>7, <1>12, <2>1
  <2>2. CASE y = x
    <3>1. proc[p].inv.out # NoPath
      BY <1>1, <1>4, <1>12, <2>2 DEF MayWrite
    <3>2. proc[p].name = proc[p].inv.out
      BY <1>1, <1>2, <3>1 DEF ReaderHonest
    <3> QED BY <1>3, <1>4, <1>7, <1>8, <1>9, <2>2, <3>2 DEF Ended
  <2> QED BY <2>1, <2>2
<1>13. ServiceGrows /\ proc[p].step # "exited"
  BY <1>1, ServiceRests
<1> QED BY <1>1, <1>3, <1>7, <1>10, <1>11, <1>12, <1>13, Moves

LEMMA StepNextName ==
    ASSUME CommandInv, NEW p \in Processes, NextName(p)
    PROVE  CommandInv'
<1>1. /\ proc[p].step = "writing" /\ proc[p].name # NoPath /\ ~ MayWrite(p)
      /\ UNCHANGED <<disk, late, serviceVars>>
  BY DEF NextName
<1>2. proc[p] \in Processing /\ ReaderHonest(p)
  BY TypesUnfolded
<1>3. proc[p].name \in Paths /\ proc[p].name + 1 \in Paths \cup {NoPath}
  <2>1. proc[p].name \in Paths
    BY <1>1, <1>2 DEF Processing
  <2> QED BY <2>1, Bounds
<1> DEFINE new == [proc[p] EXCEPT !.name = @ + 1]
<1>4. new \in Processing
  BY <1>2, <1>3 DEF Processing
<1>5. /\ new.step = "writing" /\ new.inv = proc[p].inv
      /\ new.link = proc[p].link /\ new.printed = proc[p].printed
      /\ new.index = proc[p].index
  BY <1>1, <1>2 DEF Processing
<1>6. Becomes(p, new)
  BY DEF NextName
<1> HIDE DEF new
<1>7. new.inv.verb = "read-file" /\ new.inv.out = NoPath
  BY <1>1, <1>2, <1>5 DEF ReaderHonest, MayWrite
<1>8. ServiceGrows
  BY <1>1, ServiceRests
<1> QED BY <1>1, <1>4, <1>5, <1>6, <1>7, <1>8, ReaderMoves

LEMMA StepWriteFails ==
    ASSUME CommandInv, NEW p \in Processes, WriteFails(p)
    PROVE  CommandInv'
<1>1. proc[p].step = "writing" /\ Exit(p, 1, "nothing") /\ UNCHANGED <<late, serviceVars>>
  BY DEF WriteFails
<1>2. disk \in [Paths -> {"none", "own", "part"} \cup Uploads]
  BY TypesUnfolded
<1>3. disk' = disk \/ disk' = [disk EXCEPT ![proc[p].name] = "part"]
  BY DEF WriteFails, Write
<1>4. disk' \in [Paths -> {"none", "own", "part"} \cup Uploads]
      /\ \A x \in Paths : disk'[x] \in {disk[x], "part"}
  BY <1>2, <1>3
<1>5. proc[p].step # "exited"
  BY <1>1
<1> QED BY <1>1, <1>4, <1>5, Fails

(* No process moves while the service grows.                               *)
LEMMA ServiceMoves ==
    ASSUME CommandInv, ServiceGrows, UNCHANGED <<proc, disk>>
    PROVE  CommandInv'
<1>1. ASSUME NEW q \in Processes PROVE SenderHonest(q)' /\ ReaderHonest(q)' /\ EndHonest(q)'
  <2>1. proc'[q] = proc[q] /\ \A w \in Processes : Ended(w, 0) => proc'[w] = proc[w]
    OBVIOUS
  <2>2. \A x \in Paths : disk[x] # "none" =>
            /\ disk'[x] # "none"
            /\ \/ disk'[x] \in {disk[x], "part"}
               \/ \E w \in Processes \ {q} : Ended(w, 0)' /\ proc'[w].inv.out = x
    OBVIOUS
  <2> QED BY <2>1, <2>2, OthersStay
<1>2. TypeOK'
  BY TypesUnfolded DEF TypeOK, ServiceGrows
<1> QED BY <1>1, <1>2 DEF CommandInv, ServiceGrows

(* A request is executed after its process gave it up.                     *)
LEMMA StepLateRequest ==
    ASSUME CommandInv, NEW q \in late, LateRequest(q)
    PROVE  CommandInv'
<1>1. q \in GivenUp /\ RequestHonest(q.request)
  BY TypesUnfolded DEF LateHonest
<1>2. PICK r \in Request : r = q.request
  BY <1>1 DEF GivenUp
<1>3. PICK views \in 0 .. MaxViews : views = q.views
  BY <1>1, FileServiceAssumption DEF GivenUp
<1>4. /\ Len(files) < MaxFiles /\ Serve(r, views) /\ UNCHANGED <<chunked, locked>>
      /\ late' \subseteq late /\ UNCHANGED <<proc, disk>> /\ RequestHonest(r)
  BY <1>1, <1>2, <1>3 DEF LateRequest
<1>5. PICK id : id = AnswerId(r)
  OBVIOUS
<1>6. ServiceGrows
  BY <1>4, <1>5, ServeGrows
<1> QED BY <1>4, <1>6, ServiceMoves

(* Someone else reads what was sent before.                                *)
LEMMA StepElsewhere ==
    ASSUME CommandInv, NEW f \in 1 .. Len(Given), SpentElsewhere(f),
           UNCHANGED <<proc, disk, late>>
    PROVE  CommandInv'
<1>1. /\ ServiceTypeOK /\ KnownFiles /\ Len(files) \in Nat /\ files \in Seq(File)
      /\ proc \in [Processes -> Processing]
      /\ disk \in [Paths -> {"none", "own", "part"} \cup Uploads]
  BY TypesUnfolded DEF ServiceTypeOK
<1>2. f \in 1 .. Len(files)
  BY <1>1, CommandLineAssumption, LenProperties DEF KnownFiles
<1>3. ServiceGrows
  <2>1. PICK v \in 0 .. files[f].left - 1 : files' = [files EXCEPT ![f].left = v]
    BY DEF SpentElsewhere
  <2>2. files[f] \in File
    BY <1>1, <1>2, ElementOfSeq
  <2>3. v \in 0 .. MaxViews
    BY <2>1, <2>2, FileServiceAssumption DEF File
  <2>4. UNCHANGED <<late, chunked, received, published, locked>>
    BY DEF SpentElsewhere
  <2> QED BY <1>2, <2>1, <2>3, <2>4, FilesSpend
<1> QED BY <1>3, ServiceMoves

------------------------------------------------------------------------------
LEMMA StepCommand == CommandInv /\ [Next]_vars => CommandInv'
<1> SUFFICES ASSUME CommandInv, [Next]_vars PROVE CommandInv'
  OBVIOUS
<1>1. CASE UNCHANGED vars
  <2>1. UNCHANGED <<late, serviceVars>> /\ UNCHANGED <<proc, disk>>
    BY <1>1 DEF vars
  <2>2. ServiceGrows
    BY <2>1, ServiceRests
  <2> QED BY <2>1, <2>2, ServiceMoves
<1>2. ASSUME NEW p \in Processes, NEW inv \in Invocations, NEW f \in Links \cup {Cut},
             Run(p, inv, f)
      PROVE  CommandInv'
  BY <1>2, StepRun
<1>3. ASSUME NEW p \in Processes, Step(p) PROVE CommandInv'
  <2>1. CASE ReadSource(p) BY <2>1, StepReadSource
  <2>2. CASE Saved(p) BY <2>2, StepSaved
  <2>3. CASE NotSaved(p) BY <2>3, StepNotSaved
  <2>4. CASE Wait(p) BY <2>4, StepWait
  <2>5. CASE SendAgain(p) BY <2>5, StepSendAgain
  <2>6. CASE SendFails(p) BY <2>6, StepSendFails
  <2>7. CASE NextSlice(p) BY <2>7, StepNextSlice
  <2>8. CASE PrintLink(p) BY <2>8, StepPrintLink
  <2>9. CASE StatOut(p) BY <2>9, StepStatOut
  <2>10. CASE ReadAnswered(p) BY <2>10, StepReadAnswered
  <2>11. CASE ReadFails(p) BY <2>11, StepReadFails
  <2>12. CASE ReadDecrypted(p) BY <2>12, StepReadDecrypted
  <2>13. CASE WriteFile(p) BY <2>13, StepWriteFile
  <2>14. CASE NextName(p) BY <2>14, StepNextName
  <2>15. CASE WriteFails(p) BY <2>15, StepWriteFails
  <2>16. CASE resolveSecret(p) BY <2>16, StepResolveSecret
  <2> QED BY <1>3, <2>1, <2>2, <2>3, <2>4, <2>5, <2>6, <2>7, <2>8, <2>9, <2>10, <2>11,
             <2>12, <2>13, <2>14, <2>15, <2>16 DEF Step
<1>4. ASSUME NEW f \in 1 .. Len(Given), SpentElsewhere(f), UNCHANGED <<proc, disk, late>>
      PROVE  CommandInv'
  BY <1>4, StepElsewhere
<1>5. ASSUME NEW q \in late, LateRequest(q) PROVE CommandInv'
  BY <1>5, StepLateRequest
<1> QED BY <1>1, <1>2, <1>3, <1>4, <1>5 DEF Next

(* The inductive invariant of the command-line client.                     *)
THEOREM CommandInvariant == Spec => []CommandInv
<1>1. Init => CommandInv
  BY InitCommand
<1>2. CommandInv /\ [Next]_vars => CommandInv'
  BY StepCommand
<1> QED BY <1>1, <1>2, PTL DEF Spec

(* Every process, every file and the directory stay in their types: no     *)
(* attempt, slice or file name leaves its range.                           *)
THEOREM CommandTypesHold == Spec => []TypeOK
<1>1. CommandInv => TypeOK
  BY DEF CommandInv
<1> QED BY <1>1, CommandInvariant, PTL

(* A script that sees exit code 0 has its link, to all of what it sent and *)
(* at the host it named, or its whole file on disk; any other code leaves  *)
(* stdout empty.                                                           *)
THEOREM ExitCodesAreTrue == Spec => []ExitCodeIsTrue
<1>1. CommandInv => ExitCodeIsTrue
  <2> SUFFICES ASSUME CommandInv, NEW p \in Processes
               PROVE  /\ Ended(p, 0) /\ proc[p].inv.verb \in Senders =>
                            /\ Printed(p)
                            /\ files[proc[p].id].whole /\ files[proc[p].id].upload = p
                            /\ proc[p].asked = OriginOfUpload(p)
                      /\ Ended(p, 0) /\ proc[p].inv.verb = "read-file" =>
                            /\ proc[p].printed = "path"
                            /\ disk[proc[p].name] = Contents(p) \/ OverwrittenByOut(p)
                      /\ Ended(p, 1) => proc[p].printed = "nothing"
    BY DEF ExitCodeIsTrue
  <2>1. EndHonest(p)
    BY TypesUnfolded
  <2>2. OriginOfUpload(p) = normalizeOrigin(proc[p].inv.host)
    BY DEF OriginOfUpload
  <2> QED BY <2>1, <2>2 DEF EndHonest, Names
<1> QED BY <1>1, CommandInvariant, PTL

(* The service takes the views and the lifetime that this client lets pass *)
(* as they were typed.                                                     *)
THEOREM SettingsStayAsTyped == Spec => []SettingsAreTaken
<1>1. CommandInv => SettingsAreTaken
  <2> SUFFICES ASSUME CommandInv, NEW p \in Processes, proc[p].step = "sending"
               PROVE  /\ Server!ClampViews(viewsOf(proc[p].inv)) = viewsOf(proc[p].inv)
                      /\ Server!ClampDuration(expiresIn(proc[p].inv)) = expiresIn(proc[p].inv)
    BY DEF SettingsAreTaken
  <2>1. proc[p] \in Processing /\ SenderHonest(p)
    BY TypesUnfolded
  <2>2. PICK inv \in Invocation : inv = proc[p].inv
    BY <2>1, CommandLineAssumption DEF Processing
  <2>3. ExpiresAccepted(inv) /\ ViewsAccepted(inv)
    BY <2>1, <2>2 DEF SenderHonest, Sends
  <2>4. PICK d \in Nat : d = expiresIn(inv)
    <3>1. inv.days \in Nat \cup {NotTyped} /\ inv.hours \in Nat \cup {NotTyped}
      BY <2>3 DEF ExpiresAccepted, Invocation, Typed
    <3>2. \A n \in Nat : n * Day \in Nat /\ n * Hour \in Nat
      BY DEF Day, Hour
    <3>3. Day \in Nat
      BY DEF Day, Hour
    <3> QED BY <3>1, <3>2, <3>3 DEF expiresIn
  <2>5. d > 0 /\ d <= 30 * Day
    BY <2>3, <2>4 DEF ExpiresAccepted
  <2>6. Server!ClampDuration(d) = d
    BY <2>5 DEF Server!ClampDuration, Day, Hour
  <2>7. Server!ClampViews(viewsOf(inv)) = viewsOf(inv)
    BY <2>3 DEF Server!ClampViews, ViewsAccepted
  <2> QED BY <2>2, <2>4, <2>6, <2>7
<1> QED BY <1>1, CommandInvariant, PTL

(* A file of the user, or of another process, is never written over by a   *)
(* read-file that was not told to.                                         *)
THEOREM NamesAreKept == Spec => FilesAreKept
<1> DEFINE Kept == \A x \in Paths : disk[x] # "none" /\ disk'[x] # disk[x] =>
                       \E p \in Processes : proc[p].step = "writing" /\ proc[p].inv.out = x
<1>1. CommandInv /\ [Next]_vars => [Kept]_vars
  <2> SUFFICES ASSUME CommandInv, Next,
                      NEW x \in Paths, disk[x] # "none", disk'[x] # disk[x]
               PROVE  \E p \in Processes : proc[p].step = "writing" /\ proc[p].inv.out = x
    OBVIOUS
  <2>1. PICK p \in Processes : WriteFile(p) \/ WriteFails(p)
    BY DEF Next, Step, Run, LateRequest, resolveSecret, ReadSource, Saved, NotSaved, Wait, SendAgain, SendFails,
           NextSlice, PrintLink, StatOut, ReadAnswered, ReadFails, ReadDecrypted, NextName
  <2>2. proc[p].step = "writing" /\ ReaderHonest(p) /\ disk' # disk
        /\ disk \in [Paths -> {"none", "own", "part"} \cup Uploads]
    BY <2>1, TypesUnfolded DEF WriteFile, WriteFails
  <2>3. /\ MayWrite(p)
        /\ \E content : disk' = [disk EXCEPT ![proc[p].name] = content]
    BY <2>1, <2>2 DEF WriteFile, WriteFails, Write
  <2>4. x = proc[p].name
    BY <2>2, <2>3
  <2>5. proc[p].inv.out # NoPath
    BY <2>3, <2>4 DEF MayWrite
  <2>6. proc[p].inv.out = x
    BY <2>2, <2>4, <2>5 DEF ReaderHonest
  <2> QED BY <2>2, <2>6
<1> HIDE DEF Kept
<1>2. Spec => [][Kept]_vars
  BY <1>1, CommandInvariant, PTL DEF Spec
<1> QED BY <1>2 DEF Kept, FilesAreKept
====
