-------------------------- MODULE FileExchangeProofs --------------------------
(***************************************************************************)
(* Proofs about files from page to page, for any uploads, tabs, slices and *)
(* bounds.                                                                 *)
(***************************************************************************)
EXTENDS FileExchange, SequenceTheorems, TLAPS

UploadRecord ==
    [state : UploadStates, index : 0 .. Slices - 1, whole : BOOLEAN,
     attempt : 0 .. MaxAttempts - 1,
     net : {"idle", "out", "ok", "refused", "failed"}, id : 0 .. MaxFiles]

TabRecord ==
    [state : {"closed", "ready", "error", "gone", "program", "downloaded", "broken"} \cup Busy,
     file : 0 .. MaxFiles, prompt : BOOLEAN, typed : BOOLEAN, attempt : 0 .. 1,
     net : {"idle", "out", "ok", "damaged", "wrong key", "no message", "retry", "failed"}]

(* The file a request came from has an id of this service.                 *)
Names(id, u) == id \in 1 .. Len(files) /\ files[id].upload = u

(* The service publishes an upload once, when all of its slices are there, *)
(* and a service of slices has no other file of it.                        *)
PublishedInv ==
    /\ \A u \in Uploads : published[u] # 0 =>
          /\ chunked
          /\ Names(published[u], u)
          /\ files[published[u]].whole
    /\ chunked => \A i \in 1 .. Len(files) : published[files[i].upload] = i

(* What a request says of the slices before it: all of them are stored.    *)
InOrder(q) ==
    chunked => ~ q.whole /\ 0 .. q.index - 1 \subseteq received[q.upload]

(* Where an upload is, and what it was answered: nothing before its last   *)
(* slice, unless the service takes every slice for a file.                 *)
UploadHonest(u) ==
    /\ up[u].state = "sending" <=> up[u].net # "idle"
    /\ up[u].id # 0 =>
          /\ up[u].net = "ok" \/ up[u].state \in {"made", "shown"}
          /\ Names(up[u].id, u)
    /\ up[u].state \in {"made", "shown"} => up[u].id # 0 /\ files[up[u].id].whole
    /\ InOrder(RequestOf(u))
    /\ ~ chunked => up[u].index = 0
    /\ up[u].net = "ok" =>
          IF Early(u)
          THEN IF chunked THEN up[u].id = 0 /\ up[u].index \in received[u] ELSE up[u].id # 0
          ELSE up[u].id # 0 /\ files[up[u].id].whole

(* A tab that had a view taken by its click has not been answered anything *)
(* but the file, and what was answered "no message" is spent for good.     *)
TabHonest(t) ==
    /\ tab[t].state \notin {"closed", "broken"} => tab[t].file \in 1 .. Len(files)
    /\ tab[t].net # "idle" => tab[t].state \in {"downloading", "decrypting"}
    /\ tab[t].net \in {"out", "wrong key", "no message", "retry"} =>
          tab[t].state = "downloading" /\ spent[t] = 0
    /\ tab[t].state \in {"closed", "ready", "pausing", "gone", "broken"} => spent[t] = 0
    /\ spent[t] <= 1
    /\ tab[t].net = "no message" \/ tab[t].state = "gone" => files[tab[t].file].left = 0

ExchangeInv ==
    /\ TypeOK
    /\ PublishedInv
    /\ \A u \in Uploads : UploadHonest(u)
    /\ \A q \in late : InOrder(q)
    /\ \A t \in Tabs : TabHonest(t)
------------------------------------------------------------------------------
(* What every step leaves of the files: whose they are and whether they    *)
(* are whole, and that none comes back.                                    *)
FilesGrow ==
    /\ Len(files) <= Len(files')
    /\ \A i \in 1 .. Len(files) :
          /\ files'[i].upload = files[i].upload
          /\ files'[i].whole = files[i].whole
          /\ files[i].left = 0 => files'[i].left = 0

ServiceGrows ==
    /\ ServiceTypeOK'
    /\ FilesGrow
    /\ UNCHANGED chunked
    /\ \A u \in Uploads : received[u] \subseteq received'[u]

(* The type invariant, with its records named.                             *)
LEMMA TypeUnfolded ==
    TypeOK <=>
        /\ ServiceTypeOK
        /\ chosen \in [file : BOOLEAN, enabled : BOOLEAN]
        /\ up \in [Uploads -> UploadRecord]
        /\ late \subseteq Request
        /\ onPage \in Uploads \cup {Form}
        /\ tab \in [Tabs -> TabRecord]
        /\ spent \in [Tabs -> Nat]
BY DEF TypeOK, UploadTypeOK, DownloadTypeOK, UploadRecord, TabRecord

LEMMA NoUploadIsUpload == NoUpload \in UploadRecord
BY FileServiceAssumption, UploadPageAssumption DEF NoUpload, UploadRecord, UploadStates

LEMMA ClosedIsTab == Closed \in TabRecord
BY FileServiceAssumption DEF Closed, TabRecord, Busy

LEMMA SameFilesGrow ==
    ASSUME ServiceTypeOK, files' = files
    PROVE  FilesGrow
<1>1. Len(files) \in Nat
  BY LenProperties DEF ServiceTypeOK
<1> QED BY <1>1 DEF FilesGrow

(* What is known of an upload, a request and a tab stays true while the    *)
(* service goes on and they stand still.                                   *)
LEMMA OthersStay ==
    ASSUME ExchangeInv, ServiceGrows
    PROVE  /\ \A u \in Uploads : up'[u] = up[u] => UploadHonest(u)'
           /\ \A q \in Request : InOrder(q) => InOrder(q)'
           /\ \A t \in Tabs :
                 tab'[t] = tab[t] /\ spent'[t] = spent[t] => TabHonest(t)'
<1>1. ServiceTypeOK /\ up \in [Uploads -> UploadRecord] /\ tab \in [Tabs -> TabRecord]
  BY TypeUnfolded DEF ExchangeInv
<1>2. Len(files) \in Nat /\ Len(files') \in Nat
  BY <1>1, LenProperties DEF ServiceTypeOK, ServiceGrows
<1>3. ASSUME NEW i \in 1 .. Len(files) PROVE i \in 1 .. Len(files')
  BY <1>2 DEF ServiceGrows, FilesGrow
<1>4. ASSUME NEW q \in Request, InOrder(q) PROVE InOrder(q)'
  BY <1>4 DEF Request, InOrder, ServiceGrows
<1>5. ASSUME NEW u \in Uploads, up'[u] = up[u] PROVE UploadHonest(u)'
  <2>1. UploadHonest(u) /\ up[u] \in UploadRecord
    BY <1>1 DEF ExchangeInv
  <2>2. RequestOf(u) \in Request /\ InOrder(RequestOf(u)) /\ RequestOf(u)' = RequestOf(u)
    BY <1>5, <2>1 DEF UploadHonest, RequestOf, Request, UploadRecord
  <2>3. PICK q \in Request : q = RequestOf(u)
    BY <2>2
  <2>4. InOrder(q)'
    BY <1>4, <2>2, <2>3
  <2>5. InOrder(RequestOf(u))'
    BY <1>5, <2>2, <2>3, <2>4 DEF InOrder
  <2>6. ASSUME NEW id \in 1 .. Len(files), Names(id, u)
        PROVE  Names(id, u)' /\ files'[id].whole = files[id].whole
    BY <1>3, <2>6 DEF Names, ServiceGrows, FilesGrow
  <2> QED
    BY <1>5, <2>1, <2>5, <2>6 DEF UploadHonest, Early, ServiceGrows, Names
<1>6. ASSUME NEW t \in Tabs, tab'[t] = tab[t], spent'[t] = spent[t] PROVE TabHonest(t)'
  <2>1. TabHonest(t)
    BY DEF ExchangeInv
  <2>2. tab[t].net = "no message" \/ tab[t].state = "gone" => tab[t].file \in 1 .. Len(files)
    BY <2>1 DEF TabHonest
  <2> QED
    BY <1>3, <1>6, <2>1, <2>2 DEF TabHonest, ServiceGrows, FilesGrow
<1> QED BY <1>4, <1>5, <1>6

(* The files are still whose they were published for.                      *)
LEMMA PublishedStays ==
    ASSUME ExchangeInv, ServiceGrows, UNCHANGED published, Len(files') = Len(files)
    PROVE  PublishedInv'
<1>1. \A i \in 1 .. Len(files) :
          /\ files'[i].upload = files[i].upload
          /\ files'[i].whole = files[i].whole
  BY DEF ServiceGrows, FilesGrow
<1> QED
  BY <1>1 DEF ExchangeInv, PublishedInv, Names, ServiceGrows

(* A step of one upload's own keeps the invariant, whatever happened to    *)
(* the page around it, when the upload is honest after it.                 *)
LEMMA UploadMoves ==
    ASSUME ExchangeInv, NEW u \in Uploads, NEW new \in UploadRecord,
           up' = [up EXCEPT ![u] = new],
           UNCHANGED downloadVars, UNCHANGED serviceVars,
           chosen' \in [file : BOOLEAN, enabled : BOOLEAN],
           onPage' \in Uploads \cup {Form},
           late' \in {late, late \cup {RequestOf(u)}},
           UploadHonest(u)'
    PROVE  ExchangeInv'
<1>1. ServiceTypeOK /\ up \in [Uploads -> UploadRecord]
  BY TypeUnfolded DEF ExchangeInv
<1>2. ServiceTypeOK'
  BY <1>1 DEF ServiceTypeOK, serviceVars
<1>3. Len(files) \in Nat
  BY <1>1, LenProperties DEF ServiceTypeOK
<1>4. ServiceGrows
  BY <1>2, <1>3 DEF ServiceGrows, FilesGrow, serviceVars
<1>5. PublishedInv'
  BY <1>4, PublishedStays DEF serviceVars
<1>6. \A v \in Uploads : UploadHonest(v)'
  BY <1>1, <1>4, OthersStay
<1>7. RequestOf(u) \in Request /\ InOrder(RequestOf(u))
  BY <1>1 DEF ExchangeInv, UploadHonest, RequestOf, Request, UploadRecord
<1>8. late \subseteq Request
  BY TypeUnfolded DEF ExchangeInv
<1>9. late' \subseteq Request
  BY <1>7, <1>8
<1>10. \A q \in late' : InOrder(q)
  BY <1>7 DEF ExchangeInv
<1>11. \A q \in late' : InOrder(q)'
  BY <1>4, <1>9, <1>10, OthersStay
<1>12. \A t \in Tabs : TabHonest(t)'
  BY <1>4, OthersStay DEF downloadVars
<1>13. TypeOK'
  BY <1>1, <1>2, <1>9, TypeUnfolded
     DEF ExchangeInv, TypeOK, UploadTypeOK, DownloadTypeOK, UploadRecord, downloadVars
<1> QED BY <1>5, <1>6, <1>11, <1>12, <1>13 DEF ExchangeInv

(* The same of a tab, whose click may take a view of a file.               *)
LEMMA TabMoves ==
    ASSUME ExchangeInv, NEW t \in Tabs, NEW new \in TabRecord, NEW views \in Nat,
           tab' = [tab EXCEPT ![t] = new],
           spent' = [spent EXCEPT ![t] = views],
           UNCHANGED uploadVars, UNCHANGED <<chunked, received, published, locked>>,
           ServiceGrows, Len(files') = Len(files),
           TabHonest(t)'
    PROVE  ExchangeInv'
<1>1. ServiceTypeOK /\ tab \in [Tabs -> TabRecord] /\ spent \in [Tabs -> Nat]
  BY TypeUnfolded DEF ExchangeInv
<1>2. tab' \in [Tabs -> TabRecord] /\ spent' \in [Tabs -> Nat]
  BY <1>1
<1>3. TypeOK'
  BY <1>2, TypeUnfolded
     DEF ExchangeInv, TypeOK, UploadTypeOK, DownloadTypeOK, TabRecord, uploadVars, ServiceGrows
<1>4. PublishedInv'
  BY PublishedStays
<1>5. \A u \in Uploads : UploadHonest(u)'
  BY OthersStay DEF uploadVars
<1>6. \A q \in late' : InOrder(q)'
  <2>1. late' = late /\ late \subseteq Request
    BY TypeUnfolded DEF ExchangeInv, uploadVars
  <2> QED BY <2>1, OthersStay DEF ExchangeInv
<1>7. \A w \in Tabs : TabHonest(w)'
  BY <1>1, OthersStay
<1> QED BY <1>3, <1>4, <1>5, <1>6, <1>7 DEF ExchangeInv

------------------------------------------------------------------------------
(* Serving a request: the files grow by one at most, a service of slices   *)
(* publishes an upload once, and the id in the answer is that of a file of *)
(* the upload, whole where the slices before were stored.                  *)
LEMMA ServeAppends ==
    ASSUME ExchangeInv, NEW u \in Uploads, NEW whole \in BOOLEAN, NEW views \in 1 .. MaxViews,
           Len(files) < MaxFiles,
           files' = NewFile(u, whole, views)
    PROVE  /\ files' \in Seq(File)
           /\ Len(files') = Len(files) + 1
           /\ Len(files') <= MaxFiles
           /\ \A i \in 1 .. Len(files) : files'[i] = files[i]
           /\ files'[Len(files) + 1] = [upload |-> u, whole |-> whole, left |-> views]
           /\ FilesGrow
<1>1. files \in Seq(File) /\ Len(files) \in Nat
  BY TypeUnfolded, LenProperties DEF ExchangeInv, ServiceTypeOK
<1> DEFINE file == [upload |-> u, whole |-> whole, left |-> views]
<1>2. file \in File
  BY FileServiceAssumption DEF File
<1>3. files' = Append(files, file)
  BY DEF NewFile
<1> HIDE DEF file
<1>4. /\ files' \in Seq(File)
      /\ Len(files') = Len(files) + 1
      /\ \A i \in 1 .. Len(files) : files'[i] = files[i]
      /\ files'[Len(files) + 1] = file
  BY <1>1, <1>2, <1>3, AppendProperties
<1>5. Len(files') <= MaxFiles
  BY <1>1, <1>4, FileServiceAssumption
<1>6. FilesGrow
  BY <1>1, <1>4 DEF FilesGrow
<1> QED BY <1>4, <1>5, <1>6 DEF file

(* A request that stands for a file of its own.                            *)
LEMMA ServeSingle ==
    ASSUME ExchangeInv, NEW q \in Request, NEW views \in 1 .. MaxViews,
           InOrder(q), Single(q),
           Len(files) < MaxFiles, Serve(q, views), UNCHANGED <<chunked, locked>>
    PROVE  /\ ServiceGrows /\ PublishedInv'
           /\ ~ chunked
           /\ AnswerId(q) \in 1 .. MaxFiles
           /\ AnswerId(q) \in 1 .. Len(files')
           /\ files'[AnswerId(q)].upload = q.upload
           /\ q.whole \/ Slices = 1 => files'[AnswerId(q)].whole
<1>1. ServiceTypeOK /\ Len(files) \in Nat /\ PublishedInv
  BY TypeUnfolded, LenProperties DEF ExchangeInv, ServiceTypeOK
<1>2. ~ chunked
  BY DEF Single, InOrder
<1> DEFINE whole == q.whole \/ Slices = 1
<1>3. /\ files' = NewFile(q.upload, whole, views)
      /\ UNCHANGED <<received, published>>
  BY DEF Serve
<1>4. q.upload \in Uploads /\ whole \in BOOLEAN
  BY DEF Request
<1> HIDE DEF whole
<1>5. /\ files' \in Seq(File)
      /\ Len(files') = Len(files) + 1
      /\ Len(files') <= MaxFiles
      /\ \A i \in 1 .. Len(files) : files'[i] = files[i]
      /\ files'[Len(files) + 1] = [upload |-> q.upload, whole |-> whole, left |-> views]
      /\ FilesGrow
  BY <1>3, <1>4, ServeAppends
<1>6. ServiceGrows
  <2>1. ServiceTypeOK'
    BY <1>1, <1>3, <1>5 DEF ServiceTypeOK
  <2> QED BY <1>3, <1>5, <2>1 DEF ServiceGrows
<1>7. PublishedInv'
  BY <1>1, <1>2, <1>3 DEF PublishedInv
<1>8. AnswerId(q) = Len(files) + 1
  BY DEF AnswerId
<1>9. AnswerId(q) \in 1 .. MaxFiles /\ AnswerId(q) \in 1 .. Len(files')
  BY <1>1, <1>5, <1>8, FileServiceAssumption
<1>10. PICK id \in 1 .. MaxFiles : id = AnswerId(q) /\ id = Len(files) + 1
  BY <1>8, <1>9
<1>11. files'[id].upload = q.upload /\ (whole => files'[id].whole)
  BY <1>5, <1>10
<1> QED BY <1>2, <1>6, <1>7, <1>9, <1>10, <1>11 DEF whole

(* A slice of an upload, taken by a service that knows slices.             *)
LEMMA ServeSlice ==
    ASSUME ExchangeInv, NEW q \in Request, NEW views \in 1 .. MaxViews,
           InOrder(q), ~ Single(q),
           Len(files) < MaxFiles, Serve(q, views), UNCHANGED <<chunked, locked>>
    PROVE  /\ ServiceGrows /\ PublishedInv'
           /\ chunked /\ q.index \in received'[q.upload]
           /\ IF IsLast(q)
              THEN /\ AnswerId(q) \in 1 .. MaxFiles
                   /\ AnswerId(q) \in 1 .. Len(files')
                   /\ files'[AnswerId(q)].upload = q.upload
                   /\ files'[AnswerId(q)].whole
              ELSE AnswerId(q) = 0
<1> DEFINE u == q.upload
<1>1. ServiceTypeOK /\ Len(files) \in Nat /\ PublishedInv
  BY TypeUnfolded, LenProperties DEF ExchangeInv, ServiceTypeOK
<1>2. u \in Uploads /\ q.index \in 0 .. Slices - 1 /\ chunked
  BY DEF Request, Single
<1>3. 0 .. q.index - 1 \subseteq received[u]
  BY <1>2 DEF InOrder
<1>4. received' = [received EXCEPT ![u] = @ \cup {q.index}]
  BY DEF Serve
<1>5. /\ received' \in [Uploads -> SUBSET (0 .. Slices - 1)]
      /\ received'[u] = received[u] \cup {q.index}
      /\ \A v \in Uploads : received[v] \subseteq received'[v]
  <2>1. received \in [Uploads -> SUBSET (0 .. Slices - 1)]
    BY <1>1 DEF ServiceTypeOK
  <2> DEFINE new == received[u] \cup {q.index}
  <2>2. new \in SUBSET (0 .. Slices - 1) /\ received[u] \subseteq new
    BY <1>2, <2>1
  <2>3. received' = [received EXCEPT ![u] = new]
    BY <1>4
  <2> HIDE DEF new
  <2>4. received'[u] = new /\ received' \in [Uploads -> SUBSET (0 .. Slices - 1)]
    BY <1>2, <2>1, <2>2, <2>3
  <2>5. \A v \in Uploads : received[v] \subseteq received'[v]
    BY <1>2, <2>1, <2>2, <2>3
  <2> QED BY <2>4, <2>5 DEF new
<1>6. CASE IsLast(q) /\ published[u] = 0
  <2>1. received'[u] = 0 .. Slices - 1
    BY <1>1, <1>2, <1>3, <1>5, <1>6, FileServiceAssumption DEF IsLast, ServiceTypeOK
  <2>2. files' = NewFile(u, TRUE, views) /\ published' = [published EXCEPT ![u] = Len(files) + 1]
    BY <1>6, <2>1 DEF Serve
  <2>3. /\ files' \in Seq(File)
        /\ Len(files') = Len(files) + 1
        /\ Len(files') <= MaxFiles
        /\ \A i \in 1 .. Len(files) : files'[i] = files[i]
        /\ files'[Len(files) + 1] = [upload |-> u, whole |-> TRUE, left |-> views]
        /\ FilesGrow
    BY <1>2, <2>2, ServeAppends
  <2>4. Len(files) + 1 \in 1 .. MaxFiles /\ Len(files) + 1 \in 1 .. Len(files')
    BY <1>1, <2>3, FileServiceAssumption
  <2>5. published' \in [Uploads -> 0 .. MaxFiles]
    <3>1. published \in [Uploads -> 0 .. MaxFiles] /\ Len(files) + 1 \in 0 .. MaxFiles
      BY <1>1, <2>4 DEF ServiceTypeOK
    <3> QED BY <1>2, <2>2, <3>1
  <2>6. ServiceGrows
    <3>1. ServiceTypeOK'
      BY <1>1, <1>5, <2>3, <2>5 DEF ServiceTypeOK
    <3> QED BY <1>5, <2>3, <3>1 DEF ServiceGrows
  <2>7. PublishedInv'
    <3>1. published'[u] = Len(files) + 1 /\ \A v \in Uploads \ {u} : published'[v] = published[v]
      BY <1>1, <1>2, <2>2 DEF ServiceTypeOK
    <3>2. ASSUME NEW v \in Uploads, published'[v] # 0
          PROVE  Names(published[v], v)' /\ files'[published'[v]].whole
      <4>1. CASE v = u
        BY <2>3, <2>4, <3>1, <4>1 DEF Names
      <4>2. CASE v # u
        <5>1. Names(published[v], v) /\ files[published[v]].whole /\ published'[v] = published[v]
          BY <1>1, <3>1, <3>2, <4>2 DEF PublishedInv
        <5> QED BY <1>1, <2>3, <5>1 DEF Names
      <4> QED BY <4>1, <4>2
    <3>3. ASSUME NEW i \in 1 .. Len(files') PROVE published'[files'[i].upload] = i
      <4>1. CASE i = Len(files) + 1
        BY <2>3, <3>1, <4>1
      <4>2. CASE i # Len(files) + 1
        <5>1. i \in 1 .. Len(files)
          BY <1>1, <2>3, <4>2
        <5>2. files'[i] = files[i] /\ files[i].upload \in Uploads
          <6>1. files \in Seq(File)
            BY <1>1 DEF ServiceTypeOK
          <6>2. files[i] \in File
            BY <5>1, <6>1, ElementOfSeq
          <6> QED BY <2>3, <5>1, <6>2 DEF File
        <5>3. published[files[i].upload] = i
          BY <1>1, <1>2, <5>1 DEF PublishedInv
        <5>4. files[i].upload # u
          BY <1>6, <5>1, <5>3
        <5> QED BY <3>1, <5>2, <5>3, <5>4
      <4> QED BY <4>1, <4>2
    <3> QED BY <1>2, <3>2, <3>3 DEF PublishedInv
  <2>8. AnswerId(q) = Len(files) + 1
    BY <1>6 DEF AnswerId
  <2> QED BY <1>2, <1>5, <1>6, <2>3, <2>4, <2>6, <2>7, <2>8
<1>7. CASE ~ (IsLast(q) /\ published[u] = 0)
  <2>1. UNCHANGED <<files, published>>
    BY <1>7 DEF Serve
  <2>2. ServiceGrows
    <3>1. ServiceTypeOK'
      BY <1>1, <1>5, <2>1 DEF ServiceTypeOK
    <3> QED BY <1>1, <1>5, <2>1, <3>1 DEF ServiceGrows, FilesGrow
  <2>3. PublishedInv'
    BY <2>1, <2>2, PublishedStays
  <2>4. IsLast(q) => AnswerId(q) = published[u] /\ published[u] # 0
    BY <1>7 DEF AnswerId
  <2>5. ~ IsLast(q) => AnswerId(q) = 0
    BY DEF AnswerId
  <2>6. published[u] # 0 =>
           /\ published[u] \in 1 .. MaxFiles /\ published[u] \in 1 .. Len(files)
           /\ files[published[u]].upload = u /\ files[published[u]].whole
    BY <1>1, <1>2, FileServiceAssumption DEF PublishedInv, Names, ServiceTypeOK
  <2> QED BY <1>2, <1>5, <2>1, <2>2, <2>3, <2>4, <2>5, <2>6
<1> QED BY <1>6, <1>7

(* Both together: what an upload may rely on when its request was served.  *)
LEMMA Served ==
    ASSUME ExchangeInv, NEW q \in Request, NEW views \in 1 .. MaxViews,
           InOrder(q),
           Len(files) < MaxFiles, Serve(q, views), UNCHANGED <<chunked, locked>>
    PROVE  /\ ServiceGrows /\ PublishedInv'
           /\ AnswerId(q) \in 0 .. MaxFiles
           /\ AnswerId(q) # 0 =>
                 AnswerId(q) \in 1 .. Len(files') /\ files'[AnswerId(q)].upload = q.upload
           /\ IF chunked THEN /\ q.index \in received'[q.upload]
                              /\ IF IsLast(q) THEN AnswerId(q) # 0 /\ files'[AnswerId(q)].whole
                                              ELSE AnswerId(q) = 0
              ELSE /\ AnswerId(q) # 0
                   /\ q.whole \/ Slices = 1 => files'[AnswerId(q)].whole
<1>1. CASE Single(q)
  BY <1>1, ServeSingle, FileServiceAssumption
<1>2. CASE ~ Single(q)
  BY <1>2, ServeSlice, FileServiceAssumption
<1> QED BY <1>1, <1>2

(* A view taken of a file leaves the files what they are.                  *)
LEMMA LeftFalls ==
    ASSUME ExchangeInv, NEW f \in 1 .. Len(files), NEW v \in 0 .. MaxViews,
           files[f].left > 0,
           files' = [files EXCEPT ![f].left = v],
           UNCHANGED <<chunked, received, published, locked>>
    PROVE  ServiceGrows /\ Len(files') = Len(files)
<1>1. ServiceTypeOK /\ files \in Seq(File) /\ Len(files) \in Nat
  BY TypeUnfolded, LenProperties DEF ExchangeInv, ServiceTypeOK
<1>2. files[f] \in File
  BY <1>1, ElementOfSeq
<1> DEFINE file == [files[f] EXCEPT !.left = v]
<1>3. file \in File
  BY <1>2 DEF File
<1>4. file.upload = files[f].upload /\ file.whole = files[f].whole
  BY <1>2 DEF File
<1>5. files' = [files EXCEPT ![f] = file]
  OBVIOUS
<1> HIDE DEF file
<1>6. /\ files' \in Seq(File) /\ Len(files') = Len(files)
      /\ \A i \in 1 .. Len(files) : files'[i] = IF i = f THEN file ELSE files[i]
  BY <1>1, <1>3, <1>5, ExceptSeq
<1>7. ServiceTypeOK'
  BY <1>1, <1>6 DEF ServiceTypeOK
<1>8. FilesGrow
  <2>1. ASSUME NEW i \in 1 .. Len(files)
        PROVE  /\ files'[i].upload = files[i].upload
               /\ files'[i].whole = files[i].whole
               /\ files[i].left = 0 => files'[i].left = 0
    <3>1. CASE i = f
      BY <1>2, <1>4, <1>6, <3>1 DEF File
    <3>2. CASE i # f
      BY <1>6, <3>2
    <3> QED BY <3>1, <3>2
  <2> QED BY <1>1, <1>6, <2>1 DEF FilesGrow
<1> QED BY <1>6, <1>7, <1>8 DEF ServiceGrows
------------------------------------------------------------------------------
LEMMA InitInv == Init => ExchangeInv
<1> SUFFICES ASSUME Init PROVE ExchangeInv
  OBVIOUS
<1>1. files = <<>> /\ Len(files) = 0 /\ files \in Seq(File)
  BY DEF Init, ServiceInit
<1>2. ServiceTypeOK
  BY <1>1, FileServiceAssumption DEF Init, ServiceInit, ServiceTypeOK
<1>3. TypeOK
  <2>1. up \in [Uploads -> UploadRecord]
    BY NoUploadIsUpload DEF Init, UploadInit
  <2>2. tab \in [Tabs -> TabRecord]
    BY ClosedIsTab DEF Init, DownloadInit
  <2> QED BY <1>2, <2>1, <2>2, TypeUnfolded DEF Init, UploadInit, DownloadInit
<1>4. PublishedInv
  BY <1>1 DEF Init, ServiceInit, PublishedInv
<1>5. ASSUME NEW u \in Uploads PROVE UploadHonest(u)
  <2>1. up[u] = NoUpload
    BY DEF Init, UploadInit
  <2>2. InOrder(RequestOf(u))
    <3>1. RequestOf(u).index = 0 /\ RequestOf(u).whole = FALSE
      BY <2>1 DEF RequestOf, NoUpload
    <3>2. 0 .. RequestOf(u).index - 1 = {}
      BY <3>1
    <3> QED BY <3>1, <3>2 DEF InOrder
  <2> QED BY <2>1, <2>2 DEF UploadHonest, NoUpload
<1>6. late = {}
  BY DEF Init, UploadInit
<1>7. ASSUME NEW t \in Tabs PROVE TabHonest(t)
  <2>1. tab[t] = Closed /\ spent[t] = 0
    BY DEF Init, DownloadInit
  <2>2. tab[t].state = "closed" /\ tab[t].net = "idle"
    BY <2>1 DEF Closed
  <2> QED BY <2>1, <2>2 DEF TabHonest
<1> QED BY <1>3, <1>4, <1>5, <1>6, <1>7 DEF ExchangeInv

------------------------------------------------------------------------------
(* The upload page.                                                        *)

(* A request that goes out, and where the upload is then.                  *)
LEMMA SendKeeps ==
    ASSUME ExchangeInv, NEW u \in Uploads, NEW r \in UploadRecord, Send(u, r),
           r.id = 0, InOrder([upload |-> u, index |-> r.index, whole |-> r.whole]),
           ~ chunked => r.index = 0,
           UNCHANGED <<chosen, late, onPage, serviceVars>>, UNCHANGED downloadVars
    PROVE  ExchangeInv'
<1>1. up \in [Uploads -> UploadRecord] /\ chosen \in [file : BOOLEAN, enabled : BOOLEAN]
      /\ onPage \in Uploads \cup {Form}
  BY TypeUnfolded DEF ExchangeInv
<1> DEFINE new == [r EXCEPT !.state = "sending", !.net = "out"]
<1>2. new \in UploadRecord
  BY DEF UploadRecord, UploadStates
<1>3. /\ new.state = "sending" /\ new.net = "out"
      /\ new.id = r.id /\ new.index = r.index /\ new.whole = r.whole
  BY DEF UploadRecord
<1>4. up' = [up EXCEPT ![u] = new]
  BY DEF Send
<1> HIDE DEF new
<1>5. up'[u] = new
  BY <1>1, <1>4
<1>6. RequestOf(u)' = [upload |-> u, index |-> r.index, whole |-> r.whole]
  BY <1>3, <1>5 DEF RequestOf
<1>7. InOrder(RequestOf(u))'
  BY <1>6 DEF InOrder, serviceVars
<1>8. UploadHonest(u)'
  BY <1>3, <1>5, <1>7 DEF UploadHonest, serviceVars
<1>9. UNCHANGED serviceVars /\ chosen' \in [file : BOOLEAN, enabled : BOOLEAN]
      /\ onPage' \in Uploads \cup {Form} /\ late' \in {late, late \cup {RequestOf(u)}}
  BY <1>1
<1> QED BY <1>2, <1>4, <1>8, <1>9, UploadMoves

(* An upload between two requests, or before the first one.                *)
LEMMA QuietUpload ==
    ASSUME ExchangeInv, NEW u \in Uploads, NEW new \in UploadRecord,
           up' = [up EXCEPT ![u] = new],
           new.net \in {"idle", "refused", "failed"},
           new.net = "idle" <=> new.state # "sending",
           new.state \notin {"made", "shown"}, new.id = 0,
           \/ new.index = up[u].index /\ new.whole = up[u].whole
           \/ new.index = 0 /\ new.whole = FALSE,
           UNCHANGED downloadVars, UNCHANGED serviceVars,
           chosen' \in [file : BOOLEAN, enabled : BOOLEAN],
           onPage' \in Uploads \cup {Form},
           late' \in {late, late \cup {RequestOf(u)}}
    PROVE  ExchangeInv'
<1>1. up \in [Uploads -> UploadRecord] /\ UploadHonest(u)
  BY TypeUnfolded DEF ExchangeInv
<1>2. up'[u] = new
  BY <1>1
<1>3. InOrder(RequestOf(u))'
  <2>1. CASE new.index = up[u].index /\ new.whole = up[u].whole
    BY <1>1, <1>2, <2>1 DEF UploadHonest, InOrder, RequestOf, serviceVars
  <2>2. CASE new.index = 0 /\ new.whole = FALSE
    <3>1. 0 .. RequestOf(u)'.index - 1 = {}
      BY <1>2, <2>2 DEF RequestOf
    <3> QED BY <1>2, <2>2, <3>1 DEF InOrder, RequestOf
  <2> QED BY <2>1, <2>2
<1>4. ~ chunked' => new.index = 0
  BY <1>1 DEF UploadHonest, serviceVars
<1>5. UploadHonest(u)'
  BY <1>2, <1>3, <1>4 DEF UploadHonest
<1> QED BY <1>5, UploadMoves

LEMMA StepFail ==
    ASSUME ExchangeInv, NEW u \in Uploads, Fail(u), UNCHANGED downloadVars
    PROVE  ExchangeInv'
<1> DEFINE new == [NoUpload EXCEPT !.state = "failed"]
<1>1. new \in UploadRecord
  BY NoUploadIsUpload DEF UploadRecord, UploadStates
<1>2. new.net = "idle" /\ new.state = "failed" /\ new.id = 0
      /\ new.index = 0 /\ new.whole = FALSE
  BY DEF NoUpload
<1>3. up' = [up EXCEPT ![u] = new]
  BY DEF Fail
<1> HIDE DEF new
<1>4. UNCHANGED serviceVars /\ chosen' \in [file : BOOLEAN, enabled : BOOLEAN]
      /\ onPage' \in Uploads \cup {Form} /\ late' \in {late, late \cup {RequestOf(u)}}
  BY TypeUnfolded DEF ExchangeInv, Fail, updateSubmit
<1> QED BY <1>1, <1>2, <1>3, <1>4, QuietUpload

LEMMA StepSubmit ==
    ASSUME ExchangeInv, NEW u \in Uploads, NEW p \in BOOLEAN, SubmitFile(u, p),
           UNCHANGED downloadVars
    PROVE  ExchangeInv'
<1>1. /\ up \in [Uploads -> UploadRecord]
      /\ chosen \in [file : BOOLEAN, enabled : BOOLEAN]
      /\ ServiceTypeOK
  BY TypeUnfolded DEF ExchangeInv
<1> DEFINE new == [up[u] EXCEPT !.state = "encrypting"]
<1>2. up' = [up EXCEPT ![u] = new] /\ up[u].state = "new"
  BY DEF SubmitFile
<1>3. new \in UploadRecord
  BY <1>1 DEF UploadRecord, UploadStates
<1>4. new.state = "encrypting" /\ new.net = up[u].net /\ new.id = up[u].id
      /\ new.index = up[u].index /\ new.whole = up[u].whole
  BY <1>1 DEF UploadRecord
<1>5. UploadHonest(u)
  BY DEF ExchangeInv
<1> HIDE DEF new
<1>6. up'[u] = new
  BY <1>1, <1>2
<1>7. Len(files) \in Nat
  BY <1>1, LenProperties DEF ServiceTypeOK
<1>8. ServiceTypeOK' /\ ServiceGrows
  BY <1>1, <1>7 DEF SubmitFile, ServiceTypeOK, ServiceGrows, FilesGrow
<1>9. PublishedInv'
  BY <1>8, PublishedStays DEF SubmitFile
<1>10. ASSUME NEW v \in Uploads PROVE UploadHonest(v)'
  <2>1. CASE v = u
    <3>1. RequestOf(u)' = RequestOf(u) /\ UNCHANGED <<received, chunked>>
      BY <1>4, <1>6 DEF RequestOf, SubmitFile
    <3>2. InOrder(RequestOf(u))'
      BY <1>5, <3>1 DEF UploadHonest, InOrder
    <3> QED BY <1>2, <1>4, <1>5, <1>6, <2>1, <3>1, <3>2 DEF UploadHonest
  <2>2. CASE v # u
    BY <1>1, <1>2, <1>8, <2>2, OthersStay
  <2> QED BY <2>1, <2>2
<1>11. late' = late /\ late \subseteq Request /\ \A q \in late : InOrder(q)
  BY TypeUnfolded DEF ExchangeInv, SubmitFile
<1>12. \A q \in late' : InOrder(q)'
  BY <1>8, <1>11, OthersStay
<1>13. \A t \in Tabs : TabHonest(t)'
  BY <1>8, OthersStay DEF downloadVars
<1>14. TypeOK'
  <2>1. up' \in [Uploads -> UploadRecord] /\ chosen' \in [file : BOOLEAN, enabled : BOOLEAN]
    BY <1>1, <1>2, <1>3 DEF SubmitFile, updateSubmit
  <2> QED
    BY <1>8, <2>1
       DEF ExchangeInv, TypeOK, UploadTypeOK, DownloadTypeOK, UploadRecord, downloadVars,
           SubmitFile
<1> QED BY <1>9, <1>10, <1>12, <1>13, <1>14 DEF ExchangeInv

LEMMA StepEncrypt ==
    ASSUME ExchangeInv, NEW u \in Uploads, encryptFile(u) \/ Resend(u), UNCHANGED downloadVars
    PROVE  ExchangeInv'
<1>1. up[u] \in UploadRecord /\ UploadHonest(u)
  BY TypeUnfolded DEF ExchangeInv
<1>2. up[u].state \in {"encrypting", "waiting"} /\ Send(u, up[u])
      /\ UNCHANGED <<chosen, late, onPage, serviceVars>>
  BY DEF encryptFile, Resend
<1>3. up[u].id = 0
  BY <1>1, <1>2 DEF UploadHonest
<1>4. InOrder([upload |-> u, index |-> up[u].index, whole |-> up[u].whole])
  BY <1>1 DEF UploadHonest, RequestOf
<1>5. ~ chunked => up[u].index = 0
  BY <1>1 DEF UploadHonest
<1> QED BY <1>1, <1>2, <1>3, <1>4, <1>5, SendKeeps

LEMMA StepSliceEnds ==
    ASSUME ExchangeInv, NEW u \in Uploads,
           SliceRefused(u) \/ SliceFails(u) \/ RetrySlice(u),
           UNCHANGED downloadVars
    PROVE  ExchangeInv'
<1>1. /\ up \in [Uploads -> UploadRecord] /\ UploadHonest(u)
      /\ chosen \in [file : BOOLEAN, enabled : BOOLEAN] /\ onPage \in Uploads \cup {Form}
  BY TypeUnfolded DEF ExchangeInv
<1>2. UNCHANGED serviceVars /\ UNCHANGED <<chosen, onPage>>
      /\ late' \in {late, late \cup {RequestOf(u)}}
  BY DEF SliceRefused, SliceFails, RetrySlice
<1>3. chosen' \in [file : BOOLEAN, enabled : BOOLEAN] /\ onPage' \in Uploads \cup {Form}
  BY <1>1, <1>2
<1>4. CASE SliceRefused(u)
  <2> DEFINE new == [up[u] EXCEPT !.net = "refused"]
  <2>1. up' = [up EXCEPT ![u] = new]
    BY <1>4 DEF SliceRefused
  <2>2. new \in UploadRecord
    BY <1>1 DEF UploadRecord
  <2>3. new.net = "refused" /\ new.state = up[u].state /\ new.id = up[u].id
        /\ new.index = up[u].index /\ new.whole = up[u].whole
    BY <1>1 DEF UploadRecord
  <2>4. up[u].state = "sending" /\ up[u].id = 0
    BY <1>1, <1>4 DEF SliceRefused, UploadHonest
  <2> HIDE DEF new
  <2> QED BY <1>2, <1>3, <2>1, <2>2, <2>3, <2>4, QuietUpload
<1>5. CASE SliceFails(u)
  <2> DEFINE new == [up[u] EXCEPT !.net = "failed", !.id = 0]
  <2>1. up' = [up EXCEPT ![u] = new]
    BY <1>5 DEF SliceFails
  <2>2. new \in UploadRecord
    <3> DEFINE one == [up[u] EXCEPT !.net = "failed"]
    <3>1. one \in UploadRecord
      BY <1>1 DEF UploadRecord
    <3>2. new = [one EXCEPT !.id = 0]
      BY <1>1 DEF UploadRecord
    <3>3. 0 \in 0 .. MaxFiles
      BY FileServiceAssumption
    <3> HIDE DEF one, new
    <3> QED BY <3>1, <3>2, <3>3 DEF UploadRecord
  <2>3. new.net = "failed" /\ new.state = up[u].state /\ new.id = 0
        /\ new.index = up[u].index /\ new.whole = up[u].whole
    BY <1>1 DEF UploadRecord
  <2>4. up[u].state = "sending"
    BY <1>1, <1>5 DEF SliceFails, UploadHonest
  <2> HIDE DEF new
  <2> QED BY <1>2, <1>3, <2>1, <2>2, <2>3, <2>4, QuietUpload
<1>6. CASE RetrySlice(u)
  <2> DEFINE new == [up[u] EXCEPT !.state = "waiting", !.net = "idle", !.attempt = @ + 1]
  <2>1. up' = [up EXCEPT ![u] = new] /\ up[u].net = "failed" /\ MayRetry(u)
    BY <1>6 DEF RetrySlice
  <2>2. up[u].attempt + 1 \in 0 .. MaxAttempts - 1
    BY <1>1, <2>1, UploadPageAssumption DEF MayRetry, UploadRecord
  <2> DEFINE one == [up[u] EXCEPT !.state = "waiting", !.net = "idle"]
  <2>3. new \in UploadRecord
    <3>1. one \in UploadRecord
      BY <1>1 DEF UploadRecord, UploadStates
    <3>2. new = [one EXCEPT !.attempt = up[u].attempt + 1]
      BY <1>1 DEF UploadRecord
    <3> HIDE DEF one, new
    <3> QED BY <2>2, <3>1, <3>2 DEF UploadRecord
  <2>4. new.net = "idle" /\ new.state = "waiting" /\ new.id = up[u].id
        /\ new.index = up[u].index /\ new.whole = up[u].whole
    BY <1>1 DEF UploadRecord
  <2>5. up[u].id = 0
    BY <1>1, <2>1 DEF UploadHonest
  <2> HIDE DEF new
  <2> QED BY <1>2, <1>3, <2>1, <2>3, <2>4, <2>5, QuietUpload
<1> QED BY <1>4, <1>5, <1>6

(* The service answers a request: it may have published the upload.        *)
LEMMA StepAnswered ==
    ASSUME ExchangeInv, NEW u \in Uploads, NEW views \in 1 .. MaxViews,
           SliceAnswered(u, views), UNCHANGED downloadVars
    PROVE  ExchangeInv'
<1>1. up \in [Uploads -> UploadRecord] /\ UploadHonest(u) /\ up[u] \in UploadRecord
  BY TypeUnfolded DEF ExchangeInv
<1>2. /\ RequestOf(u) \in Request /\ InOrder(RequestOf(u))
      /\ RequestOf(u).upload = u
      /\ RequestOf(u).index = up[u].index /\ RequestOf(u).whole = up[u].whole
  BY <1>1 DEF UploadHonest, RequestOf, Request, UploadRecord
<1>3. PICK q \in Request : q = RequestOf(u)
  BY <1>2
<1>4. PICK id : id = AnswerId(q)
  OBVIOUS
<1> DEFINE new == [up[u] EXCEPT !.net = "ok", !.id = id]
<1>5. /\ Len(files) < MaxFiles
      /\ Serve(q, views)
      /\ up' = [up EXCEPT ![u] = new]
      /\ UNCHANGED <<chosen, late, onPage, chunked, locked>>
      /\ up[u].net = "out"
  BY <1>3, <1>4 DEF SliceAnswered
<1>6. /\ ServiceGrows /\ PublishedInv'
      /\ id \in 0 .. MaxFiles
      /\ id # 0 => id \in 1 .. Len(files') /\ files'[id].upload = u
      /\ IF chunked THEN /\ up[u].index \in received'[u]
                         /\ IF up[u].index = Slices - 1 THEN id # 0 /\ files'[id].whole
                                                        ELSE id = 0
         ELSE /\ id # 0
              /\ up[u].whole \/ Slices = 1 => files'[id].whole
  BY <1>2, <1>3, <1>4, <1>5, Served DEF IsLast
<1>7. new \in UploadRecord
  <2> DEFINE one == [up[u] EXCEPT !.net = "ok"]
  <2>1. one \in UploadRecord
    BY <1>1 DEF UploadRecord
  <2>2. new = [one EXCEPT !.id = id]
    BY <1>1 DEF UploadRecord
  <2> HIDE DEF one, new
  <2> QED BY <1>6, <2>1, <2>2 DEF UploadRecord
<1>8. new.net = "ok" /\ new.state = up[u].state /\ new.id = id
      /\ new.index = up[u].index /\ new.whole = up[u].whole
  BY <1>1 DEF UploadRecord
<1> HIDE DEF new
<1>9. up'[u] = new
  BY <1>1, <1>5
<1>10. RequestOf(u)' = q
  BY <1>3, <1>8, <1>9 DEF RequestOf
<1>11. InOrder(q)'
  BY <1>2, <1>3, <1>6, OthersStay
<1>12. InOrder(RequestOf(u))'
  BY <1>10, <1>11 DEF InOrder
<1>13. up[u].index \in 0 .. Slices - 1 /\ (chunked => ~ up[u].whole)
       /\ (~ chunked => up[u].index = 0)
  BY <1>1, <1>2 DEF UploadRecord, InOrder, UploadHonest
<1>14. UploadHonest(u)'
  <2>1. Early(u)' <=> up[u].index < Slices - 1 /\ ~ up[u].whole
    BY <1>8, <1>9 DEF Early
  <2>2. up'[u].state = "sending" /\ up'[u].net = "ok" /\ chunked' = chunked
    BY <1>1, <1>5, <1>8, <1>9 DEF UploadHonest
  <2>3. IF Early(u)'
        THEN IF chunked THEN id = 0 /\ up[u].index \in received'[u] ELSE id # 0
        ELSE id # 0 /\ files'[id].whole
    <3>1. CASE chunked
      BY <1>6, <1>13, <2>1, <3>1, FileServiceAssumption
    <3>2. CASE ~ chunked
      BY <1>6, <1>13, <2>1, <3>2, FileServiceAssumption
    <3> QED BY <3>1, <3>2
  <2>4. id # 0 => Names(id, u)'
    BY <1>6 DEF Names
  <2> QED BY <1>8, <1>9, <1>12, <1>13, <2>2, <2>3, <2>4 DEF UploadHonest, Names
<1>15. \A v \in Uploads : UploadHonest(v)'
  BY <1>1, <1>5, <1>6, <1>14, OthersStay
<1>16. late' = late /\ late \subseteq Request /\ \A r \in late : InOrder(r)
  BY <1>5, TypeUnfolded DEF ExchangeInv
<1>17. \A r \in late' : InOrder(r)'
  BY <1>6, <1>16, OthersStay
<1>18. \A t \in Tabs : TabHonest(t)'
  BY <1>6, OthersStay DEF downloadVars
<1>19. TypeOK'
  <2>1. up' \in [Uploads -> UploadRecord]
    BY <1>1, <1>5, <1>7
  <2> QED
    BY <1>5, <1>6, <2>1
       DEF ExchangeInv, TypeOK, UploadTypeOK, DownloadTypeOK, UploadRecord, downloadVars,
           ServiceGrows
<1> QED BY <1>6, <1>15, <1>17, <1>18, <1>19 DEF ExchangeInv

(* A request that was given up is executed after all.                      *)
LEMMA StepLate ==
    ASSUME ExchangeInv, NEW q \in late, NEW views \in 1 .. MaxViews,
           LateRequest(q, views), UNCHANGED downloadVars
    PROVE  ExchangeInv'
<1>1. late \subseteq Request /\ q \in Request /\ \A r \in late : InOrder(r)
  BY TypeUnfolded DEF ExchangeInv
<1>2. ServiceGrows /\ PublishedInv'
  BY <1>1, Served DEF LateRequest
<1>3. late' \subseteq late /\ UNCHANGED <<chosen, up, onPage>>
  BY DEF LateRequest
<1>4. \A u \in Uploads : UploadHonest(u)'
  BY <1>2, <1>3, OthersStay
<1>5. \A r \in late' : InOrder(r)'
  BY <1>1, <1>2, <1>3, OthersStay
<1>6. \A t \in Tabs : TabHonest(t)'
  BY <1>2, OthersStay DEF downloadVars
<1>7. TypeOK'
  BY <1>1, <1>2, <1>3
     DEF ExchangeInv, TypeOK, UploadTypeOK, DownloadTypeOK, downloadVars, ServiceGrows
<1> QED BY <1>2, <1>4, <1>5, <1>6, <1>7 DEF ExchangeInv

LEMMA StepNextSlice ==
    ASSUME ExchangeInv, NEW u \in Uploads, NextSlice(u), UNCHANGED downloadVars
    PROVE  ExchangeInv'
<1>1. up[u] \in UploadRecord /\ UploadHonest(u)
  BY TypeUnfolded DEF ExchangeInv
<1>2. /\ up[u].net = "ok" /\ Early(u)
      /\ UNCHANGED <<chosen, late, onPage, serviceVars>>
  BY DEF NextSlice
<1>3. /\ up[u].index \in 0 .. Slices - 1 /\ up[u].index < Slices - 1 /\ ~ up[u].whole
      /\ up[u].attempt \in 0 .. MaxAttempts - 1
  BY <1>1, <1>2 DEF Early, UploadRecord
<1>4. 0 \in 0 .. MaxAttempts - 1 /\ 0 \in 0 .. MaxFiles
  BY UploadPageAssumption, FileServiceAssumption
<1>5. CASE up[u].id # 0
  <2> DEFINE one == [up[u] EXCEPT !.whole = TRUE, !.attempt = 0]
             r == [up[u] EXCEPT !.whole = TRUE, !.attempt = 0, !.id = 0]
  <2>1. ~ chunked
    BY <1>1, <1>2, <1>5 DEF UploadHonest
  <2>2. Send(u, r)
    BY <1>5 DEF NextSlice
  <2>3. r \in UploadRecord
    <3>1. one \in UploadRecord
      BY <1>1, <1>4 DEF UploadRecord
    <3>2. r = [one EXCEPT !.id = 0]
      BY <1>1 DEF UploadRecord
    <3> HIDE DEF one, r
    <3> QED BY <1>4, <3>1, <3>2 DEF UploadRecord
  <2>4. r.id = 0 /\ r.index = up[u].index
    BY <1>1 DEF UploadRecord
  <2>5. up[u].index = 0
    BY <1>1, <2>1 DEF UploadHonest
  <2> HIDE DEF one, r
  <2>6. InOrder([upload |-> u, index |-> r.index, whole |-> r.whole])
    BY <2>1 DEF InOrder
  <2> QED BY <1>2, <2>2, <2>3, <2>4, <2>5, <2>6, SendKeeps
<1>6. CASE up[u].id = 0
  <2> DEFINE next == up[u].index + 1
             one == [up[u] EXCEPT !.index = next]
             r == [up[u] EXCEPT !.index = next, !.attempt = 0]
  <2>1. chunked /\ up[u].index \in received[u]
    BY <1>1, <1>2, <1>6 DEF UploadHonest
  <2>2. Send(u, r)
    BY <1>6 DEF NextSlice
  <2>3. next \in 0 .. Slices - 1 /\ 0 .. next - 1 = (0 .. up[u].index - 1) \cup {up[u].index}
    BY <1>3, FileServiceAssumption
  <2>4. 0 .. up[u].index - 1 \subseteq received[u]
    BY <1>1, <2>1 DEF UploadHonest, InOrder, RequestOf
  <2>5. 0 .. next - 1 \subseteq received[u]
    BY <2>1, <2>3, <2>4
  <2> HIDE DEF next
  <2>6. r \in UploadRecord
    <3>1. one \in UploadRecord
      BY <1>1, <2>3 DEF UploadRecord
    <3>2. r = [one EXCEPT !.attempt = 0]
      BY <1>1 DEF UploadRecord
    <3> HIDE DEF one, r
    <3> QED BY <1>4, <3>1, <3>2 DEF UploadRecord
  <2>7. r.id = 0 /\ r.index = next /\ r.whole = up[u].whole
    BY <1>1, <1>6 DEF UploadRecord
  <2> HIDE DEF one, r
  <2>8. InOrder([upload |-> u, index |-> r.index, whole |-> r.whole])
    BY <1>3, <2>5, <2>7 DEF InOrder
  <2> QED BY <1>2, <2>1, <2>2, <2>6, <2>7, <2>8, SendKeeps
<1> QED BY <1>5, <1>6

(* The link of the upload is made, and displayed.                          *)
LEMMA StepLastAnswered ==
    ASSUME ExchangeInv, NEW u \in Uploads, LastAnswered(u), UNCHANGED downloadVars
    PROVE  ExchangeInv'
<1>1. /\ up \in [Uploads -> UploadRecord] /\ up[u] \in UploadRecord /\ UploadHonest(u)
      /\ chosen \in [file : BOOLEAN, enabled : BOOLEAN] /\ onPage \in Uploads \cup {Form}
  BY TypeUnfolded DEF ExchangeInv
<1> DEFINE id == up[u].id
           one == [NoUpload EXCEPT !.state = "made"]
           new == [NoUpload EXCEPT !.state = "made", !.id = id]
<1>2. /\ up' = [up EXCEPT ![u] = new]
      /\ up[u].net = "ok" /\ ~ Early(u)
      /\ UNCHANGED <<chosen, late, onPage>> /\ UNCHANGED serviceVars
  BY DEF LastAnswered
<1>3. id \in 0 .. MaxFiles
  BY <1>1 DEF UploadRecord
<1>4. id # 0 /\ files[id].whole /\ Names(id, u)
  BY <1>1, <1>2 DEF UploadHonest
<1> HIDE DEF id
<1>5. new \in UploadRecord
  <2>1. one \in UploadRecord
    BY NoUploadIsUpload DEF UploadRecord, UploadStates
  <2>2. new = [one EXCEPT !.id = id]
    BY DEF NoUpload
  <2> HIDE DEF one, new
  <2> QED BY <1>3, <2>1, <2>2 DEF UploadRecord
<1>6. new.state = "made" /\ new.net = "idle" /\ new.id = id /\ new.index = 0 /\ new.whole = FALSE
  BY DEF NoUpload
<1> HIDE DEF one, new
<1>7. up'[u] = new
  BY <1>1, <1>2
<1>8. InOrder(RequestOf(u))'
  <2>1. RequestOf(u)'.index = 0 /\ RequestOf(u)'.whole = FALSE
    BY <1>6, <1>7 DEF RequestOf
  <2>2. 0 .. RequestOf(u)'.index - 1 = {}
    BY <2>1
  <2> QED BY <2>1, <2>2 DEF InOrder
<1>9. files' = files /\ chunked' = chunked
  BY <1>2 DEF serviceVars
<1>10. UploadHonest(u)'
  BY <1>4, <1>6, <1>7, <1>8, <1>9 DEF UploadHonest, Names
<1>11. chosen' \in [file : BOOLEAN, enabled : BOOLEAN] /\ onPage' \in Uploads \cup {Form}
       /\ late' \in {late, late \cup {RequestOf(u)}}
  BY <1>1, <1>2
<1> QED BY <1>2, <1>5, <1>10, <1>11, UploadMoves

LEMMA StepShowLink ==
    ASSUME ExchangeInv, NEW u \in Uploads, ShowFileLink(u), UNCHANGED downloadVars
    PROVE  ExchangeInv'
<1>1. /\ up \in [Uploads -> UploadRecord] /\ up[u] \in UploadRecord /\ UploadHonest(u)
      /\ chosen \in [file : BOOLEAN, enabled : BOOLEAN] /\ onPage \in Uploads \cup {Form}
  BY TypeUnfolded DEF ExchangeInv
<1> DEFINE new == [up[u] EXCEPT !.state = "shown"]
<1>2. up' = [up EXCEPT ![u] = new] /\ up[u].state = "made" /\ UNCHANGED serviceVars
  BY DEF ShowFileLink
<1>3. new \in UploadRecord
  BY <1>1 DEF UploadRecord, UploadStates
<1>4. new.state = "shown" /\ new.net = up[u].net /\ new.id = up[u].id
      /\ new.index = up[u].index /\ new.whole = up[u].whole
  BY <1>1 DEF UploadRecord
<1> HIDE DEF new
<1>5. up'[u] = new
  BY <1>1, <1>2
<1>6. InOrder(RequestOf(u))'
  BY <1>1, <1>2, <1>4, <1>5 DEF UploadHonest, InOrder, RequestOf, serviceVars
<1>7. UploadHonest(u)'
  BY <1>1, <1>2, <1>4, <1>5, <1>6 DEF UploadHonest, Names, serviceVars
<1>8. chosen' \in [file : BOOLEAN, enabled : BOOLEAN] /\ onPage' \in Uploads \cup {Form}
      /\ late' \in {late, late \cup {RequestOf(u)}}
  BY <1>1 DEF ShowFileLink
<1> QED BY <1>2, <1>3, <1>7, <1>8, UploadMoves

(* The page's own steps leave uploads and requests alone.                  *)
LEMMA PageMoves ==
    ASSUME ExchangeInv, UNCHANGED <<up, late>>, UNCHANGED serviceVars, UNCHANGED downloadVars,
           chosen' \in [file : BOOLEAN, enabled : BOOLEAN],
           onPage' \in Uploads \cup {Form}
    PROVE  ExchangeInv'
<1>1. TypeOK'
  <2>1. ServiceTypeOK' /\ DownloadTypeOK'
    BY DEF ExchangeInv, TypeOK, ServiceTypeOK, DownloadTypeOK, serviceVars, downloadVars
  <2> QED BY <2>1 DEF ExchangeInv, TypeOK, UploadTypeOK
<1>2. PublishedInv'
  BY DEF ExchangeInv, PublishedInv, Names, serviceVars
<1>3. \A u \in Uploads : UploadHonest(u)'
  BY DEF ExchangeInv, UploadHonest, Names, InOrder, RequestOf, Early, serviceVars
<1>4. \A q \in late' : InOrder(q)'
  BY DEF ExchangeInv, InOrder, serviceVars
<1>5. \A t \in Tabs : TabHonest(t)'
  BY DEF ExchangeInv, TabHonest, serviceVars, downloadVars
<1> QED BY <1>1, <1>2, <1>3, <1>4, <1>5 DEF ExchangeInv

LEMMA StepPage ==
    ASSUME ExchangeInv, (\E file \in BOOLEAN : selectFile(file)) \/ ResetUpload,
           UNCHANGED downloadVars
    PROVE  ExchangeInv'
<1>1. chosen \in [file : BOOLEAN, enabled : BOOLEAN] /\ onPage \in Uploads \cup {Form}
  BY TypeUnfolded DEF ExchangeInv
<1>2. UNCHANGED <<up, late>> /\ UNCHANGED serviceVars
  BY DEF selectFile, ResetUpload
<1>3. onPage' \in Uploads \cup {Form}
  BY <1>1 DEF selectFile, ResetUpload
<1>4. chosen' \in [file : BOOLEAN, enabled : BOOLEAN]
  <2>1. CASE ResetUpload
    BY <2>1 DEF ResetUpload, updateSubmit
  <2>2. CASE \E file \in BOOLEAN : selectFile(file)
    <3>1. PICK file \in BOOLEAN : selectFile(file)
      BY <2>2
    <3>2. PICK enabled \in BOOLEAN : chosen' = [file |-> file, enabled |-> enabled]
      BY <3>1 DEF selectFile, updateSubmit
    <3> QED BY <3>2
  <2> QED BY <2>1, <2>2
<1> QED BY <1>2, <1>3, <1>4, PageMoves

LEMMA UploadNextInv ==
    ASSUME ExchangeInv, UploadNext(Views), UNCHANGED downloadVars
    PROVE  ExchangeInv'
<1>1. Views \in 1 .. MaxViews
  BY ViewsAssumption
<1>2. ASSUME NEW u \in Uploads, UploadStep(u, Views) PROVE ExchangeInv'
  <2>1. CASE EncryptFails(u) \/ GiveUp(u)
    BY <2>1, StepFail DEF EncryptFails, GiveUp
  <2>2. CASE encryptFile(u) \/ Resend(u)
    BY <2>2, StepEncrypt
  <2>3. CASE SliceAnswered(u, Views)
    BY <1>1, <2>3, StepAnswered
  <2>4. CASE SliceRefused(u) \/ SliceFails(u) \/ RetrySlice(u)
    BY <2>4, StepSliceEnds
  <2>5. CASE NextSlice(u)
    BY <2>5, StepNextSlice
  <2>6. CASE LastAnswered(u)
    BY <2>6, StepLastAnswered
  <2>7. CASE ShowFileLink(u)
    BY <2>7, StepShowLink
  <2> QED BY <1>2, <2>1, <2>2, <2>3, <2>4, <2>5, <2>6, <2>7 DEF UploadStep
<1>3. ASSUME NEW q \in late, LateRequest(q, Views) PROVE ExchangeInv'
  BY <1>1, <1>3, StepLate
<1> QED BY <1>2, <1>3, StepPage, StepSubmit DEF UploadNext

------------------------------------------------------------------------------
(* The download page.                                                      *)

(* A step of one tab that asks nothing of the service.                     *)
LEMMA TabAlone ==
    ASSUME ExchangeInv, NEW t \in Tabs, NEW new \in TabRecord, NEW views \in Nat,
           tab' = [tab EXCEPT ![t] = new],
           spent' = [spent EXCEPT ![t] = views],
           UNCHANGED uploadVars, UNCHANGED serviceVars,
           TabHonest(t)'
    PROVE  ExchangeInv'
<1>1. ServiceTypeOK /\ Len(files) \in Nat
  BY TypeUnfolded, LenProperties DEF ExchangeInv, ServiceTypeOK
<1>2. ServiceGrows /\ Len(files') = Len(files)
  BY <1>1 DEF ServiceGrows, FilesGrow, ServiceTypeOK, serviceVars
<1>3. UNCHANGED <<chunked, received, published, locked>>
  BY DEF serviceVars
<1> QED BY <1>2, <1>3, TabMoves

(* What a tab is after such a step.                                        *)
LEMMA TabAfter ==
    ASSUME ExchangeInv, NEW t \in Tabs, NEW new \in TabRecord, NEW views \in Nat,
           tab' = [tab EXCEPT ![t] = new],
           spent' = [spent EXCEPT ![t] = views]
    PROVE  tab'[t] = new /\ spent'[t] = views
BY TypeUnfolded DEF ExchangeInv

LEMMA StepOpenLink ==
    ASSUME ExchangeInv, NEW t \in Tabs, NEW f \in Links \cup {0}, OpenFileLink(t, f),
           UNCHANGED uploadVars
    PROVE  ExchangeInv'
<1>1. ServiceTypeOK /\ up \in [Uploads -> UploadRecord] /\ spent \in [Tabs -> Nat]
  BY TypeUnfolded DEF ExchangeInv
<1>2. f # 0 => f \in 1 .. Len(files) /\ f \in 1 .. MaxFiles
  <2>1. ASSUME NEW u \in Uploads, up[u].state \in {"made", "shown"}
        PROVE  up[u].id \in 1 .. Len(files) /\ up[u].id \in 1 .. MaxFiles
    <3>1. up[u].id # 0 /\ Names(up[u].id, u) /\ up[u] \in UploadRecord
      BY <1>1, <2>1 DEF ExchangeInv, UploadHonest
    <3>2. up[u].id \in 0 .. MaxFiles
      BY <3>1 DEF UploadRecord
    <3> QED BY <3>1, <3>2, FileServiceAssumption DEF Names
  <2> QED BY <2>1 DEF Links
<1>3. f \in 0 .. MaxFiles
  BY <1>2, FileServiceAssumption
<1> DEFINE state == IF isValidLinkToken(f) THEN "ready" ELSE "broken"
           one == [Closed EXCEPT !.state = state]
           new == [Closed EXCEPT !.state = state, !.file = f]
<1>4. tab' = [tab EXCEPT ![t] = new] /\ UNCHANGED serviceVars /\ spent' = spent
      /\ tab[t].state = "closed"
  BY DEF OpenFileLink
<1>5. state \in {"ready", "broken"} /\ (state = "ready" => f # 0)
  BY DEF isValidLinkToken
<1> HIDE DEF state
<1>6. new \in TabRecord
  <2>1. one \in TabRecord
    BY <1>5, ClosedIsTab DEF TabRecord
  <2>2. new = [one EXCEPT !.file = f]
    BY DEF Closed
  <2> HIDE DEF one, new
  <2> QED BY <1>3, <2>1, <2>2 DEF TabRecord
<1>7. new.state = state /\ new.file = f /\ new.net = "idle"
  BY DEF Closed
<1> HIDE DEF one, new
<1>8. spent[t] = 0
  BY <1>4 DEF ExchangeInv, TabHonest
<1>9. spent' = [spent EXCEPT ![t] = 0]
  BY <1>1, <1>4, <1>8
<1>10. tab'[t] = new /\ spent'[t] = 0
  BY <1>4, <1>6, <1>9, TabAfter
<1>11. TabHonest(t)'
  <2>1. files' = files
    BY <1>4 DEF serviceVars
  <2>2. tab'[t].state \in {"ready", "broken"} /\ tab'[t].net = "idle" /\ spent'[t] = 0
        /\ (tab'[t].state = "ready" => tab'[t].file \in 1 .. Len(files))
    BY <1>2, <1>5, <1>7, <1>10
  <2> QED BY <2>1, <2>2 DEF TabHonest
<1>12. 0 \in Nat
  OBVIOUS
<1> QED BY <1>4, <1>6, <1>9, <1>11, <1>12, TabAlone

LEMMA StepLeave ==
    ASSUME ExchangeInv, NEW t \in Tabs, LeavePage(t), UNCHANGED uploadVars
    PROVE  ExchangeInv'
<1>1. tab' = [tab EXCEPT ![t] = Closed] /\ spent' = [spent EXCEPT ![t] = 0]
      /\ UNCHANGED serviceVars
  BY DEF LeavePage
<1>2. tab'[t] = Closed /\ spent'[t] = 0
  BY <1>1, ClosedIsTab, TabAfter
<1>3. Closed.state = "closed" /\ Closed.net = "idle"
  BY DEF Closed
<1>4. TabHonest(t)'
  BY <1>2, <1>3 DEF TabHonest
<1> QED BY <1>1, <1>4, ClosedIsTab, TabAlone

(* The same page, with what it says of its read and its phase: nothing of  *)
(* a kind that needs more than the tab already was.                        *)
LEMMA TabGoesOn ==
    ASSUME ExchangeInv, NEW t \in Tabs, NEW new \in TabRecord,
           tab' = [tab EXCEPT ![t] = new], spent' = spent,
           new.file = tab[t].file,
           tab[t].state \notin {"closed", "broken"},
           new.state \notin {"closed", "broken", "gone"},
           new.net # "idle" => new.state \in {"downloading", "decrypting"},
           new.net # "no message",
           new.net \in {"out", "wrong key", "retry"} =>
              new.state = "downloading" /\ spent[t] = 0,
           new.state \in {"ready", "pausing"} => spent[t] = 0,
           UNCHANGED uploadVars, UNCHANGED serviceVars
    PROVE  ExchangeInv'
<1>1. spent \in [Tabs -> Nat] /\ TabHonest(t)
  BY TypeUnfolded DEF ExchangeInv
<1>2. PICK views \in Nat : views = spent[t] /\ spent' = [spent EXCEPT ![t] = views]
  BY <1>1
<1>3. tab'[t] = new /\ spent'[t] = views
  BY <1>2, TabAfter
<1>4. TabHonest(t)'
  BY <1>1, <1>2, <1>3 DEF TabHonest, serviceVars
<1> QED BY <1>2, <1>4, TabAlone

LEMMA StepType ==
    ASSUME ExchangeInv, NEW t \in Tabs, TypePassphrase(t), UNCHANGED uploadVars
    PROVE  ExchangeInv'
<1>1. tab[t] \in TabRecord /\ TabHonest(t)
  BY TypeUnfolded DEF ExchangeInv
<1> DEFINE new == [tab[t] EXCEPT !.typed = ~ @]
<1>2. tab' = [tab EXCEPT ![t] = new] /\ UNCHANGED serviceVars /\ spent' = spent
      /\ tab[t].state = "ready"
  BY DEF TypePassphrase
<1>3. new \in TabRecord
  BY <1>1 DEF TabRecord
<1>4. new.state = "ready" /\ new.net = tab[t].net /\ new.file = tab[t].file
  BY <1>1, <1>2 DEF TabRecord
<1> HIDE DEF new
<1>5. tab[t].net = "idle" /\ spent[t] = 0
  BY <1>1, <1>2 DEF TabHonest
<1> QED BY <1>2, <1>3, <1>4, <1>5, TabGoesOn

LEMMA StepDownload ==
    ASSUME ExchangeInv, NEW t \in Tabs, Download(t), UNCHANGED uploadVars
    PROVE  ExchangeInv'
<1>1. tab[t] \in TabRecord /\ TabHonest(t) /\ tab \in [Tabs -> TabRecord]
  BY TypeUnfolded DEF ExchangeInv
<1> DEFINE one == [tab[t] EXCEPT !.state = "downloading", !.net = "out"]
           new == [tab[t] EXCEPT !.state = "downloading", !.net = "out", !.attempt = 0]
<1>2. tab' = [tab EXCEPT ![t] = new] /\ UNCHANGED serviceVars
      /\ spent' = [spent EXCEPT ![t] = 0]
      /\ tab[t].state \in {"ready", "error"}
  BY DEF Download
<1>3. new \in TabRecord
  <2>1. one \in TabRecord
    BY <1>1 DEF TabRecord, Busy
  <2>2. new = [one EXCEPT !.attempt = 0]
    BY <1>1 DEF TabRecord
  <2>3. 0 \in 0 .. 1
    OBVIOUS
  <2> HIDE DEF one, new
  <2> QED BY <2>1, <2>2, <2>3 DEF TabRecord
<1>4. new.state = "downloading" /\ new.net = "out" /\ new.file = tab[t].file
  BY <1>1 DEF TabRecord
<1> HIDE DEF one, new
<1>5. tab'[t] = new /\ spent'[t] = 0
  BY <1>2, <1>3, TabAfter
<1>6. tab[t].file \in 1 .. Len(files)
  BY <1>1, <1>2 DEF TabHonest
<1>7. TabHonest(t)'
  <2>1. files' = files
    BY <1>2 DEF serviceVars
  <2>2. tab'[t].state = "downloading" /\ tab'[t].net = "out" /\ spent'[t] = 0
        /\ tab'[t].file \in 1 .. Len(files)
    BY <1>4, <1>5, <1>6
  <2> QED BY <2>1, <2>2 DEF TabHonest
<1>8. 0 \in Nat
  OBVIOUS
<1> QED BY <1>2, <1>3, <1>7, <1>8, TabAlone

LEMMA NoneOrOne == \A n : n = 0 \/ n = 1 => n <= 1
OBVIOUS

(* What the service answers to a read, and the view it takes for a right   *)
(* key.                                                                    *)
LEMMA StepFileAnswered ==
    ASSUME ExchangeInv, NEW t \in Tabs, FileAnswered(t), UNCHANGED uploadVars
    PROVE  ExchangeInv'
<1> DEFINE f == tab[t].file
<1>1. /\ tab[t] \in TabRecord /\ TabHonest(t) /\ spent \in [Tabs -> Nat]
      /\ ServiceTypeOK /\ tab \in [Tabs -> TabRecord]
  BY TypeUnfolded DEF ExchangeInv
<1>2. /\ tab[t].net = "out" /\ UNCHANGED <<chunked, received, published, locked>>
  BY DEF FileAnswered
<1>3. /\ tab[t].state = "downloading" /\ spent[t] = 0
      /\ f \in 1 .. Len(files)
  BY <1>1, <1>2 DEF TabHonest
<1>4. PICK answer \in {"no message", "wrong key", "ok", "retry"} :
         /\ tab' = [tab EXCEPT ![t].net = answer]
         /\ answer = "no message" => files[f].left = 0
         /\ IF answer = "ok"
            THEN files[f].left > 0 /\ Take(f) /\ spent' = [spent EXCEPT ![t] = @ + 1]
            ELSE UNCHANGED <<files, spent>>
  <2> DEFINE Answers(answer) ==
         /\ tab' = [tab EXCEPT ![t].net = answer]
         /\ answer = "no message" => files[f].left = 0
         /\ IF answer = "ok"
            THEN files[f].left > 0 /\ Take(f) /\ spent' = [spent EXCEPT ![t] = @ + 1]
            ELSE UNCHANGED <<files, spent>>
  <2>1. Answers("no message") \/ Answers("wrong key") \/ Answers("ok") \/ Answers("retry")
    BY DEF FileAnswered
  <2> HIDE DEF Answers
  <2>2. \E answer \in {"no message", "wrong key", "ok", "retry"} : Answers(answer)
    BY <2>1
  <2> QED BY <2>2 DEF Answers
<1> DEFINE new == [tab[t] EXCEPT !.net = answer]
           views == IF answer = "ok" THEN 1 ELSE 0
<1>5. tab' = [tab EXCEPT ![t] = new] /\ new \in TabRecord
  BY <1>1, <1>4 DEF TabRecord
<1>6. new.net = answer /\ new.state = "downloading" /\ new.file = f
  BY <1>1, <1>3 DEF TabRecord
<1>7. views \in Nat /\ spent' = [spent EXCEPT ![t] = views]
  <2>1. CASE answer = "ok"
    BY <1>1, <1>3, <1>4, <2>1
  <2>2. CASE answer # "ok"
    BY <1>1, <1>3, <1>4, <2>2
  <2> QED BY <2>1, <2>2
<1>8. (views = 0 \/ views = 1) /\ (answer # "ok" => views = 0)
  OBVIOUS
<1> HIDE DEF new, views
<1>9. tab'[t] = new /\ spent'[t] = views
  BY <1>5, <1>7, TabAfter
<1>10. ServiceGrows /\ Len(files') = Len(files)
  <2>1. CASE answer = "ok"
    <3>1. files \in Seq(File)
      BY <1>1 DEF ServiceTypeOK
    <3>2. files[f] \in File
      BY <1>3, <3>1, ElementOfSeq
    <3>3. files[f].left - 1 \in 0 .. MaxViews /\ files[f].left > 0
      BY <1>4, <2>1, <3>2, FileServiceAssumption DEF File
    <3>4. PICK v \in 0 .. MaxViews : v = files[f].left - 1
      BY <3>3
    <3>5. files' = [files EXCEPT ![f].left = v]
      <4>1. files' = [files EXCEPT ![f].left = files[f].left - 1]
        BY <1>4, <2>1 DEF Take
      <4> QED BY <3>4, <4>1
    <3> QED BY <1>2, <1>3, <3>3, <3>5, LeftFalls
  <2>2. CASE answer # "ok"
    <3>1. files' = files
      BY <1>4, <2>2
    <3>3. ServiceTypeOK'
      BY <1>1, <1>2, <3>1 DEF ServiceTypeOK
    <3>4. FilesGrow
      BY <1>1, <3>1, SameFilesGrow
    <3> QED BY <1>2, <3>1, <3>3, <3>4 DEF ServiceGrows
  <2> QED BY <2>1, <2>2
<1>11. answer = "no message" => files'[f].left = 0
  BY <1>4
<1>12. TabHonest(t)'
  <2>1. tab'[t].state = "downloading" /\ tab'[t].net = answer /\ tab'[t].file = f
    BY <1>6, <1>9
  <2>2. (spent'[t] = 0 \/ spent'[t] = 1) /\ (answer # "ok" => spent'[t] = 0)
    BY <1>8, <1>9
  <2>3. f \in 1 .. Len(files')
    BY <1>3, <1>10
  <2>4. tab'[t].file \in 1 .. Len(files')
    BY <2>1, <2>3
  <2>5. answer = "no message" => files'[tab'[t].file].left = 0
    BY <1>11, <2>1
  <2>6. spent'[t] <= 1
    BY <2>2, NoneOrOne
  <2> QED BY <2>1, <2>2, <2>4, <2>5, <2>6 DEF TabHonest
<1> QED BY <1>2, <1>5, <1>7, <1>10, <1>12, TabMoves

(* What a tab is when another section takes its page.                      *)
LEMMA RestIsTab ==
    ASSUME NEW t \in Tabs, tab[t] \in TabRecord,
           NEW state \in {"ready", "error", "program", "downloaded"}
    PROVE  /\ Rest(t, state) \in TabRecord
           /\ Rest(t, state).state = state /\ Rest(t, state).net = "idle"
           /\ Rest(t, state).file = tab[t].file
<1> DEFINE one == [tab[t] EXCEPT !.state = state, !.net = "idle"]
<1>1. one \in TabRecord
  BY DEF TabRecord
<1>2. Rest(t, state) = [one EXCEPT !.attempt = 0]
  BY DEF Rest, TabRecord
<1>3. one.state = state /\ one.net = "idle" /\ one.file = tab[t].file
  BY DEF TabRecord
<1>4. 0 \in 0 .. 1
  OBVIOUS
<1> HIDE DEF one
<1> QED BY <1>1, <1>2, <1>3, <1>4 DEF TabRecord

(* The phases of one read, between the answers.                            *)
LEMMA StepPhase ==
    ASSUME ExchangeInv, NEW t \in Tabs,
           \/ DownloadFails(t) \/ PauseDownload(t) \/ DownloadAgain(t)
           \/ Arrived(t) \/ DecryptFails(t) \/ Decrypted(t) \/ SaveHeld(t),
           UNCHANGED uploadVars
    PROVE  ExchangeInv'
<1>1. tab[t] \in TabRecord /\ TabHonest(t)
  BY TypeUnfolded DEF ExchangeInv
<1>2. UNCHANGED serviceVars /\ spent' = spent
  BY DEF DownloadFails, PauseDownload, DownloadAgain, Arrived, DecryptFails, Decrypted, SaveHeld
<1>3. CASE DownloadFails(t)
  <2>1. PICK net \in {"failed", "damaged"} : tab' = [tab EXCEPT ![t].net = net]
    BY <1>3 DEF DownloadFails
  <2> DEFINE new == [tab[t] EXCEPT !.net = net]
  <2>2. tab' = [tab EXCEPT ![t] = new]
    BY <2>1
  <2>3. new \in TabRecord
    BY <1>1 DEF TabRecord
  <2>4. new.net = net /\ new.state = tab[t].state /\ new.file = tab[t].file
    BY <1>1 DEF TabRecord
  <2>5. tab[t].state \in {"downloading", "decrypting"}
    BY <1>1, <1>3 DEF DownloadFails, TabHonest
  <2> HIDE DEF new
  <2> QED BY <1>2, <2>2, <2>3, <2>4, <2>5, TabGoesOn
<1>4. CASE PauseDownload(t)
  <2> DEFINE one == [tab[t] EXCEPT !.state = "pausing", !.net = "idle"]
             new == [tab[t] EXCEPT !.state = "pausing", !.net = "idle", !.attempt = 1]
  <2>1. tab' = [tab EXCEPT ![t] = new] /\ tab[t].net = "retry"
    BY <1>4 DEF PauseDownload, safeToRetry
  <2>2. new \in TabRecord
    <3>1. one \in TabRecord
      BY <1>1 DEF TabRecord, Busy
    <3>2. new = [one EXCEPT !.attempt = 1]
      BY <1>1 DEF TabRecord
    <3>3. 1 \in 0 .. 1
      OBVIOUS
    <3> HIDE DEF one, new
    <3> QED BY <3>1, <3>2, <3>3 DEF TabRecord
  <2>3. new.net = "idle" /\ new.state = "pausing" /\ new.file = tab[t].file
    BY <1>1 DEF TabRecord
  <2>4. tab[t].state = "downloading" /\ spent[t] = 0
    BY <1>1, <2>1 DEF TabHonest
  <2> HIDE DEF one, new
  <2> QED BY <1>2, <2>1, <2>2, <2>3, <2>4, TabGoesOn
<1>5. CASE DownloadAgain(t)
  <2> DEFINE new == [tab[t] EXCEPT !.state = "downloading", !.net = "out"]
  <2>1. tab' = [tab EXCEPT ![t] = new] /\ tab[t].state = "pausing"
    BY <1>5 DEF DownloadAgain
  <2>2. new \in TabRecord
    BY <1>1 DEF TabRecord, Busy
  <2>3. new.net = "out" /\ new.state = "downloading" /\ new.file = tab[t].file
    BY <1>1 DEF TabRecord
  <2>4. spent[t] = 0
    BY <1>1, <2>1 DEF TabHonest
  <2> HIDE DEF new
  <2> QED BY <1>2, <2>1, <2>2, <2>3, <2>4, TabGoesOn
<1>6. CASE Arrived(t)
  <2> DEFINE new == [tab[t] EXCEPT !.state = "decrypting"]
  <2>1. tab' = [tab EXCEPT ![t] = new] /\ tab[t].net \in {"ok", "damaged"}
        /\ tab[t].state = "downloading"
    BY <1>6 DEF Arrived
  <2>2. new \in TabRecord
    BY <1>1 DEF TabRecord, Busy
  <2>3. new.net = tab[t].net /\ new.state = "decrypting" /\ new.file = tab[t].file
    BY <1>1 DEF TabRecord
  <2> HIDE DEF new
  <2> QED BY <1>2, <2>1, <2>2, <2>3, TabGoesOn
<1>7. CASE DecryptFails(t)
  <2> DEFINE new == [Rest(t, "error") EXCEPT !.prompt = FALSE]
  <2>1. tab' = [tab EXCEPT ![t] = new] /\ tab[t].state = "decrypting"
    BY <1>7 DEF DecryptFails
  <2>2. /\ Rest(t, "error") \in TabRecord
        /\ Rest(t, "error").state = "error" /\ Rest(t, "error").net = "idle"
        /\ Rest(t, "error").file = tab[t].file
    BY <1>1, RestIsTab
  <2>3. new \in TabRecord
    BY <2>2 DEF TabRecord
  <2>4. new.net = "idle" /\ new.state = "error" /\ new.file = tab[t].file
    BY <2>2 DEF TabRecord
  <2> HIDE DEF new
  <2> QED BY <1>2, <2>1, <2>3, <2>4, TabGoesOn
<1>8. CASE Decrypted(t)
  <2>1. PICK state \in {"program", "downloaded"} : tab' = [tab EXCEPT ![t] = Rest(t, state)]
    BY <1>8 DEF Decrypted
  <2>2. /\ Rest(t, state) \in TabRecord
        /\ Rest(t, state).state = state /\ Rest(t, state).net = "idle"
        /\ Rest(t, state).file = tab[t].file
    BY <1>1, RestIsTab
  <2>3. tab[t].state = "decrypting"
    BY <1>8 DEF Decrypted
  <2> QED BY <1>2, <2>1, <2>2, <2>3, TabGoesOn
<1>9. CASE SaveHeld(t)
  <2> DEFINE new == [tab[t] EXCEPT !.state = "downloaded"]
  <2>1. tab' = [tab EXCEPT ![t] = new] /\ tab[t].state \in {"program", "downloaded"}
    BY <1>9 DEF SaveHeld
  <2>2. new \in TabRecord
    BY <1>1 DEF TabRecord
  <2>3. new.net = tab[t].net /\ new.state = "downloaded" /\ new.file = tab[t].file
    BY <1>1 DEF TabRecord
  <2>4. tab[t].net = "idle"
    BY <1>1, <2>1 DEF TabHonest
  <2> HIDE DEF new
  <2> QED BY <1>2, <2>1, <2>2, <2>3, <2>4, TabGoesOn
<1> QED BY <1>3, <1>4, <1>5, <1>6, <1>7, <1>8, <1>9


(* A refused read: "no message" ends the page, a wrong key asks for the    *)
(* passphrase, and what is lost is an error.                               *)
LEMMA StepRefused ==
    ASSUME ExchangeInv, NEW t \in Tabs, DownloadRefused(t), UNCHANGED uploadVars
    PROVE  ExchangeInv'
<1>1. tab[t] \in TabRecord /\ TabHonest(t) /\ spent \in [Tabs -> Nat]
  BY TypeUnfolded DEF ExchangeInv
<1>2. /\ UNCHANGED serviceVars /\ spent' = spent
      /\ tab[t].net \in {"no message", "wrong key", "failed", "retry"}
      /\ tab' = [tab EXCEPT ![t] =
           CASE tab[t].net = "no message" -> [Closed EXCEPT !.state = "gone", !.file = tab[t].file]
             [] tab[t].net = "wrong key" -> [Rest(t, "ready") EXCEPT !.prompt = TRUE]
             [] OTHER -> [Rest(t, "error") EXCEPT !.prompt = FALSE]]
  BY DEF DownloadRefused
<1>3. tab[t].state \in {"downloading", "decrypting"} /\ tab[t].file \in 1 .. Len(files)
  BY <1>1, <1>2 DEF TabHonest
<1>4. CASE tab[t].net = "no message"
  <2> DEFINE one == [Closed EXCEPT !.state = "gone"]
             new == [Closed EXCEPT !.state = "gone", !.file = tab[t].file]
  <2>1. tab' = [tab EXCEPT ![t] = new]
    BY <1>2, <1>4
  <2>2. new \in TabRecord
    <3>1. one \in TabRecord
      BY ClosedIsTab DEF TabRecord
    <3>2. new = [one EXCEPT !.file = tab[t].file]
      BY DEF Closed
    <3>3. tab[t].file \in 0 .. MaxFiles
      BY <1>1 DEF TabRecord
    <3> HIDE DEF one, new
    <3> QED BY <3>1, <3>2, <3>3 DEF TabRecord
  <2>3. new.net = "idle" /\ new.state = "gone" /\ new.file = tab[t].file
    BY DEF Closed
  <2> HIDE DEF one, new
  <2>4. spent[t] = 0 /\ files[tab[t].file].left = 0
    BY <1>1, <1>4 DEF TabHonest
  <2>5. 0 \in Nat /\ spent' = [spent EXCEPT ![t] = 0]
    BY <1>1, <1>2, <2>4
  <2>6. tab'[t] = new /\ spent'[t] = 0
    BY <2>1, <2>2, <2>5, TabAfter
  <2>7. files' = files
    BY <1>2 DEF serviceVars
  <2>8. TabHonest(t)'
    <3>1. tab'[t].net = "idle" /\ tab'[t].state = "gone" /\ tab'[t].file \in 1 .. Len(files')
          /\ files'[tab'[t].file].left = 0
      BY <1>3, <2>3, <2>4, <2>6, <2>7
    <3> QED BY <2>6, <3>1 DEF TabHonest
  <2> QED BY <1>2, <2>1, <2>2, <2>5, <2>8, TabAlone
<1>5. CASE tab[t].net = "wrong key"
  <2> DEFINE new == [Rest(t, "ready") EXCEPT !.prompt = TRUE]
  <2>1. tab' = [tab EXCEPT ![t] = new]
    BY <1>2, <1>5
  <2>2. /\ Rest(t, "ready") \in TabRecord
        /\ Rest(t, "ready").state = "ready" /\ Rest(t, "ready").net = "idle"
        /\ Rest(t, "ready").file = tab[t].file
    BY <1>1, RestIsTab
  <2>3. new \in TabRecord
    BY <2>2 DEF TabRecord
  <2>4. new.net = "idle" /\ new.state = "ready" /\ new.file = tab[t].file
    BY <2>2 DEF TabRecord
  <2>5. spent[t] = 0
    BY <1>1, <1>5 DEF TabHonest
  <2> HIDE DEF new
  <2> QED BY <1>2, <1>3, <2>1, <2>3, <2>4, <2>5, TabGoesOn
<1>6. CASE tab[t].net \in {"failed", "retry"}
  <2> DEFINE new == [Rest(t, "error") EXCEPT !.prompt = FALSE]
  <2>1. tab' = [tab EXCEPT ![t] = new]
    BY <1>2, <1>6
  <2>2. /\ Rest(t, "error") \in TabRecord
        /\ Rest(t, "error").state = "error" /\ Rest(t, "error").net = "idle"
        /\ Rest(t, "error").file = tab[t].file
    BY <1>1, RestIsTab
  <2>3. new \in TabRecord
    BY <2>2 DEF TabRecord
  <2>4. new.net = "idle" /\ new.state = "error" /\ new.file = tab[t].file
    BY <2>2 DEF TabRecord
  <2> HIDE DEF new
  <2> QED BY <1>2, <1>3, <2>1, <2>3, <2>4, TabGoesOn
<1> QED BY <1>2, <1>4, <1>5, <1>6

LEMMA DownloadNextInv ==
    ASSUME ExchangeInv, DownloadNext(Links), UNCHANGED uploadVars
    PROVE  ExchangeInv'
<1>1. ASSUME NEW t \in Tabs, DownloadStep(t) PROVE ExchangeInv'
  BY <1>1, StepFileAnswered, StepPhase, StepRefused DEF DownloadStep
<1> QED
  BY <1>1, StepOpenLink, StepLeave, StepType, StepDownload, StepPhase DEF DownloadNext

(* Someone else downloads a file of a link.                                *)
LEMMA StepElsewhere ==
    ASSUME ExchangeInv, NEW f \in Links, SpentElsewhere(f),
           UNCHANGED <<uploadVars, downloadVars>>
    PROVE  ExchangeInv'
<1>1. /\ ServiceTypeOK /\ files \in Seq(File) /\ late \subseteq Request
      /\ \A q \in late : InOrder(q)
  BY TypeUnfolded DEF ExchangeInv, ServiceTypeOK
<1>2. f \in 1 .. Len(files)
  <2>1. PICK u \in Uploads : up[u].state \in {"made", "shown"} /\ f = up[u].id
    BY DEF Links
  <2> QED BY <2>1 DEF ExchangeInv, UploadHonest, Names
<1>3. files[f] \in File
  BY <1>1, <1>2, ElementOfSeq
<1>4. PICK v \in 0 .. files[f].left - 1 : files' = [files EXCEPT ![f].left = v]
  BY DEF SpentElsewhere
<1>5. files[f].left > 0 /\ UNCHANGED <<chunked, received, published, locked>>
  BY DEF SpentElsewhere
<1>6. v \in 0 .. MaxViews
  BY <1>3, FileServiceAssumption DEF File
<1>7. ServiceGrows /\ Len(files') = Len(files)
  BY <1>2, <1>4, <1>5, <1>6, LeftFalls
<1>8. PublishedInv'
  BY <1>5, <1>7, PublishedStays
<1>9. UNCHANGED <<chosen, up, late, onPage, tab, spent>>
  BY DEF uploadVars, downloadVars
<1>10. /\ \A u \in Uploads : UploadHonest(u)'
       /\ \A q \in late' : InOrder(q)'
       /\ \A t \in Tabs : TabHonest(t)'
  BY <1>1, <1>7, <1>9, OthersStay
<1>11. TypeOK'
  BY <1>7, <1>9 DEF ExchangeInv, TypeOK, UploadTypeOK, DownloadTypeOK, ServiceGrows
<1> QED BY <1>8, <1>10, <1>11 DEF ExchangeInv

LEMMA StepInv == ExchangeInv /\ [Next]_vars => ExchangeInv'
<1> SUFFICES ASSUME ExchangeInv, [Next]_vars PROVE ExchangeInv'
  OBVIOUS
<1>1. CASE UNCHANGED vars
  <2>1. UNCHANGED <<up, late>> /\ UNCHANGED serviceVars /\ UNCHANGED downloadVars
        /\ chosen' = chosen /\ onPage' = onPage
    BY <1>1 DEF vars, uploadVars
  <2>2. chosen \in [file : BOOLEAN, enabled : BOOLEAN] /\ onPage \in Uploads \cup {Form}
    BY TypeUnfolded DEF ExchangeInv
  <2> QED BY <2>1, <2>2, PageMoves
<1>2. CASE UploadNext(Views) /\ UNCHANGED downloadVars
  BY <1>2, UploadNextInv
<1>3. CASE DownloadNext(Links) /\ UNCHANGED uploadVars
  BY <1>3, DownloadNextInv
<1>4. CASE \E f \in Links : SpentElsewhere(f) /\ UNCHANGED <<uploadVars, downloadVars>>
  BY <1>4, StepElsewhere
<1> QED BY <1>1, <1>2, <1>3, <1>4 DEF Next
------------------------------------------------------------------------------
(* The service and both pages stay well-typed, an upload is published once *)
(* and whole, an upload knows which of its slices are stored, and a tab    *)
(* knows whether its click has taken a view.                               *)
THEOREM ExchangeInvariant == Spec => []ExchangeInv
BY InitInv, StepInv, PTL DEF Spec

(* A link names a file with all the bytes of the upload it was made of,    *)
(* whatever was sent twice, executed late or given up, and whether the     *)
(* service takes slices or makes a file of each (fileUpload.js).           *)
THEOREM LinksNameWholeFiles == Spec => []LinkNamesTheWholeFile
<1>1. ExchangeInv => LinkNamesTheWholeFile
  BY DEF ExchangeInv, UploadHonest, Names, LinkNamesTheWholeFile
<1> QED BY <1>1, ExchangeInvariant, PTL

(* A service of slices stores one file of an upload, although a slice that *)
(* seemed to fail is sent again and may be executed twice, early or late.  *)
THEOREM UploadsAreStoredOnce == Spec => []OneFilePerUpload
<1>1. ExchangeInv => OneFilePerUpload
  <2> SUFFICES ASSUME ExchangeInv, chunked,
                      NEW i \in 1 .. Len(files), NEW j \in 1 .. Len(files),
                      files[i].upload = files[j].upload
               PROVE  i = j
    BY DEF OneFilePerUpload
  <2>1. published[files[i].upload] = i /\ published[files[j].upload] = j
    BY DEF ExchangeInv, PublishedInv
  <2> QED BY <2>1
<1> QED BY <1>1, ExchangeInvariant, PTL

(* A click on the download page takes one view at most, whatever the page  *)
(* repeats, and the page says "gone" or asks for a passphrase only when    *)
(* its own click took none (view-file.ts, fileApi.js).                     *)
THEOREM DownloadsTakeOneView == Spec => []OneViewPerDownload
<1>1. ExchangeInv => OneViewPerDownload
  BY DEF ExchangeInv, TabHonest, OneViewPerDownload
<1> QED BY <1>1, ExchangeInvariant, PTL
====
