----------------------------- MODULE FileService -----------------------------
(***************************************************************************)
(* The file service as its clients see it: uploads in slices, or the whole *)
(* file in one request, and files that are handed out a few times.  What   *)
(* ChunkedUpload shows of one upload id is taken for granted here: slices  *)
(* may be sent again, the last one publishes once, and its repetition is   *)
(* answered with the same id.                                              *)
(***************************************************************************)
EXTENDS SecretKeys, Sequences

CONSTANTS
    Uploads,    \* upload ids
    Slices,     \* slices of a file
    MaxViews,
    MaxFiles    \* bound on the files stored

ASSUME FileServiceAssumption ==
    /\ Slices \in Nat \ {0}
    /\ MaxViews \in Nat \ {0}
    /\ MaxFiles \in Nat

VARIABLES
    chunked,    \* whether the server knows chunked uploads
    received,   \* the slices stored under each upload id
    published,  \* the file each upload became, 0 before
    files,      \* the files stored so far: upload, whether whole, views left
    locked      \* the uploads encrypted under a passphrase

serviceVars == <<chunked, received, published, files, locked>>

File == [upload : Uploads, whole : BOOLEAN, left : 0 .. MaxViews]
Request == [upload : Uploads, index : 0 .. Slices - 1, whole : BOOLEAN]

ServiceTypeOK ==
    /\ chunked \in BOOLEAN
    /\ received \in [Uploads -> SUBSET (0 .. Slices - 1)]
    /\ published \in [Uploads -> 0 .. MaxFiles]
    /\ files \in Seq(File) /\ Len(files) <= MaxFiles
    /\ locked \subseteq Uploads

ServiceInit ==
    /\ chunked \in BOOLEAN
    /\ received = [u \in Uploads |-> {}]
    /\ published = [u \in Uploads |-> 0]
    /\ files = <<>>
    /\ locked = {}

IsLast(q) == q.index = Slices - 1

(* A file of its own comes of every request with the whole file, and of    *)
(* any request to a server that knows no slices and takes each for a file. *)
Single(q) == q.whole \/ ~ chunked

NewFile(u, whole, views) == Append(files, [upload |-> u, whole |-> whole, left |-> views])

(* The id in the answer to a request, 0 for a slice that is not the last.  *)
AnswerId(q) ==
    IF Single(q) THEN Len(files) + 1
    ELSE IF ~ IsLast(q) THEN 0
    ELSE IF published[q.upload] # 0 THEN published[q.upload] ELSE Len(files) + 1

(* What a request for an upload of so many views does.                     *)
Serve(q, views) ==
    IF Single(q)
    THEN /\ files' = NewFile(q.upload, q.whole \/ Slices = 1, views)
         /\ UNCHANGED <<received, published>>
    ELSE /\ received' = [received EXCEPT ![q.upload] = @ \cup {q.index}]
         /\ IF IsLast(q) /\ published[q.upload] = 0
            THEN /\ files' = NewFile(q.upload, received'[q.upload] = 0 .. Slices - 1, views)
                 /\ published' = [published EXCEPT ![q.upload] = Len(files) + 1]
            ELSE UNCHANGED <<files, published>>

(* What the sender encrypted of an upload, and what the service has of it. *)
Encrypted(u, whole) == encryptSecretBytes(u, whole, fullSecretKey(u \in locked, u))

(* The service knows a reader by the hash of the token presented.          *)
RightKey(f, typed) ==
    LET u == files[f].upload
    IN hashReadToken(hashSecretKey(fullSecretKey(typed, u))) = Encrypted(u, TRUE).readTokenHash

(* A payload opens under the same key, when all of it is there.            *)
decryptFile(f, typed) ==
    LET u == files[f].upload
    IN opens(Encrypted(u, files[f].whole).bytes, fullSecretKey(typed, u))

Take(f) == files' = [files EXCEPT ![f].left = @ - 1]

(* Someone else downloads the file, or its life ends.                      *)
SpentElsewhere(f) ==
    /\ files[f].left > 0
    /\ \E v \in 0 .. files[f].left - 1 : files' = [files EXCEPT ![f].left = v]
    /\ UNCHANGED <<chunked, received, published, locked>>
==============================================================================
