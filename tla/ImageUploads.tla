---------------------------- MODULE ImageUploads ----------------------------
(***************************************************************************)
(* Chunked image uploads (internal/images/uploads.go, store.go, api.go).   *)
(* A session is a row in upload_sessions; its chunks, and the assembled    *)
(* image, are files in a directory of its own; a finished image is a row   *)
(* in images and a file in the catalog directory.  The two stores are      *)
(* written in separate steps by concurrent HTTP handlers, and a restart    *)
(* keeps both but forgets the handlers.                                    *)
(***************************************************************************)
EXTENDS Naturals, FiniteSets

CONSTANTS
  Uploads,                   \* ids of upload sessions, drawn once each
  NumChunks,                 \* the most chunks an upload is cut into
  Length,                    \* of each session: how many it has
  Names, Contents,           \* upload names and the bytes an operator sends
  Handlers,                  \* HTTP requests served at the same time
  MaxSessions,               \* MaxUploadSessions
  ConcurrentDeletes,         \* FALSE: no image is deleted while one is filed
  MaxCrashes,                \* bound on controller restarts
  Nil

ASSUME ChunksPositive == NumChunks \in Nat \ {0}
ASSUME LengthsPositive == Length \in [Uploads -> 1 .. NumChunks]
ASSUME UploadBounds == MaxSessions \in Nat /\ MaxCrashes \in Nat
ASSUME NoUploadIsNil == Nil \notin Uploads \cup Names \cup Contents

VARIABLES
  sessions,                  \* table upload_sessions
  images,                    \* table images; an image has its session's id
  partial, chunk,            \* files chunk-N.partial and chunk-N
  stage,                     \* file "assembled" of a session
  files,                     \* the catalog directory
  handler,                   \* the requests in progress
  lost,                      \* history: finalizations a restart cut short
  skipped,                   \* history: sessions sent a chunk before an earlier one
  crashes

tables == <<sessions, images>>
disk   == <<partial, chunk, stage, files>>
vars   == <<tables, disk, handler, lost, skipped, crashes>>

Chunks == 1 .. NumChunks

(* What a file holds.  "short": fewer bytes than declared; "holes": the    *)
(* declared length, but bytes missing in between; "whole": what was sent.  *)
FileState == {"none", "short", "holes", "whole"}

(* The sha256 of an assembled file: that of the bytes the operator sent,   *)
(* or of a damaged version of them.                                        *)
Sha == Contents \X {"whole", "holes"}
ASSUME NoShaIsNil == Nil \notin Sha

(* sanitizeFilename keeps the name; uniqueFilenameTx may add the hash.     *)
FileName == Names \X (Sha \cup {Nil})

Session == [state : {"unissued", "uploading", "finalizing", "gone"},
            name : Names \cup {Nil}, content : Contents \cup {Nil},
            hashed : BOOLEAN, high : 0 .. NumChunks]
NoSession == [state |-> "unissued", name |-> Nil, content |-> Nil, hashed |-> FALSE, high |-> 0]
Image == [file : FileName \cup {Nil}, sha : Sha \cup {Nil}]
NoImage == [file |-> Nil, sha |-> Nil]

(* One request: where it is, its session and chunk, the file its open      *)
(* descriptor points to, whether nobody truncated that file since, what    *)
(* concatChunks has read so far, and the image row it works on.            *)
Handler == [pc : {"idle", "insert", "open", "stream", "rename", "bump", "verify", "concat",
                  "commit", "move", "abort", "unlink"},
            upload : Uploads \cup {Nil}, n : 0 .. NumChunks,
            fd : {"none", "partial", "chunk", "unlinked"}, clean : BOOLEAN,
            read : FileState, image : Image]
Idle == [pc |-> "idle", upload |-> Nil, n |-> 0, fd |-> "none", clean |-> TRUE,
         read |-> "none", image |-> NoImage]

TypeOK ==
  /\ sessions \in [Uploads -> Session]
  /\ images \in [Uploads -> Image]
  /\ partial \in [Uploads -> [Chunks -> FileState]]
  /\ chunk \in [Uploads -> [Chunks -> FileState]]
  /\ stage \in [Uploads -> FileState]
  /\ files \in [FileName -> Sha \cup {Nil}]
  /\ handler \in [Handlers -> Handler]
  /\ lost \in SUBSET Uploads /\ skipped \in SUBSET Uploads
  /\ crashes \in Nat

NoFiles == [n \in Chunks |-> "none"]

Init ==
  /\ sessions = [u \in Uploads |-> NoSession]
  /\ images = [u \in Uploads |-> NoImage]
  /\ partial = [u \in Uploads |-> NoFiles] /\ chunk = partial
  /\ stage = [u \in Uploads |-> "none"]
  /\ files = [f \in FileName |-> Nil]
  /\ handler = [h \in Handlers |-> Idle]
  /\ lost = {} /\ skipped = {} /\ crashes = 0

Live(u) == sessions[u].state \in {"uploading", "finalizing"}
LiveSessions == {u \in Uploads : Live(u)}
InCatalog(u) == images[u] # NoImage
Finalizing == {"verify", "concat", "commit", "move"}

(* The request of h goes on at pc, or has been answered.                   *)
GoTo(h, pc) == handler' = [handler EXCEPT ![h].pc = pc]
Answer(h) == handler' = [handler EXCEPT ![h] = Idle]
At(h, pc) == handler[h].pc = pc

-----------------------------------------------------------------------------
(* POST /images/uploads.  The checks for a duplicate and for the number of *)
(* open sessions are SELECTs of their own, before the INSERT.  The request *)
(* names the image; read = "whole" stands for an expected_sha256 in it.    *)
CreateCheck(h, name, content, hashed) ==
  LET wanted == [file |-> <<name, Nil>>, sha |-> <<content, "whole">>] IN
  /\ At(h, "idle")
  /\ hashed => \A v \in Uploads : images[v].sha # wanted.sha
  /\ Cardinality(LiveSessions) < MaxSessions
  /\ handler' = [handler EXCEPT ![h] =
       [Idle EXCEPT !.pc = "insert", !.read = IF hashed THEN "whole" ELSE "none", !.image = wanted]]
  /\ UNCHANGED <<tables, disk, lost, skipped, crashes>>

CreateInsert(h, u) ==
  LET asked == handler[h] IN
  /\ At(h, "insert")
  /\ sessions[u] = NoSession
  /\ sessions' = [sessions EXCEPT ![u] =
       [state |-> "uploading", name |-> asked.image.file[1], content |-> asked.image.sha[1],
        hashed |-> asked.read = "whole", high |-> 0]]
  /\ Answer(h)
  /\ UNCHANGED <<images, disk, lost, skipped, crashes>>

-----------------------------------------------------------------------------
(* PUT /images/uploads/{uid}/chunks/{n}: WriteChunk.                       *)

(* The session row is read once, before the body; a session that is being  *)
(* finalized refuses it.  Any chunk will do: the upload page sends them in *)
(* order, another client need not.                                         *)
ChunkBegin(h, u, n) ==
  /\ At(h, "idle")
  /\ sessions[u].state = "uploading" /\ n <= Length[u]
  /\ handler' = [handler EXCEPT ![h] = [Idle EXCEPT !.pc = "open", !.upload = u, !.n = n]]
  /\ skipped' = IF \E k \in 1 .. n - 1 : chunk[u][k] = "none" THEN skipped \cup {u} ELSE skipped
  /\ UNCHANGED <<tables, disk, lost, crashes>>

(* Requests other than h that write through the .partial file of (u, n).   *)
SharePartial(g, u, n) ==
  handler[g].upload = u /\ handler[g].n = n /\ handler[g].fd = "partial"

(* MkdirAll and open(O_CREATE|O_TRUNC): whoever has the file open already  *)
(* shares it with h from now on, and has lost what it wrote.               *)
ChunkOpen(h) ==
  LET u == handler[h].upload  n == handler[h].n IN
  /\ At(h, "open")
  /\ partial' = [partial EXCEPT ![u][n] = "short"]
  /\ handler' = [g \in Handlers |->
       IF g = h THEN [handler[g] EXCEPT !.pc = "stream", !.fd = "partial"]
       ELSE IF SharePartial(g, u, n) THEN [handler[g] EXCEPT !.clean = FALSE]
       ELSE handler[g]]
  /\ UNCHANGED <<tables, chunk, stage, files, lost, skipped, crashes>>

(* What the file holds when h has written its whole body.  Bytes written   *)
(* before somebody else truncated the file are gone.                       *)
Written(h, old) ==
  IF handler[h].clean \/ old = "whole" THEN {"whole"} ELSE {"whole", "holes", old}

(* The body has the declared length and, if the header names one, the      *)
(* hash: both are taken from the stream, not from the file.                *)
ChunkStream(h) ==
  LET u == handler[h].upload  n == handler[h].n IN
  /\ At(h, "stream")
  /\ \/ /\ handler[h].fd = "partial"
        /\ \E new \in Written(h, partial[u][n]) : partial' = [partial EXCEPT ![u][n] = new]
        /\ UNCHANGED chunk
     \/ /\ handler[h].fd = "chunk"
        /\ \E new \in Written(h, chunk[u][n]) : chunk' = [chunk EXCEPT ![u][n] = new]
        /\ UNCHANGED partial
     \/ /\ handler[h].fd = "unlinked"
        /\ UNCHANGED <<partial, chunk>>
  /\ handler' = [handler EXCEPT ![h].pc = "rename", ![h].fd = "none"]
  /\ UNCHANGED <<tables, stage, files, lost, skipped, crashes>>

FailAndBump(h) ==          \* wrong on purpose: counts a chunk that was refused
  LET u == handler[h].upload  n == handler[h].n IN
  /\ At(h, "stream")
  /\ partial' = [partial EXCEPT ![u][n] = "none"]
  /\ GoTo(h, "bump")
  /\ UNCHANGED <<tables, chunk, stage, files, lost, skipped, crashes>>

(* os.Remove(tmp), after a broken connection, a wrong length or hash: the  *)
(* path may be somebody else's file by now.                                *)
ChunkFail(h) ==
  LET u == handler[h].upload  n == handler[h].n IN
  /\ At(h, "stream")
  /\ partial' = [partial EXCEPT ![u][n] = "none"]
  /\ handler' = [g \in Handlers |->
       IF g = h THEN Idle
       ELSE IF SharePartial(g, u, n) THEN [handler[g] EXCEPT !.fd = "unlinked"]
       ELSE handler[g]]
  /\ UNCHANGED <<tables, chunk, stage, files, lost, skipped, crashes>>

(* os.Rename(tmp, final): descriptors follow the file.                     *)
ChunkRename(h) ==
  LET u == handler[h].upload  n == handler[h].n
      Follow(fd) == CASE fd = "partial" -> "chunk" [] fd = "chunk" -> "unlinked" [] OTHER -> fd IN
  /\ At(h, "rename")
  /\ IF partial[u][n] = "none"
       THEN Answer(h) /\ UNCHANGED <<partial, chunk>>
       ELSE /\ chunk' = [chunk EXCEPT ![u][n] = partial[u][n]]
            /\ partial' = [partial EXCEPT ![u][n] = "none"]
            /\ handler' = [g \in Handlers |->
                 IF g = h THEN [handler[g] EXCEPT !.pc = "bump"]
                 ELSE IF handler[g].upload = u /\ handler[g].n = n
                   THEN [handler[g] EXCEPT !.fd = Follow(@)] ELSE handler[g]]
  /\ UNCHANGED <<tables, stage, files, lost, skipped, crashes>>

CountChunks(h) ==          \* wrong on purpose: a counter, so retries count twice
  LET u == handler[h].upload IN
  /\ At(h, "bump")
  /\ sessions' = IF Live(u) THEN [sessions EXCEPT ![u].high = @ + 1] ELSE sessions
  /\ Answer(h)
  /\ UNCHANGED <<images, disk, lost, skipped, crashes>>

(* BumpUploadedChunks, a high-water mark; that it failed is only logged.   *)
ChunkBump(h) ==
  LET u == handler[h].upload  n == handler[h].n IN
  /\ At(h, "bump")
  /\ \/ Live(u) /\ sessions[u].high < n /\ sessions' = [sessions EXCEPT ![u].high = n]
     \/ UNCHANGED sessions
  /\ Answer(h)
  /\ UNCHANGED <<images, disk, lost, skipped, crashes>>

-----------------------------------------------------------------------------
(* POST /images/uploads/{uid}/finalize: FinalizeUpload.                    *)

ClaimAgain(h, u) ==        \* wrong on purpose: the UPDATE has no state = 'uploading'
  /\ At(h, "idle")
  /\ Live(u)
  /\ sessions' = [sessions EXCEPT ![u].state = "finalizing"]
  /\ handler' = [handler EXCEPT ![h] = [Idle EXCEPT !.pc = "verify", !.upload = u]]
  /\ UNCHANGED <<images, disk, lost, skipped, crashes>>

(* claimFinalize: one conditional UPDATE.                                  *)
FinalizeClaim(h, u) ==
  /\ At(h, "idle")
  /\ sessions[u].state = "uploading"
  /\ sessions' = [sessions EXCEPT ![u].state = "finalizing"]
  /\ handler' = [handler EXCEPT ![h] = [Idle EXCEPT !.pc = "verify", !.upload = u]]
  /\ UNCHANGED <<images, disk, lost, skipped, crashes>>

ForgetRelease(h) ==        \* wrong on purpose: an early return without the release
  /\ stage' = [stage EXCEPT ![handler[h].upload] = "none"]
  /\ Answer(h)
  /\ UNCHANGED <<sessions, partial, chunk, files>>

(* The deferred releaseFinalize, after os.Remove(stage).                   *)
Release(h) ==
  LET u == handler[h].upload IN
  /\ sessions' = IF sessions[u].state = "finalizing"
                   THEN [sessions EXCEPT ![u].state = "uploading"] ELSE sessions
  /\ stage' = [stage EXCEPT ![u] = "none"]
  /\ Answer(h)
  /\ UNCHANGED <<partial, chunk, files>>

(* Every chunk must be there before anything is assembled.                 *)
FinalizeVerify(h) ==
  LET u == handler[h].upload IN
  /\ At(h, "verify")
  /\ \/ /\ \A n \in 1 .. Length[u] : chunk[u][n] # "none"
        /\ handler' = [handler EXCEPT ![h].pc = "concat", ![h].n = 1, ![h].read = "whole"]
        /\ stage' = [stage EXCEPT ![u] = "short"]
        /\ UNCHANGED <<sessions, partial, chunk, files>>
     \/ /\ \E n \in 1 .. Length[u] : chunk[u][n] = "none"
        /\ Release(h)
  /\ UNCHANGED <<images, lost, skipped, crashes>>

(* The assembled file is as bad as the worst chunk read.                   *)
Worse(a, b) == CASE "short" \in {a, b} -> "short" [] "holes" \in {a, b} -> "holes" [] OTHER -> "whole"

(* concatChunks, one chunk at a time; the last one is followed by the      *)
(* checks of the length and of the expected hash, if the client gave one.  *)
FinalizeConcat(h) ==
  LET u == handler[h].upload
      n == handler[h].n
      all == Worse(handler[h].read, chunk[u][n])
      bad == all = "short" \/ (sessions[u].hashed /\ all = "holes") IN
  /\ At(h, "concat")
  /\ \/ /\ chunk[u][n] = "none" \/ (n = Length[u] /\ bad)
        /\ Release(h)
     \/ /\ chunk[u][n] # "none" /\ n < Length[u]
        /\ handler' = [handler EXCEPT ![h].n = n + 1, ![h].read = all]
        /\ UNCHANGED <<sessions, disk>>
     \/ /\ chunk[u][n] # "none" /\ n = Length[u] /\ ~bad
        /\ stage' = IF stage[u] = "none" THEN stage ELSE [stage EXCEPT ![u] = all]
        /\ handler' = [handler EXCEPT ![h] = [Idle EXCEPT !.pc = "commit", !.upload = u, !.read = all]]
        /\ UNCHANGED <<sessions, partial, chunk, files>>
  /\ UNCHANGED <<images, lost, skipped, crashes>>

(* uniqueFilenameTx: the upload name, with the hash when it is taken.      *)
UniqueFilename(name, sha) ==
  IF \E v \in Uploads : images[v].file = <<name, Nil>> /\ images[v].sha # sha
    THEN <<name, sha>> ELSE <<name, Nil>>

(* FinalizeImage, one transaction: dedupe, derive the file name, insert    *)
(* the row, delete the session.  That the session may be gone already is   *)
(* not checked.                                                            *)
FinalizeCommit(h) ==
  LET u == handler[h].upload
      sha == <<sessions[u].content, handler[h].read>>
      row == [file |-> UniqueFilename(sessions[u].name, sha), sha |-> sha] IN
  /\ At(h, "commit")
  /\ ConcurrentDeletes \/ \A g \in Handlers : ~At(g, "unlink")
  /\ \/ /\ \E v \in Uploads : images[v].sha = sha
        /\ Release(h)
        /\ UNCHANGED images
     \/ /\ \A v \in Uploads : images[v].sha # sha
        /\ images' = [images EXCEPT ![u] = row]
        /\ sessions' = [sessions EXCEPT ![u].state = "gone"]
        /\ handler' = [handler EXCEPT ![h].pc = "move", ![h].image = row]
        /\ UNCHANGED disk
  /\ UNCHANGED <<lost, skipped, crashes>>

MoveAnyway(h) ==           \* wrong on purpose: a failed rename keeps the row
  LET u == handler[h].upload  row == handler[h].image IN
  /\ At(h, "move")
  /\ files' = IF stage[u] = "none" THEN files ELSE [files EXCEPT ![row.file] = row.sha]
  /\ stage' = [stage EXCEPT ![u] = "none"]
  /\ chunk' = [chunk EXCEPT ![u] = NoFiles] /\ partial' = [partial EXCEPT ![u] = NoFiles]
  /\ Answer(h)
  /\ UNCHANGED <<tables, lost, skipped, crashes>>

(* RemoveAll of the session's directory.                                   *)
RemoveDir(h, u) ==
  /\ chunk' = [chunk EXCEPT ![u] = NoFiles]
  /\ partial' = [partial EXCEPT ![u] = NoFiles]
  /\ stage' = [stage EXCEPT ![u] = "none"]
  /\ handler' = [g \in Handlers |->
       IF g = h THEN Idle
       ELSE IF handler[g].upload = u /\ handler[g].fd # "none"
         THEN [handler[g] EXCEPT !.fd = "unlinked"] ELSE handler[g]]

(* Only with the row committed is the file renamed into the catalog; if    *)
(* that fails, the row is taken back.                                      *)
FinalizeMove(h) ==
  LET u == handler[h].upload  row == handler[h].image IN
  /\ At(h, "move")
  /\ \/ /\ stage[u] # "none"
        /\ files' = [files EXCEPT ![row.file] = row.sha]
        /\ RemoveDir(h, u)
        /\ UNCHANGED tables
     \/ /\ stage[u] = "none"
        /\ images' = [images EXCEPT ![u] = NoImage]
        /\ Answer(h)
        /\ UNCHANGED <<sessions, disk>>
  /\ UNCHANGED <<lost, skipped, crashes>>

-----------------------------------------------------------------------------
(* DELETE /images/uploads/{uid}: AbortUpload, whatever the session's state.*)
AbortRow(h, u) ==
  /\ At(h, "idle")
  /\ Live(u)
  /\ sessions' = [sessions EXCEPT ![u].state = "gone"]
  /\ handler' = [handler EXCEPT ![h] = [Idle EXCEPT !.pc = "abort", !.upload = u]]
  /\ UNCHANGED <<images, disk, lost, skipped, crashes>>

AbortDir(h) ==
  /\ At(h, "abort")
  /\ RemoveDir(h, handler[h].upload)
  /\ UNCHANGED <<tables, files, lost, skipped, crashes>>

(* The last step of DELETE /images/{id}: DeleteImageFile removes the row,  *)
(* then whatever file has its name.                                        *)
DeleteRow(h, u) ==
  /\ At(h, "idle")
  /\ InCatalog(u)
  /\ ConcurrentDeletes \/ \A g \in Handlers : ~At(g, "move")
  /\ images' = [images EXCEPT ![u] = NoImage]
  /\ handler' = [handler EXCEPT ![h] = [Idle EXCEPT !.pc = "unlink", !.upload = u, !.image = images[u]]]
  /\ UNCHANGED <<sessions, disk, lost, skipped, crashes>>

DeleteFile(h) ==
  /\ At(h, "unlink")
  /\ files' = [files EXCEPT ![handler[h].image.file] = Nil]
  /\ Answer(h)
  /\ UNCHANGED <<tables, partial, chunk, stage, lost, skipped, crashes>>

(* The controller exits and starts again.  RewriteLegacyNames finds every  *)
(* row with a file name and does nothing.                                  *)
Crash ==
  /\ crashes < MaxCrashes
  /\ crashes' = crashes + 1
  /\ lost' = lost \cup {handler[h].upload : h \in {g \in Handlers : handler[g].pc \in Finalizing}}
  /\ handler' = [h \in Handlers |-> Idle]
  /\ UNCHANGED <<tables, disk, skipped>>

Create(h) == \E name \in Names, content \in Contents, hashed \in BOOLEAN :
               CreateCheck(h, name, content, hashed)
Write(h) == ChunkOpen(h) \/ ChunkStream(h) \/ ChunkFail(h) \/ ChunkRename(h) \/ ChunkBump(h)
Finalize(h) == FinalizeVerify(h) \/ FinalizeConcat(h) \/ FinalizeCommit(h) \/ FinalizeMove(h)

(* A request once begun runs to its end.                                   *)
Serve(h) == (\E u \in Uploads : CreateInsert(h, u)) \/ Write(h) \/ Finalize(h)
              \/ AbortDir(h) \/ DeleteFile(h)

Next ==
  \/ \E h \in Handlers :
       \/ Create(h)
       \/ Serve(h)
       \/ \E u \in Uploads : FinalizeClaim(h, u) \/ AbortRow(h, u) \/ DeleteRow(h, u)
       \/ \E u \in Uploads, n \in Chunks : ChunkBegin(h, u, n)
  \/ Crash

Spec == Init /\ [][Next]_vars

-----------------------------------------------------------------------------
(* Properties.                                                             *)

(* What the catalog promises an installer: the file an image row names     *)
(* holds the bytes whose hash the row records, and they are the bytes the  *)
(* operator sent wherever the operator gave a hash.  Excused are rows      *)
(* whose file is just being renamed into place, or whose finalization a    *)
(* restart cut short (FinalizeUpload commits the row first).               *)
CatalogIntact == \A u \in Uploads : InCatalog(u) =>
  /\ \/ files[images[u].file] = images[u].sha
     \/ \E h \in Handlers : At(h, "move") /\ handler[h].upload = u
     \/ u \in lost
  /\ sessions[u].hashed => images[u].sha = <<sessions[u].content, "whole">>

(* No two requests assemble one session: the claim is exclusive from       *)
(* claimFinalize to the release, the rename or the abort.                  *)
OneFinalizer == \A g, h \in Handlers :
  (handler[g].pc \in Finalizing /\ handler[h].pc \in Finalizing /\ g # h)
    => handler[g].upload # handler[h].upload

(* An interrupted upload resumes at uploaded_chunks + 1.  The mark is on a *)
(* chunk that is on disk, whatever was retried, refused, aborted or        *)
(* restarted, and so is every chunk below it, unless the client itself     *)
(* once sent a chunk before an earlier one was there: the mark then jumps, *)
(* and only FinalizeVerify sees the gap.                                   *)
ResumePoint == \A u \in Uploads : Live(u) =>
  /\ sessions[u].high > 0 => chunk[u][sessions[u].high] # "none"
  /\ u \notin skipped => \A n \in 1 .. sessions[u].high : chunk[u][n] # "none"

(* A claimed session is in the hands of a request that will release or     *)
(* file it: every early return gives the claim back.  Only a restart in    *)
(* the middle leaves it in 'finalizing' (until an operator aborts it:      *)
(* releaseFinalize is deferred in memory).                                 *)
ClaimsHaveOwners == \A u \in Uploads : sessions[u].state = "finalizing" =>
  u \in lost \/ \E h \in Handlers : handler[h].upload = u /\ handler[h].pc \in {"verify", "concat", "commit"}
=============================================================================
