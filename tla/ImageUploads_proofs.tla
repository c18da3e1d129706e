------------------------- MODULE ImageUploads_proofs -------------------------
(***************************************************************************)
(* Proofs about chunked uploads, for any number of sessions, chunks,       *)
(* concurrent requests and restarts.                                       *)
(***************************************************************************)
EXTENDS ImageUploads, TLAPS

Filed == [file : FileName, sha : Sha]

(* What a request has established when it reaches a statement.             *)
HandlerOK(c) ==
  /\ c.pc \in {"insert", "move", "unlink"} => c.image \in Filed
  /\ c.pc \notin {"idle", "insert"} => c.upload \in Uploads
  /\ c.pc \in {"open", "stream", "rename", "bump", "concat"} => c.n \in Chunks
  /\ c.pc = "commit" => c.read \in {"whole", "holes"}
HandlersOK == \A h \in Handlers : HandlerOK(handler[h])
Issued == \A h \in Handlers : handler[h].pc \notin {"idle", "insert", "unlink"} =>
            sessions[handler[h].upload].state # "unissued"
SessionsNamed == \A u \in Uploads : sessions[u].state # "unissued" =>
                   sessions[u].name \in Names /\ sessions[u].content \in Contents
ImagesFiled == \A u \in Uploads : images[u] = NoImage \/ images[u] \in Filed
Typed == TypeOK /\ HandlersOK /\ Issued /\ SessionsNamed /\ ImagesFiled

(* One request moves; of the others a file may be truncated or unlinked.   *)
Stays(c, d) == c.pc = d.pc /\ c.upload = d.upload /\ c.n = d.n /\ c.read = d.read /\ c.image = d.image
Alone(h) ==
  /\ handler' \in [Handlers -> Handler]
  /\ \A g \in Handlers : g # h => Stays(handler'[g], handler[g])

LEMMA IdleOK == Idle \in Handler /\ HandlerOK(Idle) /\ Idle.pc = "idle"
  BY ChunksPositive DEF Idle, Handler, HandlerOK, NoImage, Image, FileState

LEMMA FiledImage == Filed \subseteq Image
  BY DEF Filed, Image

LEMMA Requests ==
  ASSUME Typed, NEW h \in Handlers
  PROVE  handler[h] \in Handler /\ HandlerOK(handler[h]) /\ handler \in [Handlers -> Handler]
  BY DEF Typed, TypeOK, HandlersOK

LEMMA AnswerMoves == ASSUME Typed, NEW h \in Handlers, Answer(h) PROVE Alone(h) /\ handler'[h] = Idle
  BY IdleOK, Requests DEF Answer, Alone, Stays

LEMMA ExceptMoves ==
  ASSUME Typed, NEW h \in Handlers, NEW c \in Handler, handler' = [handler EXCEPT ![h] = c]
  PROVE  Alone(h) /\ handler'[h] = c
  BY Requests DEF Alone, Stays

LEMMA GoToMoves ==
  ASSUME Typed, NEW h \in Handlers, NEW pc, GoTo(h, pc),
         pc \in {"idle", "insert", "open", "stream", "rename", "bump", "verify", "concat", "commit", "move", "abort", "unlink"}
  PROVE  /\ Alone(h) /\ handler'[h].pc = pc /\ handler'[h].upload = handler[h].upload /\ handler'[h].n = handler[h].n
         /\ handler'[h].image = handler[h].image /\ handler'[h].read = handler[h].read
  BY Requests DEF GoTo, Alone, Stays, Handler

LEMMA RemoveDirMoves == ASSUME Typed, NEW h \in Handlers, NEW u, RemoveDir(h, u) PROVE Alone(h) /\ handler'[h] = Idle
  <1>1. handler \in [Handlers -> Handler] /\ Idle \in Handler
    BY Requests, IdleOK
  <1>2. \A g \in Handlers : [handler[g] EXCEPT !.fd = "unlinked"] \in Handler
    BY <1>1 DEF Handler
  <1> QED
    BY <1>1, <1>2 DEF RemoveDir, Alone, Stays, Handler

LEMMA ReleaseMoves == ASSUME Typed, NEW h \in Handlers, Release(h) PROVE Alone(h) /\ handler'[h] = Idle
  BY AnswerMoves DEF Release

(* What each request may do to a session: make it, count its chunks, and   *)
(* change its state.                                                       *)
SessionsMove ==
  /\ sessions' \in [Uploads -> Session]
  /\ \A u \in Uploads : sessions[u].state # "unissued" =>
       /\ sessions'[u].state # "unissued"
       /\ sessions'[u].name = sessions[u].name /\ sessions'[u].content = sessions[u].content

LEMMA SessionsSame == ASSUME Typed, sessions' = sessions PROVE SessionsMove
  BY DEF Typed, TypeOK, SessionsMove
LEMMA SessionState ==
  ASSUME Typed, NEW u \in Uploads, NEW st \in {"uploading", "finalizing", "gone"}, sessions[u].state # "unissued",
         sessions' = [sessions EXCEPT ![u].state = st]
  PROVE  SessionsMove /\ SessionsNamed'
  <1>1. sessions \in [Uploads -> Session]
    BY DEF Typed, TypeOK
  <1>2. /\ [sessions[u] EXCEPT !.state = st] \in Session
        /\ sessions' = [sessions EXCEPT ![u] = [sessions[u] EXCEPT !.state = st]]
    BY <1>1 DEF Session
  <1>3. sessions' \in [Uploads -> Session]
    BY <1>1, <1>2
  <1>4. \A v \in Uploads : /\ sessions'[v].name = sessions[v].name /\ sessions'[v].content = sessions[v].content
                           /\ v # u => sessions'[v] = sessions[v]
    BY <1>1, <1>2 DEF Session
  <1>5. sessions'[u].state = st
    BY <1>1, <1>2 DEF Session
  <1> QED
    BY <1>3, <1>4, <1>5 DEF Typed, SessionsMove, SessionsNamed
LEMMA SessionHigh ==
  ASSUME Typed, NEW u \in Uploads, NEW n \in 0 .. NumChunks, sessions' = [sessions EXCEPT ![u].high = n]
  PROVE  SessionsMove /\ SessionsNamed'
  <1>1. sessions \in [Uploads -> Session]
    BY DEF Typed, TypeOK
  <1>2. /\ [sessions[u] EXCEPT !.high = n] \in Session
        /\ sessions' = [sessions EXCEPT ![u] = [sessions[u] EXCEPT !.high = n]]
    BY <1>1 DEF Session
  <1>3. \A v \in Uploads : /\ sessions'[v].state = sessions[v].state /\ sessions'[v].name = sessions[v].name
                           /\ sessions'[v].content = sessions[v].content
    BY <1>1, <1>2 DEF Session
  <1>4. sessions' \in [Uploads -> Session]
    BY <1>1, <1>2
  <1> QED
    BY <1>3, <1>4 DEF Typed, SessionsMove, SessionsNamed
LEMMA NamesStay == ASSUME Typed, sessions' = sessions PROVE SessionsNamed'
  BY DEF Typed, SessionsNamed

(* A step that keeps the types does these things.                          *)
LEMMA TypedBy ==
  ASSUME Typed, NEW h \in Handlers, Alone(h), HandlerOK(handler'[h]), SessionsMove, SessionsNamed',
         handler'[h].pc \notin {"idle", "insert", "unlink"} => sessions'[handler'[h].upload].state # "unissued",
         images' \in [Uploads -> Filed \cup {NoImage}],
         partial' \in [Uploads -> [Chunks -> FileState]], chunk' \in [Uploads -> [Chunks -> FileState]],
         stage' \in [Uploads -> FileState], files' \in [FileName -> Sha \cup {Nil}],
         UNCHANGED <<lost, crashes>>, skipped' \in SUBSET Uploads
  PROVE  Typed'
  <1>1. HandlersOK'
    BY Requests DEF HandlersOK, Alone, Stays, HandlerOK
  <1>2. ASSUME NEW g \in Handlers, handler'[g].pc \notin {"idle", "insert", "unlink"}
        PROVE  sessions'[handler'[g].upload].state # "unissued"
    <2>1. CASE g = h
      BY <1>2, <2>1
    <2>2. CASE g # h
      <3>1. handler[g].pc \notin {"idle", "insert", "unlink"} /\ handler'[g].upload = handler[g].upload
        BY <1>2, <2>2 DEF Alone, Stays
      <3>2. handler[g].upload \in Uploads /\ sessions[handler[g].upload].state # "unissued"
        BY <3>1, Requests DEF Typed, Issued, HandlerOK
      <3> QED
        BY <3>1, <3>2 DEF SessionsMove
    <2> QED
      BY <2>1, <2>2
  <1>3. Issued'
    BY <1>2 DEF Issued
  <1>4. images' \in [Uploads -> Image] /\ ImagesFiled'
    BY DEF ImagesFiled, Image, Filed, NoImage
  <1>5. TypeOK'
    BY <1>4 DEF Typed, TypeOK, Alone, SessionsMove
  <1> QED
    BY <1>1, <1>3, <1>4, <1>5 DEF Typed

LEMMA Same == ASSUME Typed
  PROVE  /\ images \in [Uploads -> Filed \cup {NoImage}]
         /\ partial \in [Uploads -> [Chunks -> FileState]] /\ chunk \in [Uploads -> [Chunks -> FileState]]
         /\ stage \in [Uploads -> FileState] /\ files \in [FileName -> Sha \cup {Nil}]
         /\ skipped \in SUBSET Uploads
  BY DEF Typed, TypeOK, ImagesFiled


-----------------------------------------------------------------------------
(* Types, action by action.                                                *)
LEMMA ReleaseSessions ==
  ASSUME Typed, NEW h \in Handlers, Release(h), handler[h].upload \in Uploads
  PROVE  SessionsMove /\ SessionsNamed' /\ stage' \in [Uploads -> FileState]
  <1>1. stage' \in [Uploads -> FileState]
    BY Same DEF Release, FileState
  <1>2. CASE sessions' = sessions
    BY <1>1, <1>2, SessionsSame, NamesStay
  <1>3. CASE sessions[handler[h].upload].state = "finalizing" /\ sessions' = [sessions EXCEPT ![handler[h].upload].state = "uploading"]
    BY <1>1, <1>3, SessionState
  <1> QED
    BY <1>1, <1>2, <1>3 DEF Release

LEMMA ReleaseTyped ==
  ASSUME Typed, NEW h \in Handlers, Release(h), handler[h].upload \in Uploads, UNCHANGED <<images, lost, skipped, crashes>>
  PROVE  Typed'
  BY ReleaseMoves, ReleaseSessions, IdleOK, Same, TypedBy DEF Release

LEMMA WorseTyped ==
  /\ \A a, b \in FileState : Worse(a, b) \in FileState
  /\ \A a, b \in FileState : "none" \notin {a, b} => Worse(a, b) # "none"
  BY DEF Worse, FileState

LEMMA UniqueTyped ==
  ASSUME NEW name \in Names, NEW sha \in Sha PROVE UniqueFilename(name, sha) \in FileName
  BY DEF UniqueFilename, FileName

LEMMA CreateTyped ==
  ASSUME Typed, NEW h \in Handlers, Create(h) \/ \E u \in Uploads : CreateInsert(h, u) PROVE Typed'
  <1>1. CASE Create(h)
    <2>1. PICK name \in Names, content \in Contents, hashed \in BOOLEAN : CreateCheck(h, name, content, hashed)
      BY <1>1 DEF Create
    <2> DEFINE wanted == [file |-> <<name, Nil>>, sha |-> <<content, "whole">>]
               c == [Idle EXCEPT !.pc = "insert", !.read = IF hashed THEN "whole" ELSE "none", !.image = wanted]
    <2>2. wanted \in Filed
      BY DEF Filed, FileName, Sha
    <2> HIDE DEF wanted
    <2>3. c \in Handler /\ c.pc = "insert" /\ c.image = wanted
      BY <2>2, IdleOK, FiledImage DEF Handler, FileState
    <2>4. handler' = [handler EXCEPT ![h] = c]
      BY <2>1 DEF CreateCheck, wanted
    <2> HIDE DEF c
    <2>5. Alone(h) /\ handler'[h] = c /\ HandlerOK(c)
      BY <2>2, <2>3, <2>4, ExceptMoves DEF HandlerOK
    <2> QED
      BY <2>1, <2>3, <2>5, Same, SessionsSame, NamesStay, TypedBy DEF CreateCheck, tables, disk
  <1>2. ASSUME NEW u \in Uploads, CreateInsert(h, u) PROVE Typed'
    <2> DEFINE new == [state |-> "uploading", name |-> handler[h].image.file[1], content |-> handler[h].image.sha[1],
                       hashed |-> handler[h].read = "whole", high |-> 0]
    <2>1. sessions' = [sessions EXCEPT ![u] = new] /\ sessions[u] = NoSession /\ handler[h].image \in Filed
      BY <1>2, Requests DEF CreateInsert, At, HandlerOK
    <2>2. new \in Session /\ new.state = "uploading" /\ new.name \in Names /\ new.content \in Contents
      BY <2>1, ChunksPositive DEF Filed, FileName, Sha, Session
    <2> HIDE DEF new
    <2>3. SessionsMove /\ SessionsNamed'
      BY <2>1, <2>2 DEF Typed, TypeOK, SessionsMove, SessionsNamed, NoSession
    <2> QED
      BY <1>2, <2>3, AnswerMoves, IdleOK, Same, TypedBy DEF CreateInsert, disk
  <1> QED
    BY <1>1, <1>2

LEMMA BeginTyped ==
  ASSUME Typed, NEW h \in Handlers, NEW u \in Uploads,
         (\E n \in Chunks : ChunkBegin(h, u, n)) \/ FinalizeClaim(h, u) \/ AbortRow(h, u) \/ DeleteRow(h, u)
  PROVE  Typed'
  <1>1. ASSUME NEW n \in Chunks, ChunkBegin(h, u, n) PROVE Typed'
    <2> DEFINE c == [Idle EXCEPT !.pc = "open", !.upload = u, !.n = n]
    <2>1. c \in Handler /\ c.pc = "open" /\ c.upload = u /\ c.n = n
      <3>1. n \in 0 .. NumChunks
        BY ChunksPositive DEF Chunks
      <3> QED
        BY <3>1, IdleOK DEF Handler
    <2>2. handler' = [handler EXCEPT ![h] = c] /\ sessions[u].state = "uploading"
      BY <1>1 DEF ChunkBegin
    <2> HIDE DEF c
    <2>3. Alone(h) /\ handler'[h] = c /\ HandlerOK(c)
      BY <2>1, <2>2, ExceptMoves DEF HandlerOK
    <2> QED
      <3>1. skipped' \in SUBSET Uploads
        BY <1>1, Same DEF ChunkBegin
      <3> QED
        BY <1>1, <2>1, <2>2, <2>3, <3>1, Same, SessionsSame, NamesStay, TypedBy DEF ChunkBegin, tables, disk
  <1>2. CASE FinalizeClaim(h, u) \/ AbortRow(h, u)
    <2>1. \A pc \in {"verify", "abort"} : LET c == [Idle EXCEPT !.pc = pc, !.upload = u] IN
            c \in Handler /\ c.pc = pc /\ c.upload = u
      BY IdleOK DEF Handler
    <2>2. \E d \in Handler : handler' = [handler EXCEPT ![h] = d] /\ HandlerOK(d) /\ d.upload = u
      BY <1>2, <2>1 DEF FinalizeClaim, AbortRow, HandlerOK
    <2>3. PICK d \in Handler : handler' = [handler EXCEPT ![h] = d] /\ HandlerOK(d) /\ d.upload = u
      BY <2>2
    <2>4. Alone(h) /\ handler'[h] = d
      BY <2>3, ExceptMoves
    <2>5. sessions[u].state # "unissued"
      BY <1>2 DEF FinalizeClaim, AbortRow, Live
    <2>6. SessionsMove /\ SessionsNamed'
      BY <1>2, <2>5, SessionState DEF FinalizeClaim, AbortRow
    <2>7. sessions'[u].state # "unissued"
      BY <2>5, <2>6 DEF SessionsMove
    <2> QED
      BY <1>2, <2>3, <2>4, <2>6, <2>7, Same, TypedBy DEF FinalizeClaim, AbortRow, disk
  <1>3. CASE DeleteRow(h, u)
    <2> DEFINE c == [Idle EXCEPT !.pc = "unlink", !.upload = u, !.image = images[u]]
    <2>1. images[u] \in Filed
      BY <1>3, Same DEF DeleteRow, InCatalog
    <2>2. c \in Handler /\ c.pc = "unlink" /\ c.image = images[u] /\ c.upload = u
      BY <2>1, IdleOK, FiledImage DEF Handler
    <2>3. handler' = [handler EXCEPT ![h] = c]
      BY <1>3 DEF DeleteRow
    <2> HIDE DEF c
    <2>4. Alone(h) /\ handler'[h] = c /\ HandlerOK(c)
      BY <2>1, <2>2, <2>3, ExceptMoves DEF HandlerOK
    <2>5. images' \in [Uploads -> Filed \cup {NoImage}]
      BY <1>3, Same DEF DeleteRow
    <2> QED
      BY <1>3, <2>2, <2>4, <2>5, Same, SessionsSame, NamesStay, TypedBy DEF DeleteRow, disk
  <1> QED
    BY <1>1, <1>2, <1>3

(* A chunk that is written.                                                *)
InUpload == {"open", "stream", "rename", "bump"}
LEMMA Uploading ==
  ASSUME Typed, NEW h \in Handlers, handler[h].pc \notin {"idle", "insert", "unlink"}
  PROVE  /\ handler[h].upload \in Uploads /\ sessions[handler[h].upload].state # "unissued"
         /\ sessions[handler[h].upload].name \in Names /\ sessions[handler[h].upload].content \in Contents
         /\ handler[h].pc \in InUpload \cup {"concat"} => handler[h].n \in Chunks
  BY Requests DEF Typed, Issued, SessionsNamed, HandlerOK, InUpload

LEMMA WriteMoves ==
  ASSUME Typed, NEW h \in Handlers, Write(h)
  PROVE  /\ Alone(h) /\ handler[h].pc \in InUpload
         /\ \/ handler'[h] = Idle
            \/ /\ handler'[h].pc \in {"stream", "rename", "bump"} /\ handler'[h].upload = handler[h].upload
               /\ handler'[h].n = handler[h].n
         /\ handler'[h].pc = "bump" => ChunkRename(h) /\ partial[handler[h].upload][handler[h].n] # "none"
  <1>1. handler[h].pc \in InUpload
    BY DEF Write, ChunkOpen, ChunkStream, ChunkFail, ChunkRename, ChunkBump, At, InUpload
  <1>2. handler \in [Handlers -> Handler] /\ Idle \in Handler
    BY Requests, IdleOK
  <1>3. CASE ChunkOpen(h)
    <2>1. \A g \in Handlers : /\ [handler[g] EXCEPT !.pc = "stream", !.fd = "partial"] \in Handler
                              /\ [handler[g] EXCEPT !.clean = FALSE] \in Handler
      BY <1>2 DEF Handler
    <2>2. handler' = [g \in Handlers |->
            IF g = h THEN [handler[g] EXCEPT !.pc = "stream", !.fd = "partial"]
            ELSE IF SharePartial(g, handler[h].upload, handler[h].n) THEN [handler[g] EXCEPT !.clean = FALSE]
            ELSE handler[g]]
      BY <1>3 DEF ChunkOpen
    <2>3. handler' \in [Handlers -> Handler]
      BY <1>2, <2>1, <2>2
    <2>4. \A g \in Handlers : g # h => Stays(handler'[g], handler[g])
      BY <1>2, <2>2 DEF Stays, Handler
    <2>5. Alone(h)
      BY <2>3, <2>4 DEF Alone
    <2>6. handler'[h].pc = "stream" /\ handler'[h].upload = handler[h].upload /\ handler'[h].n = handler[h].n
      BY <1>2, <2>2 DEF Handler
    <2> QED
      BY <1>1, <2>5, <2>6
  <1>4. CASE ChunkStream(h)
    <2> DEFINE c == [handler[h] EXCEPT !.pc = "rename", !.fd = "none"]
    <2>1. c \in Handler /\ c.pc = "rename" /\ c.upload = handler[h].upload /\ c.n = handler[h].n
      BY <1>2 DEF Handler
    <2>2. handler' = [handler EXCEPT ![h] = c]
      BY <1>2, <1>4 DEF ChunkStream
    <2> HIDE DEF c
    <2>3. Alone(h) /\ handler'[h] = c
      BY <2>1, <2>2, ExceptMoves
    <2> QED
      BY <1>1, <2>1, <2>3
  <1>5. CASE ChunkFail(h)
    <2>1. \A g \in Handlers : [handler[g] EXCEPT !.fd = "unlinked"] \in Handler
      BY <1>2 DEF Handler
    <2>2. Alone(h) /\ handler'[h] = Idle
      BY <1>2, <1>5, <2>1 DEF ChunkFail, Alone, Stays, Handler
    <2> QED
      BY <1>1, <2>2, IdleOK
  <1>6. CASE ChunkRename(h)
    <2>1. CASE Answer(h)
      BY <1>1, <2>1, AnswerMoves, IdleOK
    <2>2. CASE ~Answer(h)
      <3> DEFINE Follow(fd) == CASE fd = "partial" -> "chunk" [] fd = "chunk" -> "unlinked" [] OTHER -> fd
      <3>1. \A fd \in {"none", "partial", "chunk", "unlinked"} : Follow(fd) \in {"none", "partial", "chunk", "unlinked"}
        OBVIOUS
      <3>2. \A g \in Handlers : /\ [handler[g] EXCEPT !.pc = "bump"] \in Handler
                                /\ [handler[g] EXCEPT !.fd = Follow(@)] \in Handler
        BY <1>2, <3>1 DEF Handler
      <3>3. handler' = [g \in Handlers |->
              IF g = h THEN [handler[g] EXCEPT !.pc = "bump"]
              ELSE IF handler[g].upload = handler[h].upload /\ handler[g].n = handler[h].n
                THEN [handler[g] EXCEPT !.fd = Follow(@)] ELSE handler[g]]
            /\ partial[handler[h].upload][handler[h].n] # "none"
        BY <1>6, <2>2 DEF ChunkRename
      <3> HIDE DEF Follow
      <3>4. handler'[h].pc = "bump" /\ handler'[h].upload = handler[h].upload /\ handler'[h].n = handler[h].n
        BY <1>2, <3>3 DEF Handler
      <3>5. \A g \in Handlers : g # h => Stays(handler'[g], handler[g])
        BY <1>2, <3>3 DEF Stays, Handler
      <3>6. Alone(h)
        BY <1>2, <3>2, <3>3, <3>5 DEF Alone
      <3> QED
        BY <1>1, <1>6, <3>3, <3>4, <3>6
    <2> QED
      BY <2>1, <2>2
  <1>7. CASE ChunkBump(h)
    BY <1>1, <1>7, AnswerMoves, IdleOK DEF ChunkBump
  <1> QED
    BY <1>3, <1>4, <1>5, <1>6, <1>7 DEF Write

LEMMA WriteTyped == ASSUME Typed, NEW h \in Handlers, Write(h) PROVE Typed'
  <1> DEFINE u == handler[h].upload  n == handler[h].n
  <1>1. /\ Alone(h) /\ u \in Uploads /\ n \in Chunks /\ sessions[u].state # "unissued"
    BY WriteMoves, Uploading DEF InUpload
  <1>2. HandlerOK(handler'[h]) /\ (handler'[h].pc \notin {"idle", "insert", "unlink"} => handler'[h].upload = u)
    BY <1>1, WriteMoves, IdleOK DEF HandlerOK
  <1>3. SessionsMove /\ SessionsNamed'
    <2>1. CASE sessions' = sessions
      BY <2>1, SessionsSame, NamesStay
    <2>2. CASE ~(sessions' = sessions)
      <3>1. sessions' = [sessions EXCEPT ![u].high = n]
        BY <2>2 DEF Write, ChunkOpen, ChunkStream, ChunkFail, ChunkRename, ChunkBump, tables
      <3>2. n \in 0 .. NumChunks
        BY <1>1, ChunksPositive DEF Chunks
      <3> QED
        BY <1>1, <3>1, <3>2, SessionHigh
    <2> QED
      BY <2>1, <2>2
  <1>4. sessions'[u].state # "unissued"
    BY <1>1, <1>3 DEF SessionsMove
  <1>5. \A old \in FileState : Written(h, old) \subseteq FileState
    BY DEF Written, FileState
  <1>6. partial' \in [Uploads -> [Chunks -> FileState]] /\ chunk' \in [Uploads -> [Chunks -> FileState]]
    <2>1. partial[u][n] \in FileState /\ chunk[u][n] \in FileState
      BY <1>1, Same
    <2>2. ASSUME NEW new \in FileState PROVE /\ [partial EXCEPT ![u][n] = new] \in [Uploads -> [Chunks -> FileState]]
                                             /\ [chunk EXCEPT ![u][n] = new] \in [Uploads -> [Chunks -> FileState]]
      BY Same
    <2>3. CASE ChunkStream(h)
      <3>1. CASE UNCHANGED chunk /\ \E new \in Written(h, partial[u][n]) : partial' = [partial EXCEPT ![u][n] = new]
        BY <1>5, <2>1, <2>2, <3>1, Same
      <3>2. CASE UNCHANGED partial /\ \E new \in Written(h, chunk[u][n]) : chunk' = [chunk EXCEPT ![u][n] = new]
        BY <1>5, <2>1, <2>2, <3>2, Same
      <3>3. CASE UNCHANGED <<partial, chunk>>
        BY <3>3, Same
      <3> QED
        BY <2>3, <3>1, <3>2, <3>3 DEF ChunkStream
    <2>4. CASE ChunkOpen(h)
      <3>1. UNCHANGED chunk /\ partial' = [partial EXCEPT ![u][n] = "short"]
        BY <2>4 DEF ChunkOpen
      <3> QED
        BY <2>2, <3>1, Same DEF FileState
    <2>5. CASE ChunkFail(h)
      <3>1. UNCHANGED chunk /\ (partial' = partial \/ partial' = [partial EXCEPT ![u][n] = "none"])
        BY <2>5 DEF ChunkFail
      <3> QED
        BY <2>2, <3>1, Same DEF FileState
    <2>6. CASE ChunkRename(h)
      <3>1. \/ UNCHANGED <<partial, chunk>>
            \/ partial' = [partial EXCEPT ![u][n] = "none"] /\ chunk' = [chunk EXCEPT ![u][n] = partial[u][n]]
        BY <2>6 DEF ChunkRename, disk
      <3>2. "none" \in FileState
        BY DEF FileState
      <3>3. CASE UNCHANGED <<partial, chunk>>
        BY <3>3, Same
      <3>4. CASE partial' = [partial EXCEPT ![u][n] = "none"] /\ chunk' = [chunk EXCEPT ![u][n] = partial[u][n]]
        <4> DEFINE old == partial[u][n]
        <4>1. old \in FileState
          BY <2>1
        <4> HIDE DEF old
        <4>2. [partial EXCEPT ![u][n] = "none"] \in [Uploads -> [Chunks -> FileState]]
              /\ [chunk EXCEPT ![u][n] = old] \in [Uploads -> [Chunks -> FileState]]
          BY <2>2, <3>2, <4>1
        <4> QED
          BY <3>4, <4>2 DEF old
      <3> QED
        BY <3>1, <3>3, <3>4
    <2>7. CASE ChunkBump(h)
      BY <2>7, Same DEF ChunkBump, disk
    <2> QED
      BY <2>3, <2>4, <2>5, <2>6, <2>7 DEF Write
  <1> QED
    BY <1>1, <1>2, <1>3, <1>4, <1>6, Same, TypedBy
    DEF Write, ChunkOpen, ChunkStream, ChunkFail, ChunkRename, ChunkBump, tables, disk


(* A finalization, and what ends with the removal of files.                *)
LEMMA FinalizeMoves ==
  ASSUME Typed, NEW h \in Handlers, Finalize(h)
  PROVE  /\ Alone(h) /\ handler[h].pc \in Finalizing /\ HandlerOK(handler'[h])
         /\ \/ handler'[h] = Idle
            \/ /\ handler'[h].upload = handler[h].upload
               /\ \/ handler'[h].pc \in {"concat", "commit"} /\ sessions' = sessions
                  \/ handler'[h].pc = "move" /\ sessions' = [sessions EXCEPT ![handler[h].upload].state = "gone"]
  <1> DEFINE u == handler[h].upload  n == handler[h].n
  <1>1. handler[h].pc \in Finalizing
    BY DEF Finalize, FinalizeVerify, FinalizeConcat, FinalizeCommit, FinalizeMove, At, Finalizing
  <1>2. u \in Uploads /\ handler[h] \in Handler /\ sessions[u].name \in Names /\ sessions[u].content \in Contents
    BY <1>1, Uploading, Requests DEF Finalizing
  <1>3. CASE Release(h) \/ Answer(h) \/ RemoveDir(h, u)
    BY <1>1, <1>3, ReleaseMoves, AnswerMoves, RemoveDirMoves, IdleOK
  <1>4. CASE FinalizeVerify(h) /\ ~Release(h)
    <2> DEFINE c == [handler[h] EXCEPT !.pc = "concat", !.n = 1, !.read = "whole"]
    <2>1. 1 \in 0 .. NumChunks /\ 1 \in Chunks
      BY ChunksPositive DEF Chunks
    <2>2. c \in Handler /\ c.pc = "concat" /\ c.upload = u /\ c.n = 1
      BY <1>2, <2>1 DEF Handler, FileState
    <2>3. handler' = [handler EXCEPT ![h] = c] /\ sessions' = sessions
      BY <1>2, <1>4, Requests DEF FinalizeVerify
    <2> HIDE DEF c
    <2>4. Alone(h) /\ handler'[h] = c
      BY <2>2, <2>3, ExceptMoves
    <2> QED
      BY <1>1, <1>2, <2>1, <2>2, <2>3, <2>4 DEF HandlerOK
  <1>5. CASE FinalizeConcat(h) /\ ~Release(h)
    <2> DEFINE all == Worse(handler[h].read, chunk[u][n])
    <2>1. n \in Chunks /\ handler[h].pc = "concat"
      BY <1>5, Uploading, Requests DEF FinalizeConcat, At
    <2>2. chunk[u][n] \in FileState /\ handler[h].read \in FileState /\ chunk[u][n] # "none"
      BY <1>2, <1>5, <2>1, Same DEF FinalizeConcat, Handler
    <2>3. all \in FileState /\ (all # "short" => all \in {"holes", "whole"})
      BY <2>2 DEF Worse, FileState
    <2>4. CASE n < Length[u] /\ handler' = [handler EXCEPT ![h].n = n + 1, ![h].read = all] /\ sessions' = sessions
      <3> DEFINE c == [handler[h] EXCEPT !.n = n + 1, !.read = all]
      <3>1. n + 1 \in Chunks /\ n + 1 \in 0 .. NumChunks
        BY <1>2, <2>1, <2>4, ChunksPositive, LengthsPositive DEF Chunks
      <3> HIDE DEF all
      <3>2. c \in Handler /\ c.pc = "concat" /\ c.upload = u /\ c.n = n + 1
        BY <1>2, <2>1, <2>3, <3>1 DEF Handler
      <3>3. handler' = [handler EXCEPT ![h] = c]
        BY <1>2, <2>4, Requests
      <3> HIDE DEF c
      <3>4. Alone(h) /\ handler'[h] = c
        BY <3>2, <3>3, ExceptMoves
      <3> QED
        BY <1>1, <1>2, <2>4, <3>1, <3>2, <3>4 DEF HandlerOK
    <2>5. CASE /\ handler' = [handler EXCEPT ![h] = [Idle EXCEPT !.pc = "commit", !.upload = u, !.read = all]]
               /\ all # "short" /\ sessions' = sessions
      <3> DEFINE c == [Idle EXCEPT !.pc = "commit", !.upload = u, !.read = all]
      <3> HIDE DEF all
      <3>1. c \in Handler /\ c.pc = "commit" /\ c.upload = u /\ c.read = all
        BY <1>2, <2>3, IdleOK DEF Handler
      <3> HIDE DEF c
      <3>2. Alone(h) /\ handler'[h] = c
        BY <2>5, <3>1, ExceptMoves DEF c
      <3> QED
        BY <1>1, <1>2, <2>3, <2>5, <3>1, <3>2 DEF HandlerOK
    <2> QED
      BY <1>5, <2>4, <2>5 DEF FinalizeConcat
  <1>6. CASE FinalizeCommit(h) /\ ~Release(h)
    <2> DEFINE sha == <<sessions[u].content, handler[h].read>>
               filed == [file |-> UniqueFilename(sessions[u].name, sha), sha |-> sha]
               c == [handler[h] EXCEPT !.pc = "move", !.image = filed]
    <2>1. sha \in Sha
      BY <1>2, <1>6, Requests DEF FinalizeCommit, At, HandlerOK, Sha
    <2>2. filed \in Filed
      BY <1>2, <2>1, UniqueTyped DEF Filed
    <2>3. handler' = [handler EXCEPT ![h].pc = "move", ![h].image = filed]
          /\ sessions' = [sessions EXCEPT ![u].state = "gone"]
      BY <1>6 DEF FinalizeCommit
    <2> HIDE DEF filed
    <2>4. c \in Handler /\ c.pc = "move" /\ c.upload = u /\ c.image = filed
      BY <1>2, <2>2, FiledImage DEF Handler
    <2>5. handler' = [handler EXCEPT ![h] = c]
      BY <1>2, <2>3, Requests
    <2> HIDE DEF c
    <2>6. Alone(h) /\ handler'[h] = c
      BY <2>4, <2>5, ExceptMoves
    <2> QED
      BY <1>1, <1>2, <2>2, <2>3, <2>4, <2>6 DEF HandlerOK
  <1> QED
    BY <1>3, <1>4, <1>5, <1>6 DEF Finalize, FinalizeMove

LEMMA DirRemoved ==
  ASSUME Typed, NEW h \in Handlers, NEW u \in Uploads, RemoveDir(h, u)
  PROVE  /\ partial' \in [Uploads -> [Chunks -> FileState]] /\ chunk' \in [Uploads -> [Chunks -> FileState]]
         /\ stage' \in [Uploads -> FileState]
  <1>1. NoFiles \in [Chunks -> FileState] /\ "none" \in FileState
    BY DEF NoFiles, FileState
  <1>2. chunk' = [chunk EXCEPT ![u] = NoFiles] /\ partial' = [partial EXCEPT ![u] = NoFiles]
        /\ stage' = [stage EXCEPT ![u] = "none"]
    BY DEF RemoveDir
  <1> HIDE DEF NoFiles
  <1> QED
    BY <1>1, <1>2, Same

LEMMA FinalizeTyped == ASSUME Typed, NEW h \in Handlers, Finalize(h) PROVE Typed'
  <1> DEFINE u == handler[h].upload
  <1>1. handler[h].pc \in Finalizing /\ Alone(h) /\ HandlerOK(handler'[h])
    BY FinalizeMoves
  <1>2. u \in Uploads /\ sessions[u].state # "unissued"
    BY <1>1, Uploading DEF Finalizing
  <1>3. SessionsMove /\ SessionsNamed'
    <2>1. CASE Release(h)
      BY <1>2, <2>1, ReleaseSessions
    <2>2. CASE sessions' = sessions
      BY <2>2, SessionsSame, NamesStay
    <2>3. CASE sessions' = [sessions EXCEPT ![u].state = "gone"]
      BY <1>2, <2>3, SessionState
    <2> QED
      BY <2>1, <2>2, <2>3
      DEF Finalize, FinalizeVerify, FinalizeConcat, FinalizeCommit, FinalizeMove, tables
  <1>4. handler'[h].pc \notin {"idle", "insert", "unlink"} => sessions'[handler'[h].upload].state # "unissued"
    BY <1>2, <1>3, FinalizeMoves, IdleOK DEF SessionsMove
  <1>5. images' \in [Uploads -> Filed \cup {NoImage}]
    <2>1. CASE FinalizeCommit(h) /\ ~UNCHANGED images
      <3> DEFINE sha == <<sessions[u].content, handler[h].read>>
                 filed == [file |-> UniqueFilename(sessions[u].name, sha), sha |-> sha]
      <3>1. sha \in Sha /\ sessions[u].name \in Names
        BY <1>1, <2>1, Uploading, Requests DEF FinalizeCommit, At, HandlerOK, Sha, Finalizing
      <3>2. filed \in Filed
        BY <3>1, UniqueTyped DEF Filed
      <3> QED
        BY <2>1, <3>2, Same DEF FinalizeCommit
    <2>2. CASE ~(FinalizeCommit(h) /\ ~UNCHANGED images)
      BY <2>2, Same DEF Finalize, FinalizeVerify, FinalizeConcat, FinalizeMove, tables
    <2> QED
      BY <2>1, <2>2
  <1>6. /\ partial' \in [Uploads -> [Chunks -> FileState]] /\ chunk' \in [Uploads -> [Chunks -> FileState]]
        /\ stage' \in [Uploads -> FileState] /\ files' \in [FileName -> Sha \cup {Nil}] /\ UNCHANGED <<lost, skipped, crashes>>
    <2>1. NoFiles \in [Chunks -> FileState]
      BY DEF NoFiles, FileState
    <2>2. CASE Release(h)
      BY <1>2, <2>2, ReleaseSessions, Same
      DEF Release, Finalize, FinalizeVerify, FinalizeConcat, FinalizeCommit, FinalizeMove
    <2>3. CASE FinalizeMove(h)
      <3>1. handler[h].image \in Filed
        BY <2>3, Requests DEF FinalizeMove, At, HandlerOK
      <3>2. files' \in [FileName -> Sha \cup {Nil}]
        BY <2>3, <3>1, Same DEF FinalizeMove, Filed, disk
      <3> QED
        BY <1>2, <2>3, <3>2, Same, DirRemoved DEF FinalizeMove, disk
    <2>4. CASE FinalizeVerify(h) /\ ~Release(h)
      BY <2>4, Same DEF FinalizeVerify, FileState
    <2>5. CASE FinalizeConcat(h) /\ ~Release(h)
      <3>1. handler[h].n \in Chunks /\ handler[h].read \in FileState
        BY <1>2, <2>5, Uploading, Requests DEF FinalizeConcat, At, Handler
      <3>2. Worse(handler[h].read, chunk[u][handler[h].n]) \in FileState
        BY <1>2, <3>1, Same, WorseTyped
      <3> QED
        BY <2>5, <3>2, Same DEF FinalizeConcat, disk
    <2>6. CASE FinalizeCommit(h) /\ ~Release(h)
      BY <2>6, Same DEF FinalizeCommit, disk
    <2> QED
      BY <2>2, <2>3, <2>4, <2>5, <2>6 DEF Finalize
  <1> QED
    BY <1>1, <1>3, <1>4, <1>5, <1>6, Same, TypedBy

LEMMA RemovalTyped == ASSUME Typed, NEW h \in Handlers, AbortDir(h) \/ DeleteFile(h) PROVE Typed'
  <1>1. Alone(h) /\ handler'[h] = Idle
    BY AnswerMoves, RemoveDirMoves DEF AbortDir, DeleteFile
  <1>2. /\ partial' \in [Uploads -> [Chunks -> FileState]] /\ chunk' \in [Uploads -> [Chunks -> FileState]]
        /\ stage' \in [Uploads -> FileState]
    <2>1. AbortDir(h) => handler[h].upload \in Uploads
      BY Uploading DEF AbortDir, At
    <2> QED
      BY <2>1, Same, DirRemoved DEF AbortDir, DeleteFile
  <1>3. files' \in [FileName -> Sha \cup {Nil}]
    BY Same DEF AbortDir, DeleteFile
  <1>4. UNCHANGED <<tables, lost, skipped, crashes>>
    BY DEF AbortDir, DeleteFile
  <1> QED
    BY <1>1, <1>2, <1>3, <1>4, IdleOK, Same, SessionsSame, NamesStay, TypedBy DEF tables

LEMMA CrashTyped == ASSUME Typed, Crash PROVE Typed'
  <1>1. handler' \in [Handlers -> Handler] /\ \A h \in Handlers : handler'[h] = Idle
    BY IdleOK DEF Crash
  <1>2. HandlersOK' /\ Issued'
    BY <1>1, IdleOK DEF HandlersOK, Issued
  <1>3. \A h \in Handlers : handler[h].pc \in Finalizing => handler[h].upload \in Uploads
    BY Uploading DEF Finalizing
  <1>4. lost' \in SUBSET Uploads /\ crashes' \in Nat
    BY <1>3 DEF Crash, Typed, TypeOK
  <1> QED
    BY <1>1, <1>2, <1>4 DEF Crash, Typed, TypeOK, tables, disk, SessionsNamed, ImagesFiled

LEMMA TypedInit == Init => Typed
  <1> SUFFICES ASSUME Init PROVE Typed
    OBVIOUS
  <1>1. NoSession \in Session /\ NoImage \in Image
    BY ChunksPositive DEF NoSession, Session, NoImage, Image
  <1>2. NoFiles \in [Chunks -> FileState]
    BY DEF NoFiles, FileState
  <1>3. TypeOK
    BY <1>1, <1>2, IdleOK DEF Init, TypeOK, FileState
  <1> QED
    BY <1>3, IdleOK DEF Init, Typed, HandlersOK, Issued, SessionsNamed, ImagesFiled, NoSession

LEMMA TypedStep == Typed /\ [Next]_vars => Typed'
  <1> SUFFICES ASSUME Typed, [Next]_vars PROVE Typed'
    OBVIOUS
  <1>1. CASE UNCHANGED vars
    BY <1>1 DEF vars, tables, disk, Typed, TypeOK, HandlersOK, Issued, SessionsNamed, ImagesFiled
  <1>2. CASE Crash
    BY <1>2, CrashTyped
  <1>3. ASSUME NEW h \in Handlers, Create(h) \/ Serve(h) PROVE Typed'
    BY <1>3, CreateTyped, WriteTyped, FinalizeTyped, RemovalTyped DEF Serve
  <1>4. ASSUME NEW h \in Handlers, NEW u \in Uploads,
               FinalizeClaim(h, u) \/ AbortRow(h, u) \/ DeleteRow(h, u) \/ \E n \in Chunks : ChunkBegin(h, u, n)
        PROVE  Typed'
    BY <1>4, BeginTyped
  <1> QED
    BY <1>1, <1>2, <1>3, <1>4 DEF Next

(* Every reachable state is well typed.                                    *)
THEOREM UploadTypeCorrect == Spec => []TypeOK
  <1>1. Typed => TypeOK
    BY DEF Typed
  <1> QED
    BY <1>1, TypedInit, TypedStep, PTL DEF Spec


-----------------------------------------------------------------------------
(* The claim.  A session that is being finalized stays claimed until the   *)
(* one request that finalizes it lets go of it, or is aborted for good.    *)
Claimed ==
  \A h \in Handlers :
    /\ handler[h].pc \in {"verify", "concat", "commit"} =>
         sessions[handler[h].upload].state \in {"finalizing", "gone"}
    /\ handler[h].pc \in {"move", "abort"} => sessions[handler[h].upload].state = "gone"
OneInv == Typed /\ Claimed /\ OneFinalizer

LEMMA ClaimStays ==
  ASSUME OneInv, NEW h \in Handlers, Alone(h),
         \A u \in Uploads : sessions[u].state \in {"finalizing", "gone"} => sessions'[u].state \in {sessions[u].state, "gone"},
         handler'[h].pc \in Finalizing => handler[h].pc \in Finalizing /\ handler'[h].upload = handler[h].upload,
         handler'[h].pc \in {"verify", "concat", "commit"} =>
           sessions'[handler'[h].upload].state \in {"finalizing", "gone"},
         handler'[h].pc \in {"move", "abort"} => sessions'[handler'[h].upload].state = "gone"
  PROVE  Claimed' /\ OneFinalizer'
  <1>1. OneFinalizer'
    BY DEF OneInv, OneFinalizer, Alone, Stays
  <1>2. ASSUME NEW g \in Handlers, g # h
        PROVE  /\ handler'[g].pc \in {"verify", "concat", "commit"} =>
                    sessions'[handler'[g].upload].state \in {"finalizing", "gone"}
               /\ handler'[g].pc \in {"move", "abort"} => sessions'[handler'[g].upload].state = "gone"
    <2>1. handler'[g].pc = handler[g].pc /\ handler'[g].upload = handler[g].upload
      BY <1>2 DEF Alone, Stays
    <2>2. handler[g].pc \in Finalizing \cup {"abort"} => handler[g].upload \in Uploads
      BY Uploading DEF OneInv, Finalizing
    <2> QED
      BY <1>2, <2>1, <2>2 DEF OneInv, Claimed, Finalizing
  <1> QED
    BY <1>1, <1>2 DEF Claimed

LEMMA ReleaseOne == ASSUME OneInv, NEW h \in Handlers, handler[h].pc \in Finalizing, Release(h) PROVE Claimed' /\ OneFinalizer'
  <1> DEFINE u == handler[h].upload
  <1>1. Alone(h) /\ handler'[h] = Idle /\ u \in Uploads /\ sessions \in [Uploads -> Session]
    BY ReleaseMoves, Uploading DEF OneInv, Typed, TypeOK, Finalizing
  <1>2. \A v \in Uploads : v # u => sessions'[v] = sessions[v]
    BY <1>1 DEF Release
  <1>3. sessions[u].state = "gone" => sessions'[u].state = "gone"
    BY <1>1 DEF Release
  <1>4. OneFinalizer'
    BY <1>1, IdleOK DEF OneInv, OneFinalizer, Alone, Stays, Finalizing
  <1>5. ASSUME NEW g \in Handlers, g # h
        PROVE  /\ handler'[g].pc \in {"verify", "concat", "commit"} =>
                    sessions'[handler'[g].upload].state \in {"finalizing", "gone"}
               /\ handler'[g].pc \in {"move", "abort"} => sessions'[handler'[g].upload].state = "gone"
    <2>1. handler'[g].pc = handler[g].pc /\ handler'[g].upload = handler[g].upload
      BY <1>1, <1>5 DEF Alone, Stays
    <2>2. handler[g].pc \in Finalizing \cup {"abort"} => handler[g].upload \in Uploads
      BY Uploading DEF OneInv, Finalizing
    <2>3. handler[g].pc \in Finalizing => handler[g].upload # u
      BY <1>5 DEF OneInv, OneFinalizer
    <2> QED
      BY <1>2, <1>3, <2>1, <2>2, <2>3 DEF OneInv, Claimed, Finalizing
  <1> QED
    BY <1>1, <1>4, <1>5, IdleOK DEF Claimed

LEMMA ClaimOne == ASSUME OneInv, NEW h \in Handlers, NEW u \in Uploads, FinalizeClaim(h, u) PROVE Claimed' /\ OneFinalizer'
  <1>1. sessions \in [Uploads -> Session] /\ sessions[u].state = "uploading"
    BY DEF OneInv, Typed, TypeOK, FinalizeClaim
  <1>2. sessions'[u].state = "finalizing" /\ \A v \in Uploads : v # u => sessions'[v] = sessions[v]
    BY <1>1 DEF FinalizeClaim, Session
  <1> DEFINE c == [Idle EXCEPT !.pc = "verify", !.upload = u]
  <1>3. c \in Handler /\ c.pc = "verify" /\ c.upload = u
    BY IdleOK DEF Handler
  <1>4. Alone(h) /\ handler'[h].pc = "verify" /\ handler'[h].upload = u
    BY <1>3, ExceptMoves DEF OneInv, FinalizeClaim
  <1>5. ASSUME NEW g \in Handlers, g # h
        PROVE  /\ handler'[g].pc \in {"verify", "concat", "commit"} =>
                    sessions'[handler'[g].upload].state \in {"finalizing", "gone"}
               /\ handler'[g].pc \in {"move", "abort"} => sessions'[handler'[g].upload].state = "gone"
               /\ handler'[g].pc \in Finalizing => handler'[g].upload # u
    <2>1. handler'[g].pc = handler[g].pc /\ handler'[g].upload = handler[g].upload
      BY <1>4, <1>5 DEF Alone, Stays
    <2>2. handler[g].pc \in Finalizing \cup {"abort"} => handler[g].upload \in Uploads
      BY Uploading DEF OneInv, Finalizing
    <2>3. handler[g].pc \in Finalizing => handler[g].upload # u
      BY <1>1 DEF OneInv, Claimed, Finalizing
    <2> QED
      BY <1>1, <1>2, <2>1, <2>2, <2>3 DEF OneInv, Claimed, Finalizing
  <1>6. Claimed'
    BY <1>2, <1>4, <1>5 DEF Claimed
  <1>7. OneFinalizer'
    BY <1>4, <1>5 DEF OneInv, OneFinalizer, Alone, Stays
  <1> QED
    BY <1>6, <1>7

(* How a session's state changes.                                          *)
LEMMA StateMoves ==
  ASSUME Typed, NEW u \in Uploads, NEW st \in {"uploading", "finalizing", "gone"}, sessions' = [sessions EXCEPT ![u].state = st]
  PROVE  /\ sessions'[u].state = st /\ sessions'[u].high = sessions[u].high
         /\ \A v \in Uploads : v # u => sessions'[v] = sessions[v]
  <1>1. sessions \in [Uploads -> Session]
    BY DEF Typed, TypeOK
  <1> QED
    BY <1>1 DEF Session

LEMMA BeginMoves ==
  ASSUME Typed, NEW h \in Handlers, NEW u \in Uploads,
         AbortRow(h, u) \/ DeleteRow(h, u) \/ \E n \in Chunks : ChunkBegin(h, u, n)
  PROVE  /\ Alone(h) /\ handler'[h].upload = u /\ UNCHANGED chunk /\ skipped \subseteq skipped'
         /\ \/ handler'[h].pc = "abort" /\ sessions' = [sessions EXCEPT ![u].state = "gone"]
            \/ handler'[h].pc = "unlink" /\ sessions' = sessions
            \/ /\ handler'[h].pc = "open" /\ sessions' = sessions
               /\ u \notin skipped' => \A k \in 1 .. handler'[h].n - 1 : chunk[u][k] # "none"
  <1>1. CASE AbortRow(h, u)
    <2> DEFINE c == [Idle EXCEPT !.pc = "abort", !.upload = u]
    <2>1. c \in Handler /\ c.pc = "abort" /\ c.upload = u
      BY IdleOK DEF Handler
    <2> QED
      BY <1>1, <2>1, ExceptMoves DEF AbortRow, disk
  <1>2. CASE DeleteRow(h, u)
    <2> DEFINE c == [Idle EXCEPT !.pc = "unlink", !.upload = u, !.image = images[u]]
    <2>1. c \in Handler /\ c.pc = "unlink" /\ c.upload = u
      BY IdleOK DEF Handler, Typed, TypeOK
    <2> QED
      BY <1>2, <2>1, ExceptMoves DEF DeleteRow, disk
  <1>3. ASSUME NEW n \in Chunks, ChunkBegin(h, u, n)
        PROVE  /\ Alone(h) /\ handler'[h].upload = u /\ UNCHANGED <<chunk, sessions>> /\ skipped \subseteq skipped'
               /\ handler'[h].pc = "open" /\ handler'[h].n = n
               /\ u \notin skipped' => \A k \in 1 .. n - 1 : chunk[u][k] # "none"
    <2> DEFINE c == [Idle EXCEPT !.pc = "open", !.upload = u, !.n = n]
    <2>1. n \in 0 .. NumChunks
      BY ChunksPositive DEF Chunks
    <2>2. c \in Handler /\ c.pc = "open" /\ c.upload = u /\ c.n = n
      BY <2>1, IdleOK DEF Handler
    <2>3. handler' = [handler EXCEPT ![h] = c]
      BY <1>3 DEF ChunkBegin
    <2> HIDE DEF c
    <2> QED
      BY <1>3, <2>2, <2>3, ExceptMoves DEF ChunkBegin, tables, disk
  <1> QED
    BY <1>1, <1>2, <1>3

LEMMA CreateMoves ==
  ASSUME Typed, NEW h \in Handlers, Create(h) \/ \E u \in Uploads : CreateInsert(h, u)
  PROVE  /\ Alone(h) /\ handler'[h].pc \in {"idle", "insert"} /\ UNCHANGED chunk
         /\ \A u \in Uploads : \/ sessions'[u] = sessions[u]
                               \/ sessions[u].state = "unissued" /\ sessions'[u].high = 0 /\ sessions'[u].state = "uploading"
  <1>1. CASE Create(h)
    <2>1. PICK name \in Names, content \in Contents, hashed \in BOOLEAN : CreateCheck(h, name, content, hashed)
      BY <1>1 DEF Create
    <2> DEFINE wanted == [file |-> <<name, Nil>>, sha |-> <<content, "whole">>]
               c == [Idle EXCEPT !.pc = "insert", !.read = IF hashed THEN "whole" ELSE "none", !.image = wanted]
    <2>2. wanted \in Image
      BY DEF Image, FileName, Sha
    <2> HIDE DEF wanted
    <2>3. c \in Handler /\ c.pc = "insert"
      BY <2>2, IdleOK DEF Handler, FileState
    <2>4. handler' = [handler EXCEPT ![h] = c]
      BY <2>1 DEF CreateCheck, wanted
    <2> HIDE DEF c
    <2> QED
      BY <2>1, <2>3, <2>4, ExceptMoves DEF CreateCheck, tables, disk
  <1>2. ASSUME NEW u \in Uploads, CreateInsert(h, u)
        PROVE  /\ Alone(h) /\ handler'[h] = Idle /\ UNCHANGED chunk
               /\ \A v \in Uploads : v # u => sessions'[v] = sessions[v]
               /\ sessions[u].state = "unissued" /\ sessions'[u].high = 0 /\ sessions'[u].state = "uploading"
    BY <1>2, AnswerMoves DEF CreateInsert, NoSession, disk, Typed, TypeOK
  <1> QED
    BY <1>1, <1>2, IdleOK

LEMMA WriteSessions ==
  ASSUME Typed, NEW h \in Handlers, Write(h)
  PROVE  /\ \A u \in Uploads : sessions'[u].state = sessions[u].state
         /\ \/ sessions' = sessions
            \/ /\ handler[h].pc = "bump" /\ UNCHANGED chunk
               /\ \A u \in Uploads : u # handler[h].upload => sessions'[u] = sessions[u]
               /\ sessions'[handler[h].upload].high = handler[h].n /\ sessions[handler[h].upload].high < handler[h].n
  <1>1. CASE sessions' = sessions
    BY <1>1
  <1>2. CASE ~(sessions' = sessions)
    <2>1. ChunkBump(h)
      BY <1>2 DEF Write, ChunkOpen, ChunkStream, ChunkFail, ChunkRename, tables
    <2>2. handler[h].upload \in Uploads /\ handler[h].n \in Chunks /\ handler[h].pc = "bump"
      BY <2>1, Uploading DEF ChunkBump, At, InUpload
    <2>3. sessions' = [sessions EXCEPT ![handler[h].upload].high = handler[h].n]
          /\ sessions[handler[h].upload].high < handler[h].n /\ UNCHANGED chunk
      BY <1>2, <2>1 DEF ChunkBump, disk
    <2>4. sessions \in [Uploads -> Session]
      BY DEF Typed, TypeOK
    <2> QED
      BY <2>2, <2>3, <2>4 DEF Session
  <1> QED
    BY <1>1, <1>2

LEMMA OneStep == OneInv /\ [Next]_vars => OneInv'
  <1> SUFFICES ASSUME OneInv, [Next]_vars PROVE OneInv'
    OBVIOUS
  <1>1. Typed /\ Typed'
    BY TypedStep DEF OneInv
  <1>2. CASE UNCHANGED vars
    BY <1>1, <1>2 DEF vars, tables, OneInv, Claimed, OneFinalizer
  <1>3. CASE Crash
    <2>1. \A h \in Handlers : handler'[h] = Idle
      BY <1>3 DEF Crash
    <2> QED
      BY <1>1, <2>1, IdleOK DEF OneInv, Claimed, OneFinalizer, Finalizing
  <1>4. ASSUME NEW h \in Handlers, Create(h) \/ \E u \in Uploads : CreateInsert(h, u) PROVE OneInv'
    <2>1. Alone(h) /\ handler'[h].pc \in {"idle", "insert"}
          /\ \A u \in Uploads : sessions[u].state \in {"finalizing", "gone"} => sessions'[u].state = sessions[u].state
      BY <1>1, <1>4, CreateMoves
    <2> QED
      BY <1>1, <2>1, ClaimStays DEF OneInv, Finalizing
  <1>5. ASSUME NEW h \in Handlers, Write(h) PROVE OneInv'
    <2>1. Alone(h) /\ handler'[h].pc \in {"idle", "stream", "rename", "bump"}
      BY <1>1, <1>5, WriteMoves, IdleOK
    <2> QED
      BY <1>1, <1>5, <2>1, WriteSessions, ClaimStays DEF OneInv, Finalizing
  <1>6. ASSUME NEW h \in Handlers, Finalize(h) PROVE OneInv'
    <2> DEFINE u == handler[h].upload
    <2>1. Alone(h) /\ handler[h].pc \in Finalizing /\ u \in Uploads
      BY <1>1, <1>6, FinalizeMoves, Uploading DEF Finalizing
    <2>2. CASE Release(h)
      BY <1>1, <2>1, <2>2, ReleaseOne DEF OneInv
    <2>3. CASE sessions' = [sessions EXCEPT ![u].state = "gone"] /\ handler'[h].upload = u
      <3>1. sessions'[u].state = "gone" /\ \A v \in Uploads : v # u => sessions'[v] = sessions[v]
        BY <1>1, <2>1, <2>3, StateMoves
      <3> QED
        BY <1>1, <2>1, <2>3, <3>1, ClaimStays DEF OneInv
    <2>4. CASE handler'[h] = Idle /\ sessions' = sessions
      BY <1>1, <2>1, <2>4, IdleOK, ClaimStays DEF OneInv, Finalizing
    <2>5. CASE handler'[h].pc \in {"concat", "commit"} /\ sessions' = sessions /\ handler'[h].upload = u
      <3>1. handler[h].pc # "move"
        BY <1>6, <2>5, AnswerMoves, RemoveDirMoves, IdleOK, <1>1
        DEF Finalize, FinalizeVerify, FinalizeConcat, FinalizeCommit, FinalizeMove, At
      <3>2. sessions[u].state \in {"finalizing", "gone"}
        BY <2>1, <3>1 DEF OneInv, Claimed, Finalizing
      <3> QED
        BY <1>1, <2>1, <2>5, <3>2, ClaimStays DEF OneInv
    <2>6. Release(h) \/ handler'[h] # Idle \/ sessions' = sessions
      <3>1. CASE FinalizeCommit(h) /\ ~Release(h)
        <4>1. handler'[h].pc = "move"
          BY <1>1, <3>1, Requests DEF FinalizeCommit, Handler
        <4> QED
          BY <4>1, IdleOK
      <3>2. CASE ~FinalizeCommit(h)
        BY <1>6, <3>2 DEF Finalize, FinalizeVerify, FinalizeConcat, FinalizeMove, tables
      <3> QED
        BY <3>1, <3>2
    <2> QED
      BY <1>1, <1>6, <2>2, <2>3, <2>4, <2>5, <2>6, FinalizeMoves
  <1>7. ASSUME NEW h \in Handlers, AbortDir(h) \/ DeleteFile(h) PROVE OneInv'
    <2>1. Alone(h) /\ handler'[h] = Idle /\ sessions' = sessions
      BY <1>1, <1>7, AnswerMoves, RemoveDirMoves DEF AbortDir, DeleteFile, tables
    <2> QED
      BY <1>1, <2>1, IdleOK, ClaimStays DEF OneInv, Finalizing
  <1>8. ASSUME NEW h \in Handlers, NEW u \in Uploads, FinalizeClaim(h, u) PROVE OneInv'
    BY <1>1, <1>8, ClaimOne DEF OneInv
  <1>9. ASSUME NEW h \in Handlers, NEW u \in Uploads, AbortRow(h, u) \/ DeleteRow(h, u) \/ \E n \in Chunks : ChunkBegin(h, u, n)
        PROVE  OneInv'
    <2>1. \A v \in Uploads : sessions[v].state \in {"finalizing", "gone"} => sessions'[v].state \in {sessions[v].state, "gone"}
      BY <1>1, <1>9, BeginMoves, StateMoves
    <2>2. handler'[h].pc = "abort" => sessions'[handler'[h].upload].state = "gone"
      BY <1>1, <1>9, BeginMoves, StateMoves
    <2>3. Alone(h) /\ handler'[h].pc \in {"abort", "unlink", "open"}
      BY <1>1, <1>9, BeginMoves
    <2> QED
      BY <1>1, <2>1, <2>2, <2>3, ClaimStays DEF OneInv, Finalizing
  <1> QED
    BY <1>2, <1>3, <1>4, <1>5, <1>6, <1>7, <1>8, <1>9 DEF Next, Serve

LEMMA OneInit == Init => OneInv
  <1> SUFFICES ASSUME Init PROVE OneInv
    OBVIOUS
  <1>1. \A h \in Handlers : handler[h] = Idle
    BY DEF Init
  <1> QED
    BY <1>1, TypedInit, IdleOK DEF OneInv, Claimed, OneFinalizer, Finalizing

(* One request at a time assembles a session, whoever aborts, retries or   *)
(* restarts.                                                               *)
THEOREM FinalizersExclude == Spec => []OneFinalizer
  <1>1. OneInv => OneFinalizer
    BY DEF OneInv
  <1> QED
    BY <1>1, OneInit, OneStep, PTL DEF Spec


-----------------------------------------------------------------------------
(* The high-water mark.  It rises to a chunk that is on disk, above chunks *)
(* that were there when that chunk began, unless the client skipped one;   *)
(* files of a session go only when its row has gone.                       *)
Open == {"uploading", "finalizing"}
Mark ==
  \A h \in Handlers : handler[h].pc \in InUpload /\ sessions[handler[h].upload].state \in Open =>
    /\ handler[h].upload \notin skipped => \A k \in 1 .. handler[h].n - 1 : chunk[handler[h].upload][k] # "none"
    /\ handler[h].pc = "bump" => chunk[handler[h].upload][handler[h].n] # "none"
ResumeInv == OneInv /\ Mark /\ ResumePoint

(* Chunks of open sessions stay, so what holds of the chunks below a       *)
(* number keeps holding.                                                   *)
ChunksStay == \A u \in Uploads, n \in Chunks : sessions'[u].state \in Open /\ chunk[u][n] # "none" => chunk'[u][n] # "none"

LEMMA MarkStays ==
  ASSUME ResumeInv, NEW h \in Handlers, Alone(h), sessions' \in [Uploads -> Session],
         skipped \subseteq skipped', ChunksStay,
         \A u \in Uploads : sessions'[u].state \in Open =>
           \/ sessions[u].state = "unissued" /\ sessions'[u].high = 0
           \/ sessions[u].state \in Open /\ sessions'[u].high = sessions[u].high
           \/ /\ sessions[u].state \in Open /\ chunk'[u][sessions'[u].high] # "none"
              /\ u \notin skipped' => \A k \in 1 .. sessions'[u].high - 1 : chunk'[u][k] # "none",
         handler'[h].pc \in InUpload /\ sessions'[handler'[h].upload].state \in Open =>
           /\ handler'[h].upload \notin skipped' => \A k \in 1 .. handler'[h].n - 1 : chunk'[handler'[h].upload][k] # "none"
           /\ handler'[h].pc = "bump" => chunk'[handler'[h].upload][handler'[h].n] # "none"
  PROVE  Mark' /\ ResumePoint'
  <1>0. Typed /\ \A u \in Uploads : sessions[u].high \in 0 .. NumChunks /\ sessions'[u].high \in 0 .. NumChunks
    BY DEF ResumeInv, OneInv, Typed, TypeOK, Session
  <1>1. \A n \in 0 .. NumChunks : 1 .. n \subseteq Chunks /\ (n > 0 => n \in Chunks)
    BY ChunksPositive DEF Chunks
  <1>2. ASSUME NEW u \in Uploads, sessions'[u].state \in Open
        PROVE  /\ sessions'[u].high > 0 => chunk'[u][sessions'[u].high] # "none"
               /\ u \notin skipped' => \A n \in 1 .. sessions'[u].high : chunk'[u][n] # "none"
    <2> DEFINE high == sessions'[u].high
    <2>0. high \in 0 .. NumChunks
      BY <1>0
    <2>1. CASE high = 0
      BY <2>1
    <2>2. CASE sessions[u].state \in Open /\ high = sessions[u].high
      <3>1. /\ high > 0 => chunk[u][high] # "none"
            /\ u \notin skipped => \A n \in 1 .. high : chunk[u][n] # "none"
        BY <2>2 DEF ResumeInv, ResumePoint, Live, Open
      <3> HIDE DEF high
      <3> QED
        BY <1>1, <1>2, <2>0, <3>1 DEF high, ChunksStay
    <2>3. CASE chunk'[u][high] # "none" /\ (u \notin skipped' => \A k \in 1 .. high - 1 : chunk'[u][k] # "none")
      <3> HIDE DEF high
      <3>1. \A n \in 1 .. high : n = high \/ n \in 1 .. high - 1
        BY <2>0, ChunksPositive
      <3> QED
        BY <2>3, <3>1 DEF high
    <2> QED
      BY <1>2, <2>1, <2>2, <2>3
  <1>3. ResumePoint'
    BY <1>2 DEF ResumePoint, Live, Open
  <1>4. ASSUME NEW g \in Handlers, g # h, handler'[g].pc \in InUpload, sessions'[handler'[g].upload].state \in Open
        PROVE  /\ handler'[g].upload \notin skipped' => \A k \in 1 .. handler'[g].n - 1 : chunk'[handler'[g].upload][k] # "none"
               /\ handler'[g].pc = "bump" => chunk'[handler'[g].upload][handler'[g].n] # "none"
    <2>1. handler'[g].pc = handler[g].pc /\ handler'[g].upload = handler[g].upload /\ handler'[g].n = handler[g].n
      BY <1>4 DEF Alone, Stays
    <2>2. handler[g].upload \in Uploads /\ sessions[handler[g].upload].state # "unissued" /\ handler[g].n \in Chunks
      BY <1>0, <1>4, <2>1, Uploading DEF InUpload
    <2>3. sessions[handler[g].upload].state \in Open
      BY <1>4, <2>1, <2>2
    <2>4. /\ handler[g].upload \notin skipped => \A k \in 1 .. handler[g].n - 1 : chunk[handler[g].upload][k] # "none"
          /\ handler[g].pc = "bump" => chunk[handler[g].upload][handler[g].n] # "none"
      BY <1>4, <2>1, <2>3 DEF ResumeInv, Mark
    <2>5. 1 .. handler[g].n - 1 \subseteq Chunks
      BY <2>2, ChunksPositive DEF Chunks
    <2> QED
      BY <1>4, <2>1, <2>2, <2>4, <2>5 DEF ChunksStay
  <1> QED
    BY <1>3, <1>4 DEF Mark

(* Steps that leave the marks and the chunks of open sessions alone.       *)
LEMMA MarkElsewhere ==
  ASSUME ResumeInv, NEW h \in Handlers, Alone(h), sessions' \in [Uploads -> Session], skipped \subseteq skipped',
         \A u \in Uploads : sessions'[u].state \in Open =>
           sessions[u].state \in Open /\ sessions'[u].high = sessions[u].high,
         \A u \in Uploads : sessions'[u].state \in Open => chunk'[u] = chunk[u],
         handler'[h].pc \in InUpload =>
           /\ handler'[h].pc # "bump" /\ handler'[h].upload \in Uploads
           /\ handler'[h].upload \notin skipped' => \A k \in 1 .. handler'[h].n - 1 : chunk[handler'[h].upload][k] # "none"
  PROVE  Mark' /\ ResumePoint'
  <1>1. ChunksStay
    BY DEF ChunksStay
  <1> QED
    BY <1>1, MarkStays

LEMMA WriteResumes == ASSUME ResumeInv, NEW h \in Handlers, Write(h) PROVE Mark' /\ ResumePoint'
  <1> DEFINE u == handler[h].upload  n == handler[h].n
  <1>0. Typed /\ Typed' /\ skipped' = skipped
    BY TypedStep DEF ResumeInv, OneInv, Next, Serve, Write, ChunkOpen, ChunkStream, ChunkFail, ChunkRename, ChunkBump
  <1>1. Alone(h) /\ handler[h].pc \in InUpload /\ u \in Uploads /\ n \in Chunks
    BY <1>0, WriteMoves, Uploading DEF InUpload
  <1>2. sessions \in [Uploads -> Session] /\ sessions' \in [Uploads -> Session]
        /\ chunk \in [Uploads -> [Chunks -> FileState]]
    BY <1>0 DEF Typed, TypeOK
  <1>3. 1 .. n - 1 \subseteq Chunks
    BY <1>1, ChunksPositive DEF Chunks
  <1>4. sessions[u].state \in Open =>
          /\ u \notin skipped => \A k \in 1 .. n - 1 : chunk[u][k] # "none"
          /\ handler[h].pc = "bump" => chunk[u][n] # "none"
    BY <1>1 DEF ResumeInv, Mark
  (* The chunks that were there are there.                                 *)
  <1>5. \A v \in Uploads, k \in Chunks : chunk[v][k] # "none" => chunk'[v][k] # "none"
    <2>1. CASE ChunkStream(h)
      <3>1. \A old : old # "none" => "none" \notin Written(h, old)
        BY DEF Written
      <3>2. chunk' = chunk \/ \E new \in Written(h, chunk[u][n]) : chunk' = [chunk EXCEPT ![u][n] = new]
        BY <2>1 DEF ChunkStream
      <3>3. ASSUME NEW new \in Written(h, chunk[u][n]), chunk' = [chunk EXCEPT ![u][n] = new],
                   NEW v \in Uploads, NEW k \in Chunks, chunk[v][k] # "none"
            PROVE  chunk'[v][k] # "none"
        <4>1. v = u /\ k = n => new # "none"
          BY <3>1, <3>3
        <4> QED
          BY <1>1, <1>2, <3>3, <4>1
      <3> QED
        BY <3>2, <3>3
    <2>2. CASE ChunkRename(h)
      <3>1. chunk' = chunk \/ (partial[u][n] # "none" /\ chunk' = [chunk EXCEPT ![u][n] = partial[u][n]])
        BY <2>2 DEF ChunkRename
      <3> QED
        BY <1>1, <1>2, <3>1
    <2> QED
      BY <2>1, <2>2 DEF Write, ChunkOpen, ChunkFail, ChunkBump, disk
  <1>6. handler'[h].pc = "bump" => chunk'[u][n] # "none"
    <2>1. ASSUME handler'[h].pc = "bump" PROVE ChunkRename(h) /\ partial[u][n] # "none"
      BY <1>0, <2>1, WriteMoves
    <2>2. ASSUME ChunkRename(h), partial[u][n] # "none" PROVE chunk'[u][n] # "none"
      BY <1>1, <1>2, <2>2 DEF ChunkRename
    <2> QED
      BY <2>1, <2>2
  <1>7. ChunksStay
    BY <1>5 DEF ChunksStay
  <1>8. CASE sessions' = sessions
    <2>1. handler'[h].pc \in InUpload => handler'[h].upload = u /\ handler'[h].n = n
      BY <1>0, WriteMoves, IdleOK DEF InUpload
    <2>2. sessions[u].state \in Open /\ u \notin skipped => \A k \in 1 .. n - 1 : chunk'[u][k] # "none"
      BY <1>1, <1>3, <1>4, <1>5
    <2>3. handler'[h].pc \in InUpload /\ sessions'[handler'[h].upload].state \in Open =>
            /\ handler'[h].upload \notin skipped' => \A k \in 1 .. handler'[h].n - 1 : chunk'[handler'[h].upload][k] # "none"
            /\ handler'[h].pc = "bump" => chunk'[handler'[h].upload][handler'[h].n] # "none"
      BY <1>0, <1>6, <1>8, <2>1, <2>2
    <2> HIDE DEF u, n
    <2> QED
      BY <1>0, <1>1, <1>2, <1>7, <1>8, <2>3, MarkStays
  <1>9. CASE ~(sessions' = sessions)
    <2>1. /\ handler[h].pc = "bump" /\ UNCHANGED chunk
          /\ \A v \in Uploads : sessions'[v].state = sessions[v].state
          /\ \A v \in Uploads : v # u => sessions'[v] = sessions[v]
          /\ sessions'[u].high = n
      BY <1>0, <1>9, WriteSessions
    <2>2. handler'[h] = Idle
      BY <1>0, <2>1, AnswerMoves DEF Write, ChunkOpen, ChunkStream, ChunkFail, ChunkRename, ChunkBump, At
    <2>3. ASSUME NEW v \in Uploads, sessions'[v].state \in Open
          PROVE  \/ sessions[v].state \in Open /\ sessions'[v].high = sessions[v].high
                 \/ /\ sessions[v].state \in Open /\ chunk'[v][sessions'[v].high] # "none"
                    /\ v \notin skipped' => \A k \in 1 .. sessions'[v].high - 1 : chunk'[v][k] # "none"
      <3>1. CASE v = u
        <4>1. sessions[u].state \in Open
          BY <1>1, <2>1, <2>3, <3>1
        <4> QED
          BY <1>0, <1>4, <2>1, <3>1, <4>1
      <3>2. CASE v # u
        BY <2>1, <2>3, <3>2
      <3> QED
        BY <3>1, <3>2
    <2>4. handler'[h].pc \notin InUpload
      BY <2>2, IdleOK DEF InUpload
    <2> QED
      BY <1>0, <1>1, <1>2, <1>7, <2>3, <2>4, MarkStays
  <1> QED
    BY <1>8, <1>9

LEMMA ResumeStep == ResumeInv /\ [Next]_vars => ResumeInv'
  <1> SUFFICES ASSUME ResumeInv, [Next]_vars PROVE ResumeInv'
    OBVIOUS
  <1>1. OneInv /\ OneInv' /\ Typed /\ sessions \in [Uploads -> Session] /\ sessions' \in [Uploads -> Session]
    BY OneStep DEF ResumeInv, OneInv, Typed, TypeOK
  <1>2. CASE UNCHANGED vars
    BY <1>1, <1>2 DEF vars, tables, disk, ResumeInv, Mark, ResumePoint, Live
  <1>3. CASE Crash
    <2>1. \A h \in Handlers : handler'[h] = Idle
      BY <1>3 DEF Crash
    <2> QED
      BY <1>1, <1>3, <2>1, IdleOK DEF Crash, tables, disk, ResumeInv, Mark, InUpload, ResumePoint, Live
  <1>4. ASSUME NEW h \in Handlers, Create(h) \/ \E u \in Uploads : CreateInsert(h, u) PROVE ResumeInv'
    <2>1. /\ Alone(h) /\ handler'[h].pc \in {"idle", "insert"} /\ UNCHANGED chunk
          /\ \A u \in Uploads : \/ sessions'[u] = sessions[u]
                                \/ sessions[u].state = "unissued" /\ sessions'[u].high = 0
      BY <1>1, <1>4, CreateMoves
    <2>2. ChunksStay /\ skipped' = skipped
      BY <1>4, <2>1 DEF ChunksStay, Create, CreateCheck, CreateInsert
    <2>3. \A u \in Uploads : sessions'[u].state \in Open =>
            \/ sessions[u].state = "unissued" /\ sessions'[u].high = 0
            \/ sessions[u].state \in Open /\ sessions'[u].high = sessions[u].high
      BY <2>1
    <2>4. Mark' /\ ResumePoint'
      BY <1>1, <2>1, <2>2, <2>3, MarkStays DEF InUpload
    <2> QED
      BY <1>1, <2>4 DEF ResumeInv
  <1>5. ASSUME NEW h \in Handlers, Write(h) PROVE ResumeInv'
    BY <1>1, <1>5, WriteResumes DEF ResumeInv
  <1>6. ASSUME NEW h \in Handlers, Finalize(h) PROVE ResumeInv'
    <2> DEFINE u == handler[h].upload
    <2>1. Alone(h) /\ handler[h].pc \in Finalizing /\ u \in Uploads /\ handler'[h].pc \notin InUpload
      BY <1>1, <1>6, FinalizeMoves, Uploading, IdleOK DEF Finalizing, InUpload
    <2>2. \/ sessions' = sessions
          \/ sessions' = [sessions EXCEPT ![u].state = "gone"]
          \/ sessions[u].state = "finalizing" /\ sessions' = [sessions EXCEPT ![u].state = "uploading"]
      BY <1>6 DEF Finalize, FinalizeVerify, FinalizeConcat, FinalizeCommit, FinalizeMove, Release, tables
    <2>3. \A v \in Uploads : sessions'[v].state \in Open =>
            sessions[v].state \in Open /\ sessions'[v].high = sessions[v].high
      BY <1>1, <2>1, <2>2, StateMoves DEF Open
    <2>4. \A v \in Uploads : sessions'[v].state \in Open => chunk'[v] = chunk[v]
      <3>1. CASE FinalizeMove(h)
        <4>1. sessions[u].state = "gone" /\ sessions' = sessions
          BY <1>1, <3>1 DEF FinalizeMove, At, OneInv, Claimed, tables
        <4>2. \A v \in Uploads : v # u => chunk'[v] = chunk[v]
          BY <1>1, <3>1, Same DEF FinalizeMove, RemoveDir, disk
        <4> QED
          BY <4>1, <4>2 DEF Open
      <3>2. CASE ~FinalizeMove(h)
        BY <1>6, <3>2 DEF Finalize, FinalizeVerify, FinalizeConcat, FinalizeCommit, Release, disk
      <3> QED
        BY <3>1, <3>2
    <2>5. skipped' = skipped
      BY <1>6 DEF Finalize, FinalizeVerify, FinalizeConcat, FinalizeCommit, FinalizeMove
    <2> QED
      BY <1>1, <2>1, <2>3, <2>4, <2>5, MarkElsewhere DEF ResumeInv
  <1>7. ASSUME NEW h \in Handlers, AbortDir(h) \/ DeleteFile(h) PROVE ResumeInv'
    <2>1. Alone(h) /\ handler'[h] = Idle /\ sessions' = sessions /\ skipped' = skipped
      BY <1>1, <1>7, AnswerMoves, RemoveDirMoves DEF AbortDir, DeleteFile, tables
    <2>2. \A v \in Uploads : sessions'[v].state \in Open => chunk'[v] = chunk[v]
      <3>1. AbortDir(h) => sessions[handler[h].upload].state = "gone"
        BY <1>1 DEF AbortDir, At, OneInv, Claimed
      <3>2. \A v \in Uploads : chunk'[v] = chunk[v] \/ (AbortDir(h) /\ v = handler[h].upload)
        BY <1>1, <1>7, Same DEF AbortDir, DeleteFile, RemoveDir
      <3> QED
        BY <2>1, <3>1, <3>2 DEF Open
    <2>3. Mark' /\ ResumePoint'
      BY <1>1, <2>1, <2>2, IdleOK, MarkElsewhere DEF InUpload
    <2> QED
      BY <1>1, <2>3 DEF ResumeInv
  <1>8. ASSUME NEW h \in Handlers, NEW u \in Uploads, FinalizeClaim(h, u) PROVE ResumeInv'
    <2> DEFINE c == [Idle EXCEPT !.pc = "verify", !.upload = u]
    <2>1. c \in Handler /\ c.pc = "verify"
      BY IdleOK DEF Handler
    <2>2. Alone(h) /\ handler'[h].pc = "verify" /\ UNCHANGED chunk /\ skipped' = skipped
      BY <1>1, <1>8, <2>1, ExceptMoves DEF FinalizeClaim, disk
    <2>3. \A v \in Uploads : sessions'[v].state \in Open =>
            sessions[v].state \in Open /\ sessions'[v].high = sessions[v].high
      BY <1>1, <1>8, StateMoves DEF FinalizeClaim, Open
    <2> QED
      BY <1>1, <2>2, <2>3, MarkElsewhere DEF ResumeInv, InUpload
  <1>9. ASSUME NEW h \in Handlers, NEW u \in Uploads, AbortRow(h, u) \/ DeleteRow(h, u) \/ \E n \in Chunks : ChunkBegin(h, u, n)
        PROVE  ResumeInv'
    <2>1. /\ Alone(h) /\ handler'[h].upload = u /\ UNCHANGED chunk /\ skipped \subseteq skipped'
          /\ handler'[h].pc \in InUpload =>
               /\ handler'[h].pc = "open"
               /\ u \notin skipped' => \A k \in 1 .. handler'[h].n - 1 : chunk[u][k] # "none"
      BY <1>1, <1>9, BeginMoves DEF InUpload
    <2>2. sessions' = sessions \/ sessions' = [sessions EXCEPT ![u].state = "gone"]
      BY <1>1, <1>9, BeginMoves
    <2>3. \A v \in Uploads : sessions'[v].state \in Open =>
            sessions[v].state \in Open /\ sessions'[v].high = sessions[v].high
      BY <1>1, <2>2, StateMoves DEF Open
    <2> QED
      BY <1>1, <2>1, <2>3, MarkElsewhere DEF ResumeInv
  <1> QED
    BY <1>2, <1>3, <1>4, <1>5, <1>6, <1>7, <1>8, <1>9 DEF Next, Serve

(* An open session resumes after a chunk that is on disk, with no chunk    *)
(* missing below it unless the client sent them out of order.              *)
THEOREM UploadsResume == Spec => []ResumePoint
  <1>1. Init => ResumeInv
    <2> SUFFICES ASSUME Init PROVE ResumeInv
      OBVIOUS
    <2>1. \A h \in Handlers : handler[h] = Idle
      BY DEF Init
    <2>2. \A u \in Uploads : sessions[u].state = "unissued"
      BY DEF Init, NoSession
    <2> QED
      BY <2>1, <2>2, OneInit, IdleOK DEF ResumeInv, Mark, InUpload, ResumePoint, Live
  <1>2. ResumeInv => ResumePoint
    BY DEF ResumeInv
  <1> QED
    BY <1>1, <1>2, ResumeStep, PTL DEF Spec


-----------------------------------------------------------------------------
(* Claims.  The request that claimed a session holds on to it until it has *)
(* released or filed it; a restart writes the others down as lost.         *)
Owning == {"verify", "concat", "commit"}
OwnInv == OneInv /\ ClaimsHaveOwners

LEMMA OwnersStay ==
  ASSUME OwnInv, NEW h \in Handlers, Alone(h), UNCHANGED lost,
         \A u \in Uploads : sessions'[u].state = "finalizing" =>
           sessions[u].state = "finalizing" \/ (handler'[h].upload = u /\ handler'[h].pc \in Owning),
         handler[h].pc \in Owning =>
           \/ sessions'[handler[h].upload].state # "finalizing"
           \/ handler'[h].pc \in Owning /\ handler'[h].upload = handler[h].upload
  PROVE  ClaimsHaveOwners'
  <1> SUFFICES ASSUME NEW u \in Uploads, sessions'[u].state = "finalizing", u \notin lost
               PROVE  \E g \in Handlers : handler'[g].upload = u /\ handler'[g].pc \in Owning
    BY DEF ClaimsHaveOwners, Owning
  <1>1. CASE handler'[h].upload = u /\ handler'[h].pc \in Owning
    BY <1>1
  <1>2. CASE sessions[u].state = "finalizing"
    <2>1. PICK g \in Handlers : handler[g].upload = u /\ handler[g].pc \in Owning
      BY <1>2 DEF OwnInv, ClaimsHaveOwners, Owning
    <2>2. CASE g = h
      BY <2>1, <2>2
    <2>3. CASE g # h
      BY <2>1, <2>3 DEF Alone, Stays
    <2> QED
      BY <2>2, <2>3
  <1> QED
    BY <1>1, <1>2

LEMMA FinalizeOwns == ASSUME OwnInv, NEW h \in Handlers, Finalize(h) PROVE ClaimsHaveOwners'
  <1> DEFINE u == handler[h].upload
  <1>1. Typed /\ Alone(h) /\ handler[h].pc \in Finalizing /\ u \in Uploads /\ sessions \in [Uploads -> Session]
    BY FinalizeMoves, Uploading DEF OwnInv, OneInv, Typed, TypeOK, Finalizing
  <1>2. UNCHANGED lost
    BY DEF Finalize, FinalizeVerify, FinalizeConcat, FinalizeCommit, FinalizeMove
  <1>3. CASE Release(h)
    <2>1. sessions'[u].state # "finalizing" /\ \A v \in Uploads : v # u => sessions'[v] = sessions[v]
      BY <1>1, <1>3 DEF Release, Session
    <2> QED
      BY <1>1, <1>2, <2>1, OwnersStay
  <1>4. CASE FinalizeMove(h)
    <2>1. handler[h].pc = "move" /\ sessions' = sessions
      BY <1>4 DEF FinalizeMove, At, tables
    <2> QED
      BY <1>1, <1>2, <2>1, OwnersStay DEF Owning
  <1>5. CASE (FinalizeVerify(h) \/ FinalizeConcat(h)) /\ ~Release(h)
    <2>1. sessions' = sessions
      BY <1>5 DEF FinalizeVerify, FinalizeConcat
    <2>2. \/ handler'[h] = Idle
          \/ handler'[h].pc \in {"concat", "commit"} /\ handler'[h].upload = u
          \/ sessions'[u].state = "gone"
      BY <1>1, <2>1, FinalizeMoves, StateMoves
    <2>3. handler'[h] # Idle
      <3>1. handler[h] \in Handler /\ handler \in [Handlers -> Handler]
        BY <1>1, Requests
      <3>2. CASE FinalizeVerify(h)
        BY <1>5, <3>1, <3>2, IdleOK DEF FinalizeVerify, Handler
      <3>3. CASE FinalizeConcat(h)
        <4>1. handler[h].pc = "concat"
          BY <3>3 DEF FinalizeConcat, At
        <4> DEFINE n == handler[h].n
                   all == Worse(handler[h].read, chunk[u][n])
        <4> HIDE DEF n, all
        <4>2. CASE handler' = [handler EXCEPT ![h].n = n + 1, ![h].read = all]
          <5>1. handler'[h] = [handler[h] EXCEPT !.n = n + 1, !.read = all]
            BY <3>1, <4>2
          <5> QED
            BY <3>1, <4>1, <5>1, IdleOK DEF Handler
        <4>3. CASE handler' = [handler EXCEPT ![h] = [Idle EXCEPT !.pc = "commit", !.upload = u, !.read = all]]
          <5>1. handler'[h] = [Idle EXCEPT !.pc = "commit", !.upload = u, !.read = all]
            BY <3>1, <4>3
          <5> QED
            BY <5>1, IdleOK DEF Handler
        <4> QED
          BY <1>5, <3>3, <4>2, <4>3 DEF FinalizeConcat, n, all
      <3> QED
        BY <1>5, <3>2, <3>3
    <2> QED
      BY <1>1, <1>2, <2>1, <2>2, <2>3, OwnersStay DEF Owning
  <1>6. CASE FinalizeCommit(h) /\ ~Release(h)
    <2>1. sessions' = [sessions EXCEPT ![u].state = "gone"]
      BY <1>6 DEF FinalizeCommit
    <2>2. sessions'[u].state = "gone" /\ \A v \in Uploads : v # u => sessions'[v] = sessions[v]
      BY <1>1, <2>1, StateMoves
    <2> QED
      BY <1>1, <1>2, <2>2, OwnersStay
  <1> QED
    BY <1>3, <1>4, <1>5, <1>6 DEF Finalize

LEMMA OwnStep == OwnInv /\ [Next]_vars => OwnInv'
  <1> SUFFICES ASSUME OwnInv, [Next]_vars PROVE OwnInv'
    OBVIOUS
  <1>1. OneInv /\ OneInv' /\ Typed
    BY OneStep DEF OwnInv, OneInv
  <1> SUFFICES ClaimsHaveOwners'
    BY <1>1 DEF OwnInv
  <1>2. CASE UNCHANGED vars
    BY <1>2 DEF vars, tables, OwnInv, ClaimsHaveOwners
  <1>3. CASE Crash
    BY <1>3 DEF Crash, tables, OwnInv, ClaimsHaveOwners, Finalizing
  <1>4. ASSUME NEW h \in Handlers, Create(h) \/ \E u \in Uploads : CreateInsert(h, u) PROVE ClaimsHaveOwners'
    <2>1. Alone(h) /\ \A u \in Uploads : sessions'[u] = sessions[u] \/ sessions'[u].state = "uploading"
      BY <1>1, <1>4, CreateMoves
    <2>2. handler[h].pc \notin Owning /\ UNCHANGED lost
      BY <1>4 DEF Create, CreateCheck, CreateInsert, At, Owning
    <2> QED
      BY <2>1, <2>2, OwnersStay
  <1>5. ASSUME NEW h \in Handlers, Write(h) PROVE ClaimsHaveOwners'
    <2>1. UNCHANGED lost
      BY <1>5 DEF Write, ChunkOpen, ChunkStream, ChunkFail, ChunkRename, ChunkBump
    <2> QED
      BY <1>1, <1>5, <2>1, WriteMoves, WriteSessions, OwnersStay DEF Owning, InUpload
  <1>6. ASSUME NEW h \in Handlers, Finalize(h) PROVE ClaimsHaveOwners'
    BY <1>6, FinalizeOwns
  <1>7. ASSUME NEW h \in Handlers, AbortDir(h) \/ DeleteFile(h) PROVE ClaimsHaveOwners'
    <2>1. Alone(h) /\ sessions' = sessions /\ handler[h].pc \notin Owning /\ UNCHANGED lost
      BY <1>1, <1>7, AnswerMoves, RemoveDirMoves DEF AbortDir, DeleteFile, tables, At, Owning
    <2> QED
      BY <2>1, OwnersStay
  <1>8. ASSUME NEW h \in Handlers, NEW u \in Uploads, FinalizeClaim(h, u) PROVE ClaimsHaveOwners'
    <2> DEFINE c == [Idle EXCEPT !.pc = "verify", !.upload = u]
    <2>1. c \in Handler /\ c.pc = "verify" /\ c.upload = u
      BY IdleOK DEF Handler
    <2>2. Alone(h) /\ handler'[h].pc = "verify" /\ handler'[h].upload = u /\ handler[h].pc = "idle" /\ UNCHANGED lost
      BY <1>1, <1>8, <2>1, ExceptMoves DEF FinalizeClaim, At
    <2>3. \A v \in Uploads : v # u => sessions'[v] = sessions[v]
      BY <1>1, <1>8, StateMoves DEF FinalizeClaim
    <2> QED
      BY <2>2, <2>3, OwnersStay DEF Owning
  <1>9. ASSUME NEW h \in Handlers, NEW u \in Uploads, AbortRow(h, u) \/ DeleteRow(h, u) \/ \E n \in Chunks : ChunkBegin(h, u, n)
        PROVE  ClaimsHaveOwners'
    <2>1. Alone(h) /\ handler[h].pc = "idle" /\ UNCHANGED lost
      BY <1>1, <1>9, BeginMoves DEF AbortRow, DeleteRow, ChunkBegin, At
    <2>2. \A v \in Uploads : sessions'[v] = sessions[v] \/ sessions'[v].state = "gone"
      BY <1>1, <1>9, BeginMoves, StateMoves
    <2> QED
      BY <2>1, <2>2, OwnersStay DEF Owning
  <1> QED
    BY <1>2, <1>3, <1>4, <1>5, <1>6, <1>7, <1>8, <1>9 DEF Next, Serve

(* No early return of a finalization forgets to give the claim back: a     *)
(* session in 'finalizing' is in the hands of a request, or was cut off by *)
(* a restart.                                                              *)
THEOREM ClaimsAreReleased == Spec => []ClaimsHaveOwners
  <1>1. Init => OwnInv
    <2>1. Init => ClaimsHaveOwners
      BY DEF Init, ClaimsHaveOwners, NoSession
    <2> QED
      BY <2>1, OneInit DEF OwnInv
  <1>2. OwnInv => ClaimsHaveOwners
    BY DEF OwnInv
  <1> QED
    BY <1>1, <1>2, OwnStep, PTL DEF Spec


-----------------------------------------------------------------------------
(* The catalog.  File names of rows never collide: uniqueFilenameTx gives  *)
(* a row the plain name, or one with the row's own hash in it.  So no      *)
(* rename and no unlink touches the file of another row, as long as no row *)
(* is deleted while a file is on its way into the catalog, and none is     *)
(* committed while one is on its way out.                                  *)
RowsIssued == \A v \in Uploads : InCatalog(v) => sessions[v].state # "unissued"
RowsNamed == \A v \in Uploads : InCatalog(v) =>
               \E name \in Names : images[v].file \in {<<name, Nil>>, <<name, images[v].sha>>}
RowsApart == \A v, w \in Uploads : InCatalog(v) /\ InCatalog(w) /\ v # w => images[v].file # images[w].file
Moving == \A h \in Handlers : At(h, "move") => images[handler[h].upload] = handler[h].image
Unlinking == \A h \in Handlers, v \in Uploads :
               At(h, "unlink") /\ InCatalog(v) => images[v].file # handler[h].image.file
ReadWhole == \A h \in Handlers :
               At(h, "commit") /\ sessions[handler[h].upload].hashed => handler[h].read = "whole"
Rows == RowsIssued /\ RowsNamed /\ RowsApart /\ Moving /\ Unlinking /\ ReadWhole
CatInv == OneInv /\ Rows /\ CatalogIntact

(* What a session was created with stays with it.                          *)
Kept == \A u \in Uploads : sessions[u].state # "unissued" =>
  /\ sessions'[u].state # "unissued"
  /\ sessions'[u].content = sessions[u].content /\ sessions'[u].hashed = sessions[u].hashed

LEMMA StateKeeps ==
  ASSUME Typed, NEW u \in Uploads,
         \/ sessions' = sessions
         \/ \E st \in {"uploading", "finalizing", "gone"} : sessions' = [sessions EXCEPT ![u].state = st]
         \/ \E n : sessions' = [sessions EXCEPT ![u].high = n]
  PROVE  Kept
  <1>1. sessions \in [Uploads -> Session]
    BY DEF Typed, TypeOK
  <1>2. CASE sessions' = sessions
    BY <1>2 DEF Kept
  <1>3. ASSUME NEW st \in {"uploading", "finalizing", "gone"}, sessions' = [sessions EXCEPT ![u].state = st] PROVE Kept
    BY <1>1, <1>3 DEF Kept, Session
  <1>4. ASSUME NEW n, sessions' = [sessions EXCEPT ![u].high = n] PROVE Kept
    BY <1>1, <1>4 DEF Kept, Session
  <1> QED
    BY <1>2, <1>3, <1>4

LEMMA InsertKeeps == ASSUME Typed, NEW h \in Handlers, NEW u \in Uploads, CreateInsert(h, u) PROVE Kept
  <1>1. sessions \in [Uploads -> Session] /\ sessions[u].state = "unissued"
    BY DEF Typed, TypeOK, CreateInsert, NoSession
  <1>2. \A v \in Uploads : v # u => sessions'[v] = sessions[v]
    BY <1>1 DEF CreateInsert
  <1> QED
    BY <1>1, <1>2 DEF Kept

(* Steps that leave the catalog alone.                                     *)
LEMMA CatalogStays ==
  ASSUME CatInv, NEW h \in Handlers, Alone(h), Kept, UNCHANGED <<images, files, lost>>,
         handler[h].pc # "move", handler'[h].pc \notin {"move", "unlink"},
         handler'[h].pc = "commit" /\ sessions'[handler'[h].upload].hashed => handler'[h].read = "whole"
  PROVE  Rows' /\ CatalogIntact'
  <1>1. \A v \in Uploads : InCatalog(v)' = InCatalog(v) /\ (InCatalog(v) => sessions[v].state # "unissued")
    BY DEF InCatalog, CatInv, Rows, RowsIssued
  <1>2. \A g \in Handlers : handler'[g].pc \in {"move", "unlink"} =>
          handler'[g].pc = handler[g].pc /\ handler'[g].upload = handler[g].upload /\ handler'[g].image = handler[g].image
    BY DEF Alone, Stays
  <1>3. \A g \in Handlers : handler[g].pc = "move" => handler'[g].pc = "move" /\ handler'[g].upload = handler[g].upload
    BY DEF Alone, Stays
  <1>4. ReadWhole'
    <2> SUFFICES ASSUME NEW g \in Handlers, g # h, handler'[g].pc = "commit", sessions'[handler'[g].upload].hashed
                 PROVE  handler'[g].read = "whole"
      BY DEF ReadWhole, At
    <2>1. handler[g].pc = "commit" /\ handler'[g].upload = handler[g].upload /\ handler'[g].read = handler[g].read
      BY DEF Alone, Stays
    <2>2. handler[g].upload \in Uploads /\ sessions[handler[g].upload].state # "unissued"
      BY <2>1, Uploading DEF CatInv, OneInv
    <2> QED
      BY <2>1, <2>2 DEF CatInv, Rows, ReadWhole, At, Kept
  <1>5. RowsIssued' /\ RowsNamed' /\ RowsApart'
    BY <1>1 DEF CatInv, Rows, RowsIssued, RowsNamed, RowsApart, Kept
  <1>6. Moving' /\ Unlinking'
    BY <1>1, <1>2 DEF CatInv, Rows, Moving, Unlinking, At
  <1>7. CatalogIntact'
    <2> SUFFICES ASSUME NEW u \in Uploads, InCatalog(u)
                 PROVE  /\ \/ files[images[u].file] = images[u].sha
                           \/ \E g \in Handlers : handler'[g].pc = "move" /\ handler'[g].upload = u
                           \/ u \in lost
                        /\ sessions'[u].hashed => images[u].sha = <<sessions'[u].content, "whole">>
      BY <1>1 DEF CatalogIntact, At
    <2>1. sessions'[u].hashed = sessions[u].hashed /\ sessions'[u].content = sessions[u].content
      BY <1>1 DEF Kept
    <2> QED
      BY <1>3, <2>1 DEF CatInv, CatalogIntact, At
  <1> QED
    BY <1>4, <1>5, <1>6, <1>7 DEF Rows

(* Removing a row, and the file that goes with it.                         *)
LEMMA DeleteRowCat ==
  ASSUME ~ConcurrentDeletes, CatInv, NEW h \in Handlers, NEW u \in Uploads, DeleteRow(h, u)
  PROVE  Rows' /\ CatalogIntact'
  <1> DEFINE c == [Idle EXCEPT !.pc = "unlink", !.upload = u, !.image = images[u]]
  <1>1. Typed /\ images \in [Uploads -> Filed \cup {NoImage}] /\ InCatalog(u)
    BY Same DEF CatInv, OneInv, DeleteRow
  <1>2. c \in Handler /\ c.pc = "unlink" /\ c.image = images[u]
    <2>1. images[u] \in Filed
      BY <1>1 DEF InCatalog
    <2> QED
      BY <2>1, IdleOK, FiledImage DEF Handler
  <1>3. handler' = [handler EXCEPT ![h] = c]
    BY DEF DeleteRow
  <1> HIDE DEF c
  <1>4. Alone(h) /\ handler'[h] = c
    BY <1>1, <1>2, <1>3, ExceptMoves
  <1>5. /\ \A v \in Uploads : InCatalog(v)' => InCatalog(v) /\ v # u /\ images'[v] = images[v]
        /\ UNCHANGED <<sessions, files, lost>>
    BY <1>1 DEF DeleteRow, InCatalog, disk
  <1>6. \A g \in Handlers : handler[g].pc # "move" /\ handler'[g].pc # "move"
    BY <1>2, <1>4 DEF DeleteRow, At, Alone, Stays
  <1>7. \A g \in Handlers : g # h => handler'[g].pc = handler[g].pc /\ handler'[g].upload = handler[g].upload
                                  /\ handler'[g].read = handler[g].read /\ handler'[g].image = handler[g].image
    BY <1>4 DEF Alone, Stays
  <1>8. RowsIssued' /\ RowsNamed' /\ RowsApart' /\ CatalogIntact'
    BY <1>5, <1>6 DEF CatInv, Rows, RowsIssued, RowsNamed, RowsApart, CatalogIntact, At
  <1>9. Moving' /\ ReadWhole'
    BY <1>2, <1>4, <1>5, <1>6, <1>7 DEF CatInv, Rows, Moving, ReadWhole, At
  <1>10. Unlinking'
    <2>1. \A v \in Uploads : InCatalog(v)' => images'[v].file # images[u].file
      BY <1>1, <1>5 DEF CatInv, Rows, RowsApart
    <2> QED
      BY <1>2, <1>4, <1>5, <1>7, <2>1 DEF CatInv, Rows, Unlinking, At
  <1> QED
    BY <1>8, <1>9, <1>10 DEF Rows

LEMMA DeleteFileCat == ASSUME CatInv, NEW h \in Handlers, DeleteFile(h) PROVE Rows' /\ CatalogIntact'
  <1>1. Typed /\ files \in [FileName -> Sha \cup {Nil}] /\ images \in [Uploads -> Filed \cup {NoImage}]
    BY Same DEF CatInv, OneInv
  <1>2. Alone(h) /\ handler'[h] = Idle /\ handler[h].pc = "unlink" /\ UNCHANGED <<sessions, images, lost>>
    BY <1>1, AnswerMoves DEF DeleteFile, At, tables
  <1>3. /\ \A v \in Uploads : InCatalog(v)' = InCatalog(v)
        /\ \A v \in Uploads : InCatalog(v) => files'[images[v].file] = files[images[v].file]
    BY <1>1, <1>2 DEF CatInv, Rows, Unlinking, At, DeleteFile, InCatalog, Filed
  <1>4. \A g \in Handlers : handler'[g].pc \in {"move", "unlink", "commit"} =>
          /\ handler'[g].pc = handler[g].pc /\ handler'[g].upload = handler[g].upload
          /\ handler'[g].read = handler[g].read /\ handler'[g].image = handler[g].image
    BY <1>2, IdleOK DEF Alone, Stays
  <1>5. \A g \in Handlers : handler[g].pc = "move" => handler'[g].pc = "move" /\ handler'[g].upload = handler[g].upload
    BY <1>2 DEF Alone, Stays
  <1>6. RowsIssued' /\ RowsNamed' /\ RowsApart'
    BY <1>2, <1>3 DEF CatInv, Rows, RowsIssued, RowsNamed, RowsApart
  <1>7. Moving' /\ Unlinking' /\ ReadWhole'
    BY <1>2, <1>3, <1>4 DEF CatInv, Rows, Moving, Unlinking, ReadWhole, At
  <1>8. CatalogIntact'
    BY <1>2, <1>3, <1>5 DEF CatInv, CatalogIntact, At
  <1> QED
    BY <1>6, <1>7, <1>8 DEF Rows

LEMMA CrashCat == ASSUME CatInv, Crash PROVE Rows' /\ CatalogIntact'
  <1>1. \A h \in Handlers : handler'[h].pc = "idle"
    BY IdleOK DEF Crash
  <1>2. /\ UNCHANGED <<sessions, images, files>> /\ \A v \in Uploads : InCatalog(v)' = InCatalog(v)
        /\ \A u \in Uploads : u \in lost => u \in lost'
        /\ \A h \in Handlers : handler[h].pc = "move" => handler[h].upload \in lost'
    BY DEF Crash, tables, disk, InCatalog, Finalizing
  <1>3. RowsIssued' /\ RowsNamed' /\ RowsApart'
    BY <1>2 DEF CatInv, Rows, RowsIssued, RowsNamed, RowsApart
  <1>4. Moving' /\ Unlinking' /\ ReadWhole'
    BY <1>1 DEF Moving, Unlinking, ReadWhole, At
  <1>5. CatalogIntact'
    BY <1>2 DEF CatInv, CatalogIntact, At
  <1> QED
    BY <1>3, <1>4, <1>5 DEF Rows

(* The row is committed: its name is free, and its hash is new.            *)
LEMMA FreshName ==
  ASSUME CatInv, NEW name \in Names, NEW sha \in Sha, \A v \in Uploads : images[v].sha # sha, NEW w \in Uploads, InCatalog(w)
  PROVE  images[w].file # UniqueFilename(name, sha)
  <1>1. PICK n \in Names : images[w].file \in {<<n, Nil>>, <<n, images[w].sha>>}
    BY DEF CatInv, Rows, RowsNamed
  <1>2. images[w].sha # sha
    OBVIOUS
  <1>3. sha # Nil /\ images[w].sha # Nil
    <2>1. images[w] \in Filed
      BY Same DEF CatInv, OneInv, InCatalog
    <2> QED
      BY <2>1, NoShaIsNil DEF Filed
  <1> QED
    BY <1>1, <1>2, <1>3 DEF UniqueFilename

LEMMA CommitCat ==
  ASSUME ~ConcurrentDeletes, CatInv, NEW h \in Handlers, FinalizeCommit(h), ~Release(h)
  PROVE  Rows' /\ CatalogIntact'
  <1> DEFINE u == handler[h].upload
             sha == <<sessions[u].content, handler[h].read>>
             row == [file |-> UniqueFilename(sessions[u].name, sha), sha |-> sha]
  <1>1. /\ Typed /\ handler[h].pc = "commit" /\ u \in Uploads /\ handler[h] \in Handler
        /\ sessions[u].name \in Names /\ sessions[u].state # "unissued"
        /\ images \in [Uploads -> Filed \cup {NoImage}]
    BY Uploading, Requests, Same DEF CatInv, OneInv, FinalizeCommit, At
  <1>2. sha \in Sha
    BY <1>1, Requests, Uploading DEF HandlerOK, Sha
  <1>3. /\ \A v \in Uploads : images[v].sha # sha
        /\ images' = [images EXCEPT ![u] = row] /\ sessions' = [sessions EXCEPT ![u].state = "gone"]
        /\ handler' = [handler EXCEPT ![h].pc = "move", ![h].image = row]
        /\ UNCHANGED <<files, lost>>
    BY DEF FinalizeCommit, disk
  <1>4. \A g \in Handlers : handler[g].pc # "unlink"
    BY DEF FinalizeCommit, At
  <1>5. row \in Filed
    BY <1>1, <1>2, UniqueTyped DEF Filed
  <1>6. Kept
    BY <1>1, <1>3, StateKeeps
  <1>7. row.sha = sha /\ row.file = UniqueFilename(sessions[u].name, sha)
    OBVIOUS
  <1>8. sessions[u].hashed => handler[h].read = "whole"
    BY <1>1 DEF CatInv, Rows, ReadWhole, At
  <1>9. \A w \in Uploads : InCatalog(w) => images[w].file # row.file
    BY <1>1, <1>2, <1>3, <1>7, FreshName
  <1>10. row.file \in {<<sessions[u].name, Nil>>, <<sessions[u].name, row.sha>>}
    BY <1>7 DEF UniqueFilename
  <1>11. sessions[u].hashed => row.sha = <<sessions[u].content, "whole">>
    BY <1>7, <1>8
  <1> HIDE DEF row
  <1>12. /\ Alone(h) /\ handler'[h].pc = "move" /\ handler'[h].upload = u /\ handler'[h].image = row
    <2> DEFINE c == [handler[h] EXCEPT !.pc = "move", !.image = row]
    <2>1. c \in Handler /\ c.pc = "move" /\ c.upload = u /\ c.image = row
      BY <1>1, <1>5, FiledImage DEF Handler
    <2>2. handler' = [handler EXCEPT ![h] = c]
      BY <1>1, <1>3, Requests
    <2> HIDE DEF c
    <2> QED
      BY <1>1, <2>1, <2>2, ExceptMoves
  <1>13. images'[u] = row /\ \A v \in Uploads : v # u => images'[v] = images[v] /\ (InCatalog(v)' <=> InCatalog(v))
    <2>1. images'[u] = row /\ \A v \in Uploads : v # u => images'[v] = images[v]
      BY <1>1, <1>3
    <2>2. \A v \in Uploads : v # u => (InCatalog(v)' <=> InCatalog(v))
      BY <2>1 DEF InCatalog
    <2> QED
      BY <2>1, <2>2
  <1>14. \A g \in Handlers : g # h => handler'[g].pc = handler[g].pc /\ handler'[g].upload = handler[g].upload
                                   /\ handler'[g].read = handler[g].read /\ handler'[g].image = handler[g].image
    BY <1>12 DEF Alone, Stays
  <1>15. \A v \in Uploads : InCatalog(v)' => sessions[v].state # "unissued"
    BY <1>1, <1>13 DEF CatInv, Rows, RowsIssued
  <1>16. RowsIssued' /\ RowsNamed' /\ RowsApart'
    BY <1>1, <1>6, <1>9, <1>10, <1>13, <1>15 DEF CatInv, Rows, RowsIssued, RowsNamed, RowsApart, Kept
  <1>17. Moving'
    <2> SUFFICES ASSUME NEW g \in Handlers, handler'[g].pc = "move", g # h PROVE images'[handler'[g].upload] = handler'[g].image
      BY <1>12, <1>13 DEF Moving, At
    <2>1. handler[g].pc = "move" /\ handler[g].upload \in Uploads
      BY <1>1, <1>14, Uploading
    <2>2. handler[g].upload # u
      BY <1>1, <2>1 DEF CatInv, OneInv, OneFinalizer, Finalizing
    <2> QED
      BY <1>13, <1>14, <2>1, <2>2 DEF CatInv, Rows, Moving, At
  <1>18. Unlinking' /\ ReadWhole'
    <2>1. \A g \in Handlers : handler'[g].pc # "unlink"
      BY <1>4, <1>12, <1>14
    <2>2. \A g \in Handlers : handler'[g].pc = "commit" => handler[g].upload \in Uploads /\ sessions[handler[g].upload].state # "unissued"
                                                          /\ handler[g].pc = "commit" /\ g # h
      BY <1>1, <1>12, <1>14, Uploading
    <2> QED
      BY <1>6, <1>14, <2>1, <2>2 DEF CatInv, Rows, Unlinking, ReadWhole, At, Kept
  <1>19. CatalogIntact'
    <2> SUFFICES ASSUME NEW v \in Uploads, InCatalog(v)'
                 PROVE  /\ \/ files[images'[v].file] = images'[v].sha
                           \/ \E g \in Handlers : handler'[g].pc = "move" /\ handler'[g].upload = v
                           \/ v \in lost
                        /\ sessions'[v].hashed => images'[v].sha = <<sessions'[v].content, "whole">>
      BY <1>3 DEF CatalogIntact, At
    <2>1. sessions'[v].hashed = sessions[v].hashed /\ sessions'[v].content = sessions[v].content
      BY <1>6, <1>15 DEF Kept
    <2>2. CASE v = u
      BY <1>11, <1>12, <1>13, <2>1, <2>2
    <2>3. CASE v # u
      <3>1. \A g \in Handlers : handler[g].pc = "move" => handler'[g].pc = "move" /\ handler'[g].upload = handler[g].upload
        BY <1>1, <1>14
      <3> QED
        BY <1>13, <2>1, <2>3, <3>1 DEF CatInv, CatalogIntact, At
    <2> QED
      BY <2>2, <2>3
  <1> QED
    BY <1>16, <1>17, <1>18, <1>19 DEF Rows

(* The file is renamed into place, under a name no other row has.          *)
LEMMA MoveCat == ASSUME CatInv, NEW h \in Handlers, FinalizeMove(h) PROVE Rows' /\ CatalogIntact'
  <1> DEFINE u == handler[h].upload  row == handler[h].image
  <1>1. /\ Typed /\ handler[h].pc = "move" /\ u \in Uploads /\ row \in Filed
        /\ images \in [Uploads -> Filed \cup {NoImage}] /\ files \in [FileName -> Sha \cup {Nil}]
        /\ UNCHANGED <<sessions, lost>>
    BY Uploading, Requests, Same DEF CatInv, OneInv, FinalizeMove, At, HandlerOK, tables
  <1>2. images[u] = row
    BY <1>1 DEF CatInv, Rows, Moving, At
  <1>3. Alone(h) /\ handler'[h] = Idle
    BY <1>1, AnswerMoves, RemoveDirMoves DEF FinalizeMove
  <1>4. \A g \in Handlers : handler'[g].pc \in {"move", "unlink", "commit"} =>
          /\ handler'[g].pc = handler[g].pc /\ handler'[g].upload = handler[g].upload
          /\ handler'[g].read = handler[g].read /\ handler'[g].image = handler[g].image /\ g # h
    BY <1>3, IdleOK DEF Alone, Stays
  <1>5. \A g \in Handlers : handler[g].pc = "move" /\ handler[g].upload # u =>
          handler'[g].pc = "move" /\ handler'[g].upload = handler[g].upload
    BY <1>3 DEF Alone, Stays
  <1>6. \A g \in Handlers : handler[g].pc = "move" /\ g # h => handler[g].upload \in Uploads /\ handler[g].upload # u
    BY <1>1, Uploading DEF CatInv, OneInv, OneFinalizer, Finalizing
  <1>7. /\ \A v \in Uploads : InCatalog(v)' => InCatalog(v) /\ images'[v] = images[v]
        /\ \A v \in Uploads : v # u => images'[v] = images[v]
    BY <1>1 DEF FinalizeMove, tables, InCatalog
  <1>8. ReadWhole' /\ RowsIssued' /\ RowsNamed' /\ RowsApart' /\ Unlinking'
    BY <1>1, <1>4, <1>7 DEF CatInv, Rows, ReadWhole, RowsIssued, RowsNamed, RowsApart, Unlinking, At
  <1>9. Moving'
    BY <1>4, <1>6, <1>7 DEF CatInv, Rows, Moving, At
  <1>10. CatalogIntact'
    <2> SUFFICES ASSUME NEW v \in Uploads, InCatalog(v)'
                 PROVE  \/ files'[images[v].file] = images[v].sha
                        \/ \E g \in Handlers : handler'[g].pc = "move" /\ handler'[g].upload = v
                        \/ v \in lost
      BY <1>1, <1>7 DEF CatInv, CatalogIntact, At
    <2>1. InCatalog(v) /\ images[v] \in Filed
      BY <1>1, <1>7 DEF InCatalog
    <2>2. CASE v = u
      <3>1. files' = [files EXCEPT ![row.file] = row.sha]
        BY <1>1, <2>2 DEF FinalizeMove, InCatalog
      <3> QED
        BY <1>1, <1>2, <2>2, <3>1 DEF Filed
    <2>3. CASE v # u
      <3>1. InCatalog(u)
        BY <1>1, <1>2, NoShaIsNil DEF InCatalog, Filed, NoImage
      <3>2. images[v].file # row.file
        BY <1>2, <1>1, <2>1, <2>3, <3>1 DEF CatInv, Rows, RowsApart
      <3>3. files'[images[v].file] = files[images[v].file]
        BY <1>1, <2>1, <3>2 DEF FinalizeMove, Filed, disk
      <3> QED
        BY <1>1, <1>5, <2>1, <2>3, <3>3 DEF CatInv, CatalogIntact, At
    <2> QED
      BY <2>2, <2>3
  <1> QED
    BY <1>8, <1>9, <1>10 DEF Rows

(* Assembling leaves the catalog alone; what an operator gave a hash for   *)
(* reaches the commit only whole.                                          *)
LEMMA AssembleCat ==
  ASSUME CatInv, NEW h \in Handlers, FinalizeVerify(h) \/ FinalizeConcat(h) \/ (FinalizeCommit(h) /\ Release(h))
  PROVE  Rows' /\ CatalogIntact'
  <1> DEFINE u == handler[h].upload
  <1>1. Typed /\ handler[h].pc # "move" /\ u \in Uploads /\ handler[h].pc \in Finalizing
    BY Uploading DEF CatInv, OneInv, FinalizeVerify, FinalizeConcat, FinalizeCommit, At, Finalizing
  <1>2. UNCHANGED lost /\ UNCHANGED files
    BY DEF FinalizeVerify, FinalizeConcat, FinalizeCommit, Release, disk
  <1>3. CASE Release(h) /\ UNCHANGED images
    <2>1. Kept
      BY <1>1, <1>3, StateKeeps DEF Release
    <2> QED
      BY <1>1, <1>2, <1>3, <2>1, ReleaseMoves, IdleOK, CatalogStays
  <1>4. CASE FinalizeVerify(h) /\ ~Release(h)
    <2>1. handler' = [handler EXCEPT ![h].pc = "concat", ![h].n = 1, ![h].read = "whole"]
          /\ sessions' = sessions /\ UNCHANGED images
      BY <1>4 DEF FinalizeVerify
    <2>2. handler'[h].pc = "concat"
      BY <1>1, <2>1, Requests DEF Handler
    <2>3. Alone(h) /\ Kept
      BY <1>1, <1>4, <2>1, FinalizeMoves, StateKeeps DEF Finalize
    <2> QED
      BY <1>1, <1>2, <2>1, <2>2, <2>3, CatalogStays
  <1>5. CASE FinalizeConcat(h) /\ ~Release(h)
    <2> DEFINE n == handler[h].n
               all == Worse(handler[h].read, chunk[u][n])
    <2>1. sessions' = sessions /\ UNCHANGED images /\ handler[h].pc = "concat"
      BY <1>5 DEF FinalizeConcat, At
    <2>2. Alone(h) /\ Kept
      BY <1>1, <1>5, <2>1, FinalizeMoves, StateKeeps DEF Finalize
    <2>3. all \in {"short", "holes", "whole"}
      BY DEF Worse
    <2> HIDE DEF n, all
    <2>4. CASE handler' = [handler EXCEPT ![h].n = n + 1, ![h].read = all]
      <3>1. handler'[h].pc = "concat"
        BY <1>1, <2>1, <2>4, Requests DEF Handler
      <3> QED
        BY <1>1, <1>2, <2>1, <2>2, <3>1, CatalogStays
    <2>5. CASE /\ handler' = [handler EXCEPT ![h] = [Idle EXCEPT !.pc = "commit", !.upload = u, !.read = all]]
               /\ ~(all = "short" \/ (sessions[u].hashed /\ all = "holes"))
      <3>1. handler'[h] = [Idle EXCEPT !.pc = "commit", !.upload = u, !.read = all]
        BY <1>1, <2>5, Requests
      <3>2. handler'[h].pc = "commit" /\ handler'[h].upload = u /\ handler'[h].read = all
        BY <3>1, IdleOK DEF Handler
      <3>3. sessions[u].hashed => all = "whole"
        BY <2>3, <2>5
      <3> QED
        BY <1>1, <1>2, <2>1, <2>2, <3>2, <3>3, CatalogStays
    <2> QED
      BY <1>5, <2>4, <2>5 DEF FinalizeConcat, n, all
  <1>6. CASE FinalizeCommit(h) /\ Release(h)
    <2>1. handler'[h].pc = "idle"
      BY <1>1, <1>6, ReleaseMoves, IdleOK
    <2>3. CASE UNCHANGED images
      BY <1>3, <1>6, <2>3
    <2> DEFINE sha == <<sessions[u].content, handler[h].read>>
               row == [file |-> UniqueFilename(sessions[u].name, sha), sha |-> sha]
    <2> HIDE DEF row
    <2>4. CASE handler' = [handler EXCEPT ![h].pc = "move", ![h].image = row]
      BY <1>1, <2>1, <2>4, Requests DEF Handler
    <2> QED
      BY <1>6, <2>3, <2>4 DEF FinalizeCommit, row
  <1> QED
    BY <1>3, <1>4, <1>5, <1>6 DEF FinalizeVerify, FinalizeConcat

LEMMA CatStep == ASSUME ~ConcurrentDeletes PROVE CatInv /\ [Next]_vars => CatInv'
  <1> SUFFICES ASSUME CatInv, [Next]_vars PROVE CatInv'
    OBVIOUS
  <1>1. OneInv /\ OneInv' /\ Typed
    BY OneStep DEF CatInv, OneInv
  <1> SUFFICES Rows' /\ CatalogIntact'
    BY <1>1 DEF CatInv
  <1>2. CASE UNCHANGED vars
    BY <1>2 DEF vars, tables, disk, CatInv, Rows, RowsIssued, RowsNamed, RowsApart, Moving, Unlinking, ReadWhole,
                CatalogIntact, InCatalog, At
  <1>3. CASE Crash
    BY <1>3, CrashCat
  <1>4. ASSUME NEW h \in Handlers, Create(h) \/ \E u \in Uploads : CreateInsert(h, u) PROVE Rows' /\ CatalogIntact'
    <2>1. Alone(h) /\ handler'[h].pc \in {"idle", "insert"}
      BY <1>1, <1>4, CreateMoves
    <2>2. handler[h].pc # "move" /\ UNCHANGED <<images, files, lost>>
      BY <1>4 DEF Create, CreateCheck, CreateInsert, At, tables, disk
    <2>3. Kept
      <3>1. CASE Create(h)
        BY <3>1 DEF Create, CreateCheck, tables, Kept
      <3> QED
        BY <1>1, <1>4, <3>1, InsertKeeps
    <2> QED
      BY <2>1, <2>2, <2>3, CatalogStays
  <1>5. ASSUME NEW h \in Handlers, Write(h) PROVE Rows' /\ CatalogIntact'
    <2>1. Alone(h) /\ handler[h].pc \in InUpload /\ handler'[h].pc \in {"idle", "stream", "rename", "bump"}
          /\ handler[h].upload \in Uploads
      BY <1>1, <1>5, WriteMoves, IdleOK, Uploading DEF InUpload
    <2>2. UNCHANGED <<images, files, lost>>
      BY <1>5 DEF Write, ChunkOpen, ChunkStream, ChunkFail, ChunkRename, ChunkBump, tables, disk
    <2>3. sessions' = sessions \/ sessions' = [sessions EXCEPT ![handler[h].upload].high = handler[h].n]
      BY <1>5 DEF Write, ChunkOpen, ChunkStream, ChunkFail, ChunkRename, ChunkBump, tables
    <2>4. Kept
      BY <1>1, <2>1, <2>3, StateKeeps
    <2> QED
      BY <2>1, <2>2, <2>4, CatalogStays DEF InUpload
  <1>6. ASSUME NEW h \in Handlers, Finalize(h) PROVE Rows' /\ CatalogIntact'
    BY <1>6, AssembleCat, CommitCat, MoveCat DEF Finalize
  <1>7. ASSUME NEW h \in Handlers, AbortDir(h) PROVE Rows' /\ CatalogIntact'
    <2>1. Alone(h) /\ handler'[h] = Idle /\ handler[h].pc # "move" /\ UNCHANGED <<sessions, images, files, lost>>
      BY <1>1, <1>7, RemoveDirMoves DEF AbortDir, tables, At
    <2> QED
      BY <2>1, IdleOK, CatalogStays DEF Kept
  <1>8. ASSUME NEW h \in Handlers, DeleteFile(h) PROVE Rows' /\ CatalogIntact'
    BY <1>8, DeleteFileCat
  <1>9. ASSUME NEW h \in Handlers, NEW u \in Uploads, FinalizeClaim(h, u) PROVE Rows' /\ CatalogIntact'
    <2> DEFINE c == [Idle EXCEPT !.pc = "verify", !.upload = u]
    <2>1. c \in Handler /\ c.pc = "verify"
      BY IdleOK DEF Handler
    <2>2. Alone(h) /\ handler'[h].pc = "verify" /\ handler[h].pc = "idle" /\ UNCHANGED <<images, files, lost>>
      BY <1>1, <1>9, <2>1, ExceptMoves DEF FinalizeClaim, At, disk
    <2>3. Kept
      BY <1>1, <1>9, StateKeeps DEF FinalizeClaim
    <2> QED
      BY <2>2, <2>3, CatalogStays
  <1>10. ASSUME NEW h \in Handlers, NEW u \in Uploads, AbortRow(h, u) \/ \E n \in Chunks : ChunkBegin(h, u, n)
         PROVE  Rows' /\ CatalogIntact'
    <2>1. Alone(h) /\ handler[h].pc = "idle" /\ handler'[h].pc \in {"abort", "open", "unlink"}
      BY <1>1, <1>10, BeginMoves DEF AbortRow, ChunkBegin, At
    <2>2. handler'[h].pc # "unlink"
      <3>1. CASE AbortRow(h, u)
        <4>1. handler'[h] = [Idle EXCEPT !.pc = "abort", !.upload = u]
          BY <1>1, <3>1, Requests DEF AbortRow
        <4> QED
          BY <4>1, IdleOK DEF Handler
      <3>2. ASSUME NEW n \in Chunks, ChunkBegin(h, u, n) PROVE handler'[h].pc # "unlink"
        <4>1. handler'[h] = [Idle EXCEPT !.pc = "open", !.upload = u, !.n = n]
          BY <1>1, <3>2, Requests DEF ChunkBegin
        <4> QED
          BY <4>1, IdleOK DEF Handler
      <3> QED
        BY <1>10, <3>1, <3>2
    <2>3. UNCHANGED <<images, files, lost>>
          /\ (sessions' = sessions \/ sessions' = [sessions EXCEPT ![u].state = "gone"])
      BY <1>10 DEF AbortRow, ChunkBegin, tables, disk
    <2>4. Kept
      BY <1>1, <2>3, StateKeeps
    <2> QED
      BY <2>1, <2>2, <2>3, <2>4, CatalogStays
  <1>11. ASSUME NEW h \in Handlers, NEW u \in Uploads, DeleteRow(h, u) PROVE Rows' /\ CatalogIntact'
    BY <1>11, DeleteRowCat
  <1> QED
    BY <1>2, <1>3, <1>4, <1>5, <1>6, <1>7, <1>8, <1>9, <1>10, <1>11 DEF Next, Serve

(* What the catalog promises an installer.  The hypothesis is that of the  *)
(* run: an image is not deleted while another one's file is on its way     *)
(* into the catalog, nor filed while one is on its way out (the hazard of  *)
(* DeleteImageFile, which the code leaves to the operator).                *)
THEOREM CatalogStaysIntact == ASSUME ~ConcurrentDeletes PROVE Spec => []CatalogIntact
  <1>1. Init => CatInv
    <2> SUFFICES ASSUME Init PROVE CatInv
      OBVIOUS
    <2>1. \A h \in Handlers : handler[h].pc = "idle"
      BY IdleOK DEF Init
    <2>2. \A v \in Uploads : ~InCatalog(v)
      BY DEF Init, InCatalog
    <2>3. Rows /\ CatalogIntact
      BY <2>1, <2>2 DEF Rows, RowsIssued, RowsNamed, RowsApart, Moving, Unlinking, ReadWhole, CatalogIntact, At
    <2> QED
      BY <2>3, OneInit DEF CatInv
  <1>2. CatInv => CatalogIntact
    BY DEF CatInv
  <1>3. CatInv /\ [Next]_vars => CatInv'
    BY CatStep
  <1> QED
    BY <1>1, <1>2, <1>3, PTL DEF Spec
=============================================================================
