--------------------------- MODULE LogSink_proofs ---------------------------
(***************************************************************************)
(* What Flush leaves behind, for any number of workers, any queue size and *)
(* any number of lines.                                                    *)
(***************************************************************************)
EXTENDS LogSink, FiniteSetTheorems, TLAPS

(* Where a line of the install can be.                                     *)
Places == Range(queue) \cup Range(posting) \cup Range(stored) \cup lost \cup inflight

(* Each line logged is somewhere; a goroutine that has returned holds no   *)
(* line; from the wait on the queue and the flusher hold none, for nobody  *)
(* logs after the installer has returned.                                  *)
SinkInv ==
  /\ LogTypeOK
  /\ 1 .. logged \subseteq Places
  /\ \A w \in returned : posting[w] = 0
  /\ pc \in {"waiting", "returned"} => queue = <<>> /\ posting[Flusher] = 0
  /\ pc = "returned" => returned = Workers

-----------------------------------------------------------------------------
LEMMA RangeAppend ==
  ASSUME NEW S, NEW q \in Seq(S), NEW x
  PROVE  Range(Append(q, x)) = Range(q) \cup {x}
<1>1. DOMAIN Append(q, x) = DOMAIN q \cup {Len(q) + 1}
  OBVIOUS
<1>2. /\ \A i \in DOMAIN q : Append(q, x)[i] = q[i]
      /\ Append(q, x)[Len(q) + 1] = x
      /\ Len(q) + 1 \notin DOMAIN q
  OBVIOUS
<1> QED
  BY <1>1, <1>2 DEF Range

LEMMA RangeTail ==
  ASSUME NEW S, NEW q \in Seq(S), q # <<>>
  PROVE  Range(q) = Range(Tail(q)) \cup {Head(q)}
<1>1. \A i \in DOMAIN q : i = 1 \/ (i - 1 \in DOMAIN Tail(q) /\ Tail(q)[i - 1] = q[i])
  OBVIOUS
<1>2. \A i \in DOMAIN Tail(q) : i + 1 \in DOMAIN q /\ Tail(q)[i] = q[i + 1]
  OBVIOUS
<1>3. 1 \in DOMAIN q /\ Head(q) = q[1]
  OBVIOUS
<1>4. Range(q) \subseteq Range(Tail(q)) \cup {Head(q)}
  BY <1>1, <1>3 DEF Range
<1>5. Range(Tail(q)) \cup {Head(q)} \subseteq Range(q)
  BY <1>2, <1>3 DEF Range
<1> QED
  BY <1>4, <1>5

(* Putting a line into, or out of, the hands of one goroutine.             *)
LEMMA RangeExcept ==
  ASSUME NEW P, NEW S, NEW f \in [P -> S], NEW p \in P, NEW x
  PROVE  /\ Range(f) \subseteq Range([f EXCEPT ![p] = x]) \cup {f[p]}
         /\ x \in Range([f EXCEPT ![p] = x])
<1> DEFINE g == [f EXCEPT ![p] = x]
<1>1. DOMAIN g = P /\ g[p] = x /\ \A r \in P \ {p} : g[r] = f[r]
  OBVIOUS
<1> QED
  BY <1>1 DEF Range

-----------------------------------------------------------------------------
LEMMA InitSink == Init => SinkInv
<1> SUFFICES ASSUME Init PROVE SinkInv
  OBVIOUS
<1>1. LogTypeOK
  BY SinkSizes DEF Init, LogTypeOK, Phases, Lines
<1>2. 1 .. logged = {}
  BY DEF Init
<1> QED
  BY <1>1, <1>2 DEF Init, SinkInv

(* The installer's own steps.                                              *)
LEMMA InstallKeeps == SinkInv /\ (HandleLine \/ LogDirect \/ Report) => SinkInv'
<1> SUFFICES ASSUME SinkInv, HandleLine \/ LogDirect \/ Report PROVE SinkInv'
  OBVIOUS
<1>0. LogTypeOK /\ 1 .. logged \subseteq Places
  BY DEF SinkInv
<1>1. CASE HandleLine
  <2>1. /\ logged \in 0 .. MaxLines /\ logged < MaxLines /\ logged' = logged + 1
        /\ queue \in Seq(Lines) /\ MaxLines \in Nat /\ Cap \in Nat
    BY <1>0, <1>1, SinkSizes DEF HandleLine, LogTypeOK
  <2>2. logged + 1 \in Lines /\ 1 .. logged' = (1 .. logged) \cup {logged + 1}
    BY <2>1 DEF Lines
  <2>3. UNCHANGED <<pc, posting, returned, inflight, stored, status>> /\ pc = "install"
    BY <1>1 DEF HandleLine
  <2>4. CASE Len(queue) < Cap /\ queue' = Append(queue, logged + 1) /\ lost' = lost
    <3>1. Range(queue') = Range(queue) \cup {logged + 1}
      BY <2>1, <2>4, RangeAppend
    <3>2. 1 .. logged' \subseteq Places'
      BY <1>0, <2>2, <2>3, <2>4, <3>1 DEF Places
    <3>3. queue' \in Seq(Lines) /\ Len(queue') <= Cap
      BY <2>1, <2>2, <2>4
    <3>4. LogTypeOK'
      BY <1>0, <2>1, <2>3, <2>4, <3>3 DEF LogTypeOK
    <3> QED
      BY <2>3, <3>2, <3>4 DEF SinkInv
  <2>5. CASE lost' = lost \cup {logged + 1} /\ queue' = queue
    <3>1. 1 .. logged' \subseteq Places'
      BY <1>0, <2>2, <2>3, <2>5 DEF Places
    <3>2. LogTypeOK'
      BY <1>0, <2>1, <2>2, <2>3, <2>5 DEF LogTypeOK
    <3> QED
      BY <2>3, <3>1, <3>2 DEF SinkInv
  <2> QED
    BY <1>1, <2>4, <2>5 DEF HandleLine
<1>2. CASE Report
  <2>1. Places' = Places /\ UNCHANGED <<logged, posting, returned>> /\ pc' = "reported"
    BY <1>2 DEF Report, Places
  <2>2. LogTypeOK'
    BY <1>0, <1>2 DEF Report, LogTypeOK, Phases
  <2> QED
    BY <1>0, <2>1, <2>2 DEF SinkInv
<1>3. CASE LogDirect
  <2>1. /\ logged \in 0 .. MaxLines /\ logged < MaxLines /\ logged' = logged + 1 /\ MaxLines \in Nat
        /\ posting \in [Posters -> 0 .. MaxLines] /\ posting[Flusher] = 0 /\ Flusher \in Posters
        /\ posting' = [posting EXCEPT ![Flusher] = logged + 1]
    BY <1>0, <1>3, SinkSizes DEF LogDirect, LogTypeOK, Posters
  <2>2. UNCHANGED <<pc, queue, returned, inflight, stored, lost, status>> /\ pc = "install"
    BY <1>3 DEF LogDirect
  <2>3. 1 .. logged' = (1 .. logged) \cup {logged + 1} /\ logged + 1 \in 0 .. MaxLines /\ 0 \notin 1 .. logged
    BY <2>1
  <2>4. Range(posting) \subseteq Range(posting') \cup {0} /\ logged + 1 \in Range(posting')
    BY <2>1, RangeExcept
  <2>5. 1 .. logged' \subseteq Places'
    BY <1>0, <2>2, <2>3, <2>4 DEF Places
  <2>6. LogTypeOK'
    BY <1>0, <2>1, <2>2, <2>3 DEF LogTypeOK
  <2>7. \A w \in Workers : posting'[w] = posting[w]
    BY <2>1, FlusherIsNoWorker DEF Posters
  <2>8. returned' = returned /\ returned \subseteq Workers
    BY <1>0, <2>2 DEF LogTypeOK
  <2> QED
    BY <2>2, <2>5, <2>6, <2>7, <2>8 DEF SinkInv
<1> QED
  BY <1>1, <1>2, <1>3

(* A goroutine takes a line off the queue.                                 *)
LEMMA TakesKeeps ==
  ASSUME SinkInv, NEW p \in Posters, Takes(p), p \notin returned, pc \notin {"waiting", "returned"}
  PROVE  SinkInv'
<1>0. LogTypeOK /\ 1 .. logged \subseteq Places
  BY DEF SinkInv
<1>1. /\ queue \in Seq(Lines) /\ queue # <<>> /\ queue' = Tail(queue)
      /\ posting \in [Posters -> 0 .. MaxLines] /\ posting[p] = 0
      /\ posting' = [posting EXCEPT ![p] = Head(queue)]
      /\ UNCHANGED <<pc, logged, returned, inflight, stored, lost, status>>
  BY <1>0 DEF Takes, LogTypeOK
<1>2. /\ Head(queue) \in Lines /\ Tail(queue) \in Seq(Lines)
      /\ Len(Tail(queue)) = Len(queue) - 1 /\ Len(queue) \in Nat
  BY <1>1
<1>3. LogTypeOK'
  BY <1>0, <1>1, <1>2, SinkSizes DEF LogTypeOK, Lines
<1>4. /\ Range(queue) = Range(queue') \cup {Head(queue)}
      /\ Range(posting) \subseteq Range(posting') \cup {0}
      /\ Head(queue) \in Range(posting')
  BY <1>1, RangeTail, RangeExcept
<1>5. 0 \notin 1 .. logged
  OBVIOUS
<1>6. 1 .. logged' \subseteq Places'
  BY <1>0, <1>1, <1>4, <1>5 DEF Places
<1> QED
  BY <1>1, <1>3, <1>6 DEF SinkInv

(* A POST ends, in any of three ways.                                      *)
LEMMA PostKeeps == ASSUME SinkInv, NEW p \in Posters, Post(p) PROVE SinkInv'
<1> DEFINE l == posting[p]
<1>0. LogTypeOK /\ 1 .. logged \subseteq Places
  BY DEF SinkInv
<1>1. /\ posting \in [Posters -> 0 .. MaxLines] /\ l # 0
      /\ posting' = [posting EXCEPT ![p] = 0]
      /\ UNCHANGED <<pc, logged, queue, returned, status>>
  BY <1>0 DEF Post, PostStored, PostFails, PostTimesOut, LogTypeOK
<1>2. l \in Lines /\ stored \in Seq(Lines)
  BY <1>0, <1>1, SinkSizes DEF Lines, LogTypeOK
<1>3. Range(posting) \subseteq Range(posting') \cup {l}
  BY <1>1, RangeExcept
<1>4. /\ stored' \in Seq(Lines) /\ lost' \subseteq Lines /\ inflight' \subseteq Lines
      /\ Range(stored) \cup lost \cup inflight \cup {l} \subseteq Range(stored') \cup lost' \cup inflight'
  <2>1. CASE PostStored(p)
    <3>1. Range(stored') = Range(stored) \cup {l}
      BY <1>2, <2>1, RangeAppend DEF PostStored
    <3> QED
      BY <1>0, <1>2, <2>1, <3>1 DEF PostStored, LogTypeOK
  <2>2. CASE PostFails(p)
    BY <1>0, <1>2, <2>2 DEF PostFails, LogTypeOK
  <2>3. CASE PostTimesOut(p)
    BY <1>0, <1>2, <2>3 DEF PostTimesOut, LogTypeOK
  <2> QED
    BY <2>1, <2>2, <2>3 DEF Post
<1>5. LogTypeOK'
  <2>1. posting' \in [Posters -> 0 .. MaxLines]
    BY <1>1, SinkSizes
  <2> QED
    BY <1>0, <1>1, <1>4, <2>1 DEF LogTypeOK
<1>6. 1 .. logged' \subseteq Places'
  BY <1>0, <1>1, <1>3, <1>4 DEF Places
<1>7. \A q \in Posters : posting[q] = 0 => posting'[q] = 0
  BY <1>1
<1>8. returned \subseteq Posters /\ Flusher \in Posters
  BY <1>0 DEF LogTypeOK, Posters
<1> QED
  BY <1>1, <1>5, <1>6, <1>7, <1>8 DEF SinkInv

LEMMA LateKeeps == SinkInv /\ LateArrival => SinkInv'
<1> SUFFICES ASSUME SinkInv, LateArrival PROVE SinkInv'
  OBVIOUS
<1>0. LogTypeOK /\ 1 .. logged \subseteq Places /\ stored \in Seq(Lines)
  BY DEF SinkInv, LogTypeOK
<1>1. UNCHANGED <<pc, logged, queue, posting, returned, status>>
  BY DEF LateArrival, agentVars
<1>2. PICK l \in inflight :
        /\ inflight' = inflight \ {l}
        /\ \/ stored' = Append(stored, l) /\ lost' = lost
           \/ lost' = lost \cup {l} /\ stored' = stored
  BY DEF LateArrival
<1>3. l \in Lines
  BY <1>0 DEF LogTypeOK
<1>4. CASE stored' = Append(stored, l) /\ lost' = lost
  <2>1. Range(stored') = Range(stored) \cup {l} /\ stored' \in Seq(Lines)
    BY <1>0, <1>3, <1>4, RangeAppend
  <2>2. 1 .. logged' \subseteq Places' /\ LogTypeOK'
    BY <1>0, <1>1, <1>2, <1>4, <2>1 DEF Places, LogTypeOK
  <2> QED
    BY <1>1, <2>2 DEF SinkInv
<1>5. CASE lost' = lost \cup {l} /\ stored' = stored
  <2>1. 1 .. logged' \subseteq Places' /\ LogTypeOK'
    BY <1>0, <1>1, <1>2, <1>3, <1>5 DEF Places, LogTypeOK
  <2> QED
    BY <1>1, <2>1 DEF SinkInv
<1> QED
  BY <1>2, <1>4, <1>5

(* A reset: what the agent held is lost, or a request on its way.          *)
LEMMA ResetKeeps == SinkInv /\ PowerCycled => SinkInv'
<1> SUFFICES ASSUME SinkInv, PowerCycled PROVE SinkInv'
  OBVIOUS
<1>0. LogTypeOK /\ 1 .. logged \subseteq Places
  BY DEF SinkInv
<1>1. /\ pc' = "off" /\ queue' = <<>> /\ posting' = [p \in Posters |-> 0] /\ returned' = Workers
      /\ UNCHANGED <<logged, stored, status>>
  BY DEF PowerCycled
<1>2. PICK sent \in SUBSET (Range(posting) \ {0}) :
        /\ inflight' = inflight \cup sent
        /\ lost' = lost \cup Range(queue) \cup ((Range(posting) \ {0}) \ sent)
  BY DEF PowerCycled
<1>3. Range(queue) \subseteq Lines /\ Range(posting) \ {0} \subseteq Lines
  BY <1>0, SinkSizes DEF LogTypeOK, Range, Lines
<1>4. 1 .. logged' \subseteq Places'
  BY <1>0, <1>1, <1>2 DEF Places
<1>5. queue' \in Seq(Lines) /\ Len(queue') <= Cap /\ posting' \in [Posters -> 0 .. MaxLines]
  BY <1>1, SinkSizes
<1>6. LogTypeOK'
  BY <1>0, <1>1, <1>2, <1>3, <1>5 DEF LogTypeOK, Phases
<1>7. \A w \in returned' : posting'[w] = 0
  BY <1>1 DEF Posters
<1> QED
  BY <1>1, <1>4, <1>6, <1>7 DEF SinkInv

(* Steps that move no line: goroutines that end, Flush, the job's row.     *)
LEMMA StillKeeps ==
  ASSUME SinkInv,
         \/ \E w \in Workers : WorkerStop(w)
         \/ FlushCall \/ FlushWait \/ FlushReturn \/ Cancelled \/ Deleted
         \/ UNCHANGED vars
  PROVE  SinkInv'
<1>0. LogTypeOK /\ 1 .. logged \subseteq Places
  BY DEF SinkInv
<1>1. UNCHANGED <<logged, queue, posting, inflight, stored, lost>>
  BY DEF WorkerStop, FlushCall, FlushWait, FlushReturn, Cancelled, Deleted, agentVars, vars
<1>2. 1 .. logged' \subseteq Places'
  BY <1>0, <1>1 DEF Places
<1>3. ASSUME NEW w \in Workers, WorkerStop(w) PROVE SinkInv'
  BY <1>0, <1>1, <1>2, <1>3 DEF SinkInv, WorkerStop, LogTypeOK
<1>4. CASE FlushCall
  BY <1>0, <1>1, <1>2, <1>4 DEF SinkInv, FlushCall, LogTypeOK, Phases
<1>5. CASE FlushWait
  BY <1>0, <1>1, <1>2, <1>5 DEF SinkInv, FlushWait, LogTypeOK, Phases
<1>6. CASE FlushReturn
  BY <1>0, <1>1, <1>2, <1>6 DEF SinkInv, FlushReturn, LogTypeOK, Phases
<1>7. CASE Cancelled \/ Deleted
  BY <1>0, <1>1, <1>2, <1>7 DEF SinkInv, Cancelled, Deleted, LogTypeOK, agentVars
<1>8. CASE UNCHANGED vars
  BY <1>0, <1>1, <1>2, <1>8 DEF SinkInv, LogTypeOK, agentVars, vars
<1> QED
  BY <1>3, <1>4, <1>5, <1>6, <1>7, <1>8

LEMMA NextKeeps == SinkInv /\ [Next]_vars => SinkInv'
<1> SUFFICES ASSUME SinkInv, [Next]_vars PROVE SinkInv'
  OBVIOUS
<1>0. returned \subseteq Workers /\ Workers \subseteq Posters /\ Flusher \in Posters
  BY DEF SinkInv, LogTypeOK, Posters
<1>1. CASE \E w \in Workers : WorkerTake(w)
  <2>1. PICK w \in Workers : w \notin returned /\ Takes(w)
    BY <1>1 DEF WorkerTake
  <2>2. pc \notin {"waiting", "returned"}
    BY <2>1 DEF SinkInv, Takes
  <2> QED
    BY <1>0, <2>1, <2>2, TakesKeeps
<1>2. CASE FlushTake
  BY <1>0, <1>2, TakesKeeps, FlusherIsNoWorker DEF FlushTake
<1>3. CASE \E p \in Posters : Post(p)
  BY <1>3, PostKeeps
<1>4. CASE HandleLine \/ LogDirect \/ Report \/ LateArrival \/ PowerCycled
  BY <1>4, InstallKeeps, LateKeeps, ResetKeeps
<1>5. CASE \/ \E w \in Workers : WorkerStop(w)
           \/ FlushCall \/ FlushWait \/ FlushReturn \/ Cancelled \/ Deleted
           \/ UNCHANGED vars
  BY <1>5, StillKeeps
<1> QED
  BY <1>1, <1>2, <1>3, <1>4, <1>5 DEF Next, Flush

(* The sink's variables keep their types in every behaviour, whatever is   *)
(* lost, late or reset.                                                    *)
THEOREM SinkTypeCorrect == Spec => []LogTypeOK
<1>1. SinkInv => LogTypeOK
  BY DEF SinkInv
<1> QED
  BY <1>1, InitSink, NextKeeps, PTL DEF Spec

(* When Flush returns, the agent holds no line any more, and each line it  *)
(* was given is stored, given up, or in a request still on its way.        *)
THEOREM FlushIsComplete == Spec => []FlushLeavesNothing
<1>1. SinkInv => FlushLeavesNothing
  <2> SUFFICES ASSUME SinkInv, pc = "returned"
               PROVE  /\ queue = <<>> /\ \A p \in Posters : posting[p] = 0
                      /\ 1 .. logged \subseteq Range(stored) \cup lost \cup inflight
    BY DEF FlushLeavesNothing
  <2>1. queue = <<>> /\ \A p \in Posters : posting[p] = 0
    BY DEF SinkInv, Posters
  <2>2. Range(queue) = {} /\ Range(posting) \subseteq {0}
    BY <2>1 DEF Range, SinkInv, LogTypeOK
  <2> QED
    BY <2>1, <2>2 DEF SinkInv, Places
<1> QED
  BY <1>1, InitSink, NextKeeps, PTL DEF Spec

-----------------------------------------------------------------------------
(* No line is in two places at once, which is what keeps it from being     *)
(* stored twice.                                                           *)
Held == Range(posting) \ {0}
HeldOnce == \A p, r \in Posters : posting[p] = posting[r] /\ posting[p] # 0 => p = r
Apart ==
  /\ Range(queue) \cap Held = {} /\ Range(queue) \cap Range(stored) = {} /\ Range(queue) \cap inflight = {}
  /\ Held \cap Range(stored) = {} /\ Held \cap inflight = {}
  /\ Range(stored) \cap inflight = {}
Known == Range(queue) \cup Held \cup Range(stored) \cup inflight \subseteq 1 .. logged
OnceInv == IsInjective(queue) /\ IsInjective(stored) /\ HeldOnce /\ Apart /\ Known

LEMMA InjectiveAppend ==
  ASSUME NEW S, NEW q \in Seq(S), NEW x, IsInjective(q), x \notin Range(q)
  PROVE  IsInjective(Append(q, x))
<1>1. DOMAIN Append(q, x) = DOMAIN q \cup {Len(q) + 1}
  OBVIOUS
<1>2. /\ \A i \in DOMAIN q : Append(q, x)[i] = q[i]
      /\ Append(q, x)[Len(q) + 1] = x
  OBVIOUS
<1>3. \A i \in DOMAIN q : q[i] # x
  BY DEF Range
<1> QED
  BY <1>1, <1>2, <1>3 DEF IsInjective

LEMMA InjectiveTail ==
  ASSUME NEW S, NEW q \in Seq(S), q # <<>>, IsInjective(q)
  PROVE  IsInjective(Tail(q)) /\ Head(q) \notin Range(Tail(q))
<1>1. \A i \in DOMAIN Tail(q) : i \in Nat /\ i >= 1 /\ i + 1 \in DOMAIN q /\ Tail(q)[i] = q[i + 1]
  OBVIOUS
<1>2. 1 \in DOMAIN q /\ Head(q) = q[1]
  OBVIOUS
<1>3. IsInjective(Tail(q))
  BY <1>1 DEF IsInjective
<1>4. \A i \in DOMAIN Tail(q) : Tail(q)[i] # Head(q)
  BY <1>1, <1>2 DEF IsInjective
<1> QED
  BY <1>3, <1>4 DEF Range

LEMMA GiveUp ==
  ASSUME LogTypeOK, HeldOnce, NEW p \in Posters, posting[p] # 0, posting' = [posting EXCEPT ![p] = 0]
  PROVE  HeldOnce' /\ Held' = Held \ {posting[p]} /\ posting[p] \in Held
<1>1. DOMAIN posting = Posters /\ DOMAIN posting' = Posters
  BY DEF LogTypeOK
<1>2. posting'[p] = 0 /\ \A r \in Posters \ {p} : posting'[r] = posting[r]
  BY DEF LogTypeOK
<1> QED
  BY <1>1, <1>2 DEF HeldOnce, Held, Range

LEMMA PickUp ==
  ASSUME LogTypeOK, HeldOnce, NEW p \in Posters, NEW x, x # 0, x \notin Held,
         posting[p] = 0, posting' = [posting EXCEPT ![p] = x]
  PROVE  HeldOnce' /\ Held' = Held \cup {x}
<1>1. DOMAIN posting = Posters /\ DOMAIN posting' = Posters
  BY DEF LogTypeOK
<1>2. posting'[p] = x /\ \A r \in Posters \ {p} : posting'[r] = posting[r]
  BY DEF LogTypeOK
<1>3. \A r \in Posters \ {p} : posting[r] # x
  BY <1>1 DEF Held, Range
<1>4. HeldOnce'
  BY <1>2, <1>3 DEF HeldOnce
<1>5. Held' = Held \cup {x}
  BY <1>1, <1>2 DEF Held, Range
<1> QED
  BY <1>4, <1>5

LEMMA InitOnce == Init => OnceInv
<1> SUFFICES ASSUME Init PROVE OnceInv
  OBVIOUS
<1>1. Range(queue) = {} /\ Range(stored) = {} /\ IsInjective(queue) /\ IsInjective(stored)
  BY DEF Init, Range, IsInjective
<1>2. Held = {} /\ HeldOnce
  BY DEF Init, Held, HeldOnce, Range
<1> QED
  BY <1>1, <1>2 DEF Init, OnceInv, Apart, Known

LEMMA QueueOnce == LogTypeOK /\ OnceInv /\ HandleLine => OnceInv'
<1> SUFFICES ASSUME LogTypeOK, OnceInv, HandleLine PROVE OnceInv'
  OBVIOUS
<1>1. /\ logged \in Nat /\ logged' = logged + 1 /\ queue \in Seq(Lines)
      /\ UNCHANGED <<posting, inflight, stored>>
  BY SinkSizes DEF LogTypeOK, HandleLine
<1>2. logged + 1 \notin 1 .. logged /\ 1 .. logged' = (1 .. logged) \cup {logged + 1}
  BY <1>1
<1>3. Held' = Held /\ HeldOnce'
  BY <1>1 DEF Held, HeldOnce, OnceInv
<1>4. CASE queue' = Append(queue, logged + 1)
  <2>1. logged + 1 \notin Range(queue)
    BY <1>2 DEF OnceInv, Known
  <2>2. Range(queue') = Range(queue) \cup {logged + 1} /\ IsInjective(queue')
    BY <1>1, <1>4, <2>1, RangeAppend, InjectiveAppend DEF OnceInv
  <2>3. Apart' /\ Known'
    BY <1>1, <1>2, <1>3, <2>2 DEF OnceInv, Apart, Known
  <2> QED
    BY <1>1, <1>3, <2>2, <2>3 DEF OnceInv
<1>5. CASE queue' = queue
  BY <1>1, <1>2, <1>3, <1>5 DEF OnceInv, Apart, Known
<1> QED
  BY <1>4, <1>5 DEF HandleLine

LEMMA DirectOnce == LogTypeOK /\ OnceInv /\ LogDirect => OnceInv'
<1> SUFFICES ASSUME LogTypeOK, OnceInv, LogDirect PROVE OnceInv'
  OBVIOUS
<1> DEFINE x == logged + 1
<1>1. /\ logged \in Nat /\ logged' = x /\ posting[Flusher] = 0 /\ Flusher \in Posters
      /\ posting' = [posting EXCEPT ![Flusher] = x]
      /\ UNCHANGED <<queue, inflight, stored>>
  BY SinkSizes DEF LogTypeOK, LogDirect, Posters
<1>2. x # 0 /\ x \notin 1 .. logged /\ 1 .. logged' = (1 .. logged) \cup {x}
  BY <1>1
<1>3. x \notin Range(queue) /\ x \notin Held /\ x \notin Range(stored) /\ x \notin inflight
  BY <1>2 DEF OnceInv, Known
<1>4. HeldOnce' /\ Held' = Held \cup {x}
  <2> HIDE DEF x
  <2> QED
    BY <1>1, <1>2, <1>3, PickUp DEF OnceInv
<1>5. Apart' /\ Known'
  BY <1>1, <1>2, <1>3, <1>4 DEF OnceInv, Apart, Known
<1> QED
  BY <1>1, <1>4, <1>5 DEF OnceInv

LEMMA TakesOnce == ASSUME LogTypeOK, OnceInv, NEW p \in Posters, Takes(p) PROVE OnceInv'
<1> DEFINE x == Head(queue)
<1>1. /\ queue \in Seq(Lines) /\ queue # <<>> /\ queue' = Tail(queue)
      /\ posting[p] = 0 /\ posting' = [posting EXCEPT ![p] = x]
      /\ UNCHANGED <<logged, inflight, stored>>
  BY DEF LogTypeOK, Takes
<1>2. x \in Lines /\ x # 0
  <2>1. x \in Lines
    BY <1>1
  <2>2. \A y \in Lines : y # 0
    BY SinkSizes DEF Lines
  <2> QED
    BY <2>1, <2>2
<1>3. /\ Range(queue) = Range(queue') \cup {x} /\ x \notin Range(queue')
      /\ IsInjective(queue')
  BY <1>1, RangeTail, InjectiveTail DEF OnceInv
<1>4. x \notin Held
  BY <1>3 DEF OnceInv, Apart
<1>5. HeldOnce' /\ Held' = Held \cup {x}
  <2> HIDE DEF x
  <2> QED
    BY <1>1, <1>2, <1>4, PickUp DEF OnceInv
<1>6. Apart' /\ Known'
  BY <1>1, <1>3, <1>5 DEF OnceInv, Apart, Known
<1> QED
  BY <1>1, <1>3, <1>5, <1>6 DEF OnceInv

LEMMA PostOnce == ASSUME LogTypeOK, OnceInv, NEW p \in Posters, Post(p) PROVE OnceInv'
<1> DEFINE l == posting[p]
<1>1. /\ l # 0 /\ posting' = [posting EXCEPT ![p] = 0]
      /\ UNCHANGED <<logged, queue>> /\ stored \in Seq(Lines)
  BY DEF LogTypeOK, Post, PostStored, PostFails, PostTimesOut
<1>2. HeldOnce' /\ Held' = Held \ {l} /\ l \in Held
  BY <1>1, GiveUp DEF OnceInv
<1>3. l \notin Range(stored) /\ l \notin inflight /\ l \notin Range(queue)
  BY <1>2 DEF OnceInv, Apart
<1>4. CASE stored' = Append(stored, l) /\ inflight' = inflight
  <2>1. Range(stored') = Range(stored) \cup {l} /\ IsInjective(stored')
    BY <1>1, <1>3, <1>4, RangeAppend, InjectiveAppend DEF OnceInv
  <2>2. Apart' /\ Known'
    BY <1>1, <1>2, <1>3, <1>4, <2>1 DEF OnceInv, Apart, Known
  <2> QED
    BY <1>1, <1>2, <2>1, <2>2 DEF OnceInv
<1>5. CASE stored' = stored /\ inflight' \in {inflight, inflight \cup {l}}
  <2>1. Apart' /\ Known'
    BY <1>1, <1>2, <1>3, <1>5 DEF OnceInv, Apart, Known
  <2> QED
    BY <1>1, <1>2, <1>5, <2>1 DEF OnceInv
<1> QED
  BY <1>4, <1>5 DEF Post, PostStored, PostFails, PostTimesOut

LEMMA LateOnce == LogTypeOK /\ OnceInv /\ LateArrival => OnceInv'
<1> SUFFICES ASSUME LogTypeOK, OnceInv, LateArrival PROVE OnceInv'
  OBVIOUS
<1>1. UNCHANGED <<logged, queue, posting>> /\ stored \in Seq(Lines)
  BY DEF LogTypeOK, LateArrival, agentVars
<1>2. PICK l \in inflight :
        inflight' = inflight \ {l} /\ (stored' = Append(stored, l) \/ stored' = stored)
  BY DEF LateArrival
<1>3. l \notin Range(stored) /\ l \notin Held /\ l \notin Range(queue)
  BY DEF OnceInv, Apart
<1>4. Held' = Held /\ HeldOnce'
  BY <1>1 DEF Held, HeldOnce, OnceInv
<1>5. CASE stored' = Append(stored, l)
  <2>1. Range(stored') = Range(stored) \cup {l} /\ IsInjective(stored')
    BY <1>1, <1>3, <1>5, RangeAppend, InjectiveAppend DEF OnceInv
  <2>2. Apart' /\ Known'
    BY <1>1, <1>2, <1>3, <1>4, <2>1 DEF OnceInv, Apart, Known
  <2> QED
    BY <1>1, <1>4, <2>1, <2>2 DEF OnceInv
<1>6. CASE stored' = stored
  <2>1. Apart' /\ Known'
    BY <1>1, <1>2, <1>4, <1>6 DEF OnceInv, Apart, Known
  <2> QED
    BY <1>1, <1>4, <1>6, <2>1 DEF OnceInv
<1> QED
  BY <1>2, <1>5, <1>6

LEMMA ResetOnce == LogTypeOK /\ OnceInv /\ PowerCycled => OnceInv'
<1> SUFFICES ASSUME LogTypeOK, OnceInv, PowerCycled PROVE OnceInv'
  OBVIOUS
<1>1. queue' = <<>> /\ posting' = [p \in Posters |-> 0] /\ UNCHANGED <<logged, stored>>
  BY DEF PowerCycled
<1>2. PICK sent \in SUBSET Held : inflight' = inflight \cup sent
  BY DEF PowerCycled, Held
<1>3. Range(queue') = {} /\ IsInjective(queue') /\ Held' = {} /\ HeldOnce'
  BY <1>1 DEF Range, IsInjective, Held, HeldOnce
<1>4. Apart' /\ Known'
  BY <1>1, <1>2, <1>3 DEF OnceInv, Apart, Known
<1> QED
  BY <1>1, <1>3, <1>4 DEF OnceInv

LEMMA NextOnce == LogTypeOK /\ OnceInv /\ [Next]_vars => OnceInv'
<1> SUFFICES ASSUME LogTypeOK, OnceInv, [Next]_vars PROVE OnceInv'
  OBVIOUS
<1>1. CASE \E p \in Posters : Takes(p)
  BY <1>1, TakesOnce
<1>2. CASE \E p \in Posters : Post(p)
  BY <1>2, PostOnce
<1>3. CASE HandleLine \/ LogDirect \/ LateArrival \/ PowerCycled
  BY <1>3, QueueOnce, DirectOnce, LateOnce, ResetOnce
<1>4. CASE UNCHANGED <<logged, queue, posting, inflight, stored>>
  BY <1>4 DEF OnceInv, HeldOnce, Held, Apart, Known
<1>5. \/ \E p \in Posters : Takes(p) \/ Post(p)
      \/ HandleLine \/ LogDirect \/ LateArrival \/ PowerCycled
      \/ UNCHANGED <<logged, queue, posting, inflight, stored>>
  BY DEF Next, Flush, FlushCall, FlushTake, FlushWait, FlushReturn, WorkerTake, WorkerStop,
         Report, Cancelled, Deleted, agentVars, vars, Posters
<1> QED
  BY <1>1, <1>2, <1>3, <1>4, <1>5

(* A line is never in the log twice, although POSTs that timed out may     *)
(* still arrive and a reset leaves requests behind.                        *)
THEOREM LineStoredOnce == Spec => []StoredOnce
<1>1. OnceInv => StoredOnce
  BY DEF OnceInv, StoredOnce
<1> QED
  BY <1>1, InitOnce, NextOnce, SinkTypeCorrect, PTL DEF Spec

(* Both together: what Flush leaves behind, and what the log holds.        *)
THEOREM LinesAreAccounted == Spec => []LinesAccounted
<1>1. FlushLeavesNothing /\ StoredOnce => LinesAccounted
  BY DEF LinesAccounted
<1> QED
  BY <1>1, FlushIsComplete, LineStoredOnce, PTL

-----------------------------------------------------------------------------
(* The sink implements JobLog.  Its lines are the rows of one job.         *)
Rows == [i \in DOMAIN stored |-> IF status = "gone" THEN Nil ELSE Job]
Status == [j \in {Job} |-> status]

(* A line that is stored was not stored before, so that it finds room.     *)
LEMMA RoomLeft ==
  ASSUME NEW q \in Seq(Lines), IsInjective(q), NEW l \in Lines, l \notin Range(q)
  PROVE  Len(q) < MaxLines
<1> SUFFICES ASSUME ~(Len(q) < MaxLines) PROVE FALSE
  OBVIOUS
<1> DEFINE f == Append(q, l)
           S == 1 .. (Len(q) + 1)
<1>1. Len(q) \in Nat /\ MaxLines \in Nat
  BY SinkSizes
<1>2. /\ IsFiniteSet(S) /\ Cardinality(S) = Len(q) + 1
      /\ IsFiniteSet(Lines) /\ Cardinality(Lines) = MaxLines
  BY <1>1, FS_Interval DEF Lines
<1>3. f \in [S -> Lines]
  <2>1. f \in Seq(Lines) /\ Len(f) = Len(q) + 1
    OBVIOUS
  <2> HIDE DEF f
  <2>2. f \in [1 .. Len(f) -> Lines]
    BY <2>1
  <2> QED
    BY <2>1, <2>2
<1>4. \E x, y \in S : x # y /\ f[x] = f[y]
  <2>1. Cardinality(Lines) < Cardinality(S)
    BY <1>1, <1>2
  <2> HIDE DEF f, S
  <2> QED
    BY <1>2, <1>3, <2>1, FS_PigeonHole
<1>5. IsInjective(f)
  BY InjectiveAppend
<1>6. DOMAIN f = S
  OBVIOUS
<1> QED
  BY <1>4, <1>5, <1>6 DEF IsInjective

LEMMA StoredIsAppended ==
  ASSUME LogTypeOK, OnceInv, NEW l \in Lines, l \notin Range(stored), status # "gone",
         stored' = Append(stored, l), status' = status
  PROVE  Log!AppendLog(Job)
<1>1. stored \in Seq(Lines)
  BY DEF LogTypeOK
<1>2. Len(stored) < MaxLines
  BY <1>1, RoomLeft DEF OnceInv
<1>3. Rows = [i \in 1 .. Len(stored) |-> Job] /\ Rows' = [i \in 1 .. Len(stored) + 1 |-> Job]
  BY <1>1 DEF Rows
<1>4. Rows \in Seq({Job}) /\ Len(Rows) = Len(stored)
  BY <1>1, <1>3
<1>5. Rows' = Append(Rows, Job)
  BY <1>1, <1>3, <1>4
<1>6. Status[Job] # "gone" /\ Status' = Status
  BY DEF Status
<1> QED
  BY <1>2, <1>4, <1>5, <1>6 DEF Log!AppendLog, Rows, Status

LEMMA SinkStepIsLogStep ==
  LogTypeOK /\ OnceInv /\ [Next]_vars => [Log!LogNext]_(Log!logVars)
<1> SUFFICES ASSUME LogTypeOK, OnceInv, [Next]_vars
             PROVE  Log!LogNext \/ (Rows' = Rows /\ Status' = Status)
  BY DEF Log!logVars, Rows, Status
<1>1. ASSUME NEW p \in Posters, PostStored(p) PROVE Log!LogNext
  <2>1. /\ posting[p] \in Lines /\ status # "gone"
        /\ stored' = Append(stored, posting[p]) /\ status' = status
    BY <1>1, SinkSizes DEF PostStored, LogTypeOK, Lines
  <2>2. posting[p] \in Held
    BY <1>1 DEF PostStored, LogTypeOK, Held, Range
  <2>3. posting[p] \notin Range(stored)
    BY <2>2 DEF OnceInv, Apart
  <2> QED
    BY <2>1, <2>3, StoredIsAppended DEF Log!LogNext
<1>2. ASSUME NEW l \in inflight, stored' = Append(stored, l), status # "gone", status' = status
      PROVE  Log!LogNext
  <2>1. l \in Lines /\ l \notin Range(stored)
    BY DEF LogTypeOK, OnceInv, Apart
  <2> QED
    BY <1>2, <2>1, StoredIsAppended DEF Log!LogNext
<1>3. ASSUME status = "live", status' = "over", stored' = stored PROVE Log!LogNext
  <2>1. Rows' = Rows /\ Status[Job] = "live" /\ Status' = [Status EXCEPT ![Job] = "over"]
    BY <1>3 DEF Rows, Status
  <2> QED
    BY <2>1 DEF Log!LogNext, Log!JobEnds, Rows, Status
<1>4. ASSUME status # "gone", status' = "gone", stored' = stored PROVE Log!LogNext
  <2>1. /\ Status[Job] # "gone" /\ Status' = [Status EXCEPT ![Job] = "gone"]
        /\ Rows' = [i \in DOMAIN Rows |-> IF Rows[i] = Job THEN Nil ELSE Rows[i]]
    BY <1>4 DEF Rows, Status
  <2> QED
    BY <2>1 DEF Log!LogNext, Log!PurgeJob, Rows, Status
<1>5. ASSUME stored' = stored, status' = status PROVE Rows' = Rows /\ Status' = Status
  BY <1>5 DEF Rows, Status
<1>6. CASE LateArrival
  <2>1. PICK l \in inflight :
          \/ stored' = Append(stored, l) /\ status # "gone"
          \/ stored' = stored
    BY <1>6 DEF LateArrival
  <2>2. status' = status
    BY <1>6 DEF LateArrival
  <2> QED
    BY <2>1, <2>2, <1>2, <1>5
<1>7. CASE Report \/ Cancelled \/ Deleted
  <2>1. stored' = stored
    BY <1>7 DEF Report, Cancelled, Deleted
  <2>2. \/ status' = status
        \/ status = "live" /\ status' = "over"
        \/ status # "gone" /\ status' = "gone"
    BY <1>7 DEF Report, Cancelled, Deleted
  <2> QED
    BY <2>1, <2>2, <1>3, <1>4, <1>5
<1>8. \/ \E p \in Posters : PostStored(p)
      \/ LateArrival \/ Report \/ Cancelled \/ Deleted
      \/ stored' = stored /\ status' = status
  BY DEF Next, Flush, FlushCall, FlushTake, FlushWait, FlushReturn, WorkerTake, WorkerStop, Takes,
         HandleLine, LogDirect, PowerCycled, Post, PostFails, PostTimesOut, agentVars, vars
<1> QED
  BY <1>1, <1>5, <1>6, <1>7, <1>8

(* Whatever the agent's goroutines, timeouts and resets do, the log only   *)
(* grows at its end, for as long as the job exists, and goes with it.      *)
THEOREM SinkImplementsJobLog == Spec => JobLogImplemented
<1>1. Init => Log!LogInit
  <2> SUFFICES ASSUME Init PROVE Rows = <<>> /\ Status = [j \in {Job} |-> "live"]
    BY DEF Log!LogInit, Rows, Status
  <2> QED
    BY DEF Init, Rows, Status
<1> QED
  BY <1>1, InitOnce, NextOnce, SinkStepIsLogStep, SinkTypeCorrect, PTL
  DEF Spec, JobLogImplemented, Log!LogSpec
=============================================================================
