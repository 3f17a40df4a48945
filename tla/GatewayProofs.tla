---------------------------- MODULE GatewayProofs ----------------------------
(***************************************************************************)
(* What the clients of the gateways are told is true, for any number of     *)
(* callers, any size of the chunk and of the stream buffer.  And the upload *)
(* sessions of the zone gateway, for any uploads and PATCHes in flight:     *)
(* their books agree and a complete upload has the client's bytes.          *)
(***************************************************************************)
EXTENDS HttpStore, ZoneUpload, FiniteSetTheorems, TLAPS

-----------------------------------------------------------------------------
(* The inductive invariant: what each stage of a call may look like, given   *)
(* the state of the chunk and whether its bytes are there.                   *)

Errors == {"none", "not_found", "verify_error", "io", "permission_denied", "offset_too_large",
           "unsupported", "invalid_param"}

Ops == {"none", "ask", "state", "have", "remove", "same_as", "restricted", "read", "piece", "write", "head"}

Stages == {"idle", "request", "piece", "head", "body", "stream", "broken", "response", "done"}

Outs == Named \cup States \cup {"none", "error", "read", "piece", "done", "written", "remote", "internal_error",
                               "offset_conflict", "true", "false", "state", "object"}

CallRec == [op : Ops, via : {"node", "zone", "store"}, at : Nat, len : Nat, stage : Stages,
            err : Errors, out : Outs, said : States \cup {"object", "none"}, sent : Nat, pipe : Seq(Seq(Nat)),
            got : Seq(Nat), gap : BOOLEAN, cut : BOOLEAN]

\* a row in state i is one of a chunk the store has
HeldIn(i) == i \in {"completed", "local_link", "same_as"}

\* n units of the chunk from an offset
Units(from, n) == [i \in 1 .. n |-> from + i]

\* What was received, then what waits in the channel, is the chunk from the
\* offset up to what was sent.
StreamOK(r) ==
    LET from == r.at + Len(r.got)
    IN  /\ r.op = "read"
        /\ r.at <= r.sent /\ r.sent <= ChunkSize
        /\ r.got = Units(r.at, Len(r.got))
        /\ Len(r.pipe) <= 2
        /\ Len(r.pipe) < 1 => r.sent = from
        /\ Len(r.pipe) >= 1 => r.pipe[1] = Units(from, Len(r.pipe[1]))
        /\ Len(r.pipe) >= 1 /\ Len(r.pipe) < 2 => r.sent = from + Len(r.pipe[1])
        /\ Len(r.pipe) >= 2 => /\ r.pipe[2] = Units(from + Len(r.pipe[1]), Len(r.pipe[2]))
                               /\ r.sent = from + Len(r.pipe[1]) + Len(r.pipe[2])

\* Before its answer a call has no result.
OpenOK(r) == r.stage \notin {"response", "done"} => r.err = "none" /\ r.said = "none" /\ r.out = "none"

\* What a caller is told of the chunk, whose row is in state i, and whose bytes
\* are there if b.
ToldOK(r, i, b) ==
    /\ r.out = "piece" => r.got = Units(r.at, r.len)
    /\ r.out \in {"written", "already_exists"} /\ ~r.gap => HeldIn(i) \/ b
    /\ r.out = "written" /\ ~r.gap => HeldIn(i) /\ b
    /\ r.op = "have" /\ r.out = "true" /\ ~r.gap => HeldIn(i)
    /\ r.op = "head" /\ r.out = "completed" /\ ~r.gap => HeldIn(i) /\ r.len = ChunkSize

\* An answer on its way.
ResponseOK(r, i, b) ==
    /\ r.out \in {"error"} <=> r.err # "none"
    /\ r.out # "read"
    /\ r.said # "none" <=> r.out = "state"
    /\ r.op = "write" => r.out \in {"written", "already_exists", "error"}
    /\ r.op \in {"ask", "state"} => r.out \in {"state", "error"}
    /\ r.op = "have" => r.out \in {"true", "false", "error"}
    /\ ToldOK(r, i, b)

\* An answer the client has.
DoneOK(r, i, b) ==
    /\ r.out = "read" => r.got = Units(r.at, ChunkSize - r.at)
    /\ r.said # "none" => r.out \in {r.said, "remote"}
    /\ ToldOK(r, i, b)
    /\ r.via = "node" /\ r.op # "have" /\ r.err \in Named => r.out = r.err
    /\ r.via = "store" /\ r.op \in {"read", "write", "restricted", "same_as"}
          /\ r.err \in Named \ {"unsupported"} => r.out = r.err

\* Which calls there are, and which of them tell a state.
KindOK(r) ==
    /\ r.op \in {"ask", "state", "have"} => r.via \in {"node", "zone"}
    /\ r.op = "piece" => r.via = "node"
    /\ r.op = "head" => r.via = "store"
    /\ r.op = "write" => r.via \in {"node", "store"}
    /\ r.said # "none" => r.op \in {"ask", "state"} /\ r.err = "none"
    /\ r.said # "none" /\ r.op = "state" => r.said \in States
    /\ r.said # "none" /\ r.op = "ask" => r.said \in {"object", "not_exist"}

CallOK(r, i, b) ==
    /\ r \in CallRec
    /\ OpenOK(r)
    /\ KindOK(r)
    /\ r.stage \in {"stream", "broken"} => StreamOK(r)
    /\ r.stage = "body" => r.op = "write"
    /\ r.stage = "head" => r.op = "head" /\ r.out = "none" /\ (~r.gap => HeldIn(i))
    /\ r.stage = "request" => r.got = <<>> /\ r.pipe = <<>>
    /\ r.stage = "response" => ResponseOK(r, i, b)
    /\ r.stage = "done" => DoneOK(r, i, b)

\* One write is owed an answer "written" for every time the bytes were absent.
WritesOK == writes + (IF blob THEN 0 ELSE 1) <= removals + 1

ProxyInv ==
    /\ item \in States /\ blob \in BOOLEAN /\ writes \in Nat /\ removals \in Nat
    /\ call \in [Callers -> CallRec]
    /\ \A c \in Callers : CallOK(call[c], item, blob)
    /\ WritesOK

-----------------------------------------------------------------------------
\* The invariant says what the properties of the gateways ask for.
LEMMA InvGivesRemoteTrue == ProxyInv => RemoteTrue
<1> SUFFICES ASSUME ProxyInv PROVE RemoteTrue
  OBVIOUS
<1>1. \A c \in Callers : call[c].stage = "done" => DoneOK(call[c], item, blob)
  BY DEF ProxyInv, CallOK
<1>2. BodyExact
  BY <1>1 DEF DoneOK, ToldOK, BodyExact, Done, Units
<1>3. WriteConfirmed /\ YesTrue
  BY <1>1 DEF DoneOK, ToldOK, WriteConfirmed, YesTrue, Done, HeldIn, Held, Has
<1>4. WrittenOnce
  BY DEF ProxyInv, WritesOK, WrittenOnce
<1>5. ErrorKept
  BY <1>1 DEF DoneOK, ErrorKept, Done
<1>6. HeadTrue /\ StoreErrorKept
  BY <1>1 DEF DoneOK, ToldOK, HeadTrue, StoreErrorKept, Done, HeldIn, Held
<1> QED BY <1>2, <1>3, <1>4, <1>5, <1>6 DEF RemoteTrue, AnswersTrue

\* A caller at rest.
LEMMA RestingCall ==
    ASSUME NEW i, NEW b
    PROVE  CallOK(NoCall, i, b)
<1>1. NoCall \in CallRec
  BY DEF NoCall, CallRec, Errors, Ops, Stages, Outs
<1>2. NoCall.stage = "idle" /\ NoCall.op = "none" /\ NoCall.err = "none" /\ NoCall.said = "none" /\ NoCall.out = "none"
  BY DEF NoCall
<1> QED BY <1>1, <1>2 DEF CallOK, OpenOK, KindOK

\* Nobody calls, and nothing was written or removed.
LEMMA InitProxy == HttpInit => ProxyInv
BY RestingCall DEF HttpInit, ProxyInit, ProxyInv, CallOK, WritesOK

\* A step of one call that leaves the chunk alone.
LEMMA OneCall ==
    ASSUME ProxyInv, NEW c \in Callers, NEW r, CallOK(r, item, blob), call' = [call EXCEPT ![c] = r],
           UNCHANGED <<item, blob, writes, removals>>
    PROVE  ProxyInv'
<1>1. r \in CallRec /\ call \in [Callers -> CallRec]
  BY DEF CallOK, ProxyInv
<1>2. call' \in [Callers -> CallRec] /\ \A d \in Callers : call'[d] = IF d = c THEN r ELSE call[d]
  BY <1>1
<1> QED BY <1>2 DEF ProxyInv, WritesOK

\* A call is what the invariant says of it.
LEMMA OfCall ==
    ASSUME ProxyInv, NEW c \in Callers
    PROVE  /\ CallOK(call[c], item, blob) /\ call[c] \in CallRec
           /\ call \in [Callers -> CallRec] /\ item \in States /\ blob \in BOOLEAN
BY DEF ProxyInv

\* A new call.
LEMMA StartStep ==
    ASSUME ProxyInv, NEW c \in Callers, NEW op \in Ops, NEW via \in {"node", "zone", "store"},
           NEW at \in Nat, NEW len \in Nat, Start(c, op, via, at, len),
           op \in {"ask", "state", "have"} => via \in {"node", "zone"}, op = "piece" => via = "node",
           op = "head" => via = "store", op = "write" => via \in {"node", "store"}
    PROVE  ProxyInv'
<1> DEFINE r == [NoCall EXCEPT !.op = op, !.via = via, !.at = at, !.len = len, !.stage = "request"]
<1>1. NoCall \in CallRec
  BY RestingCall DEF CallOK
<1>2. r \in CallRec
  BY <1>1 DEF CallRec, Stages
<1> HIDE DEF r
<1>3. /\ r.op = op /\ r.via = via /\ r.stage = "request" /\ r.err = "none" /\ r.said = "none"
      /\ r.out = "none" /\ r.got = <<>> /\ r.pipe = <<>>
  BY DEF NoCall, r
<1>4. CallOK(r, item, blob)
  BY <1>2, <1>3 DEF CallOK, OpenOK, KindOK
<1> QED BY <1>4, OneCall DEF Start, chunkVars, r

\* The calls of the applications, the backend and the GC client.
LEMMA InvokeStep ==
    ASSUME ProxyInv, NEW c \in Callers, Invoke(c) \/ BackendCall(c) \/ GcCall(c)
    PROVE  ProxyInv'
<1>1. ASSUME NEW at \in 0 .. ChunkSize + 1 PROVE at \in Nat
  BY <1>1, ProxyAssumption
<1>2. ASSUME NEW at \in 0 .. ChunkSize PROVE at \in Nat
  BY <1>2, ProxyAssumption
<1>3. ASSUME NEW len \in 1 .. ChunkSize PROVE len \in Nat
  BY <1>3, ProxyAssumption
<1>4. CASE Invoke(c)
  <2>1. CASE \E op \in {"ask", "state", "have", "remove", "same_as", "restricted"}, via \in {"node", "zone"} :
                Start(c, op, via, 0, 0)
    BY <2>1, StartStep DEF Ops
  <2>2. CASE Start(c, "write", "node", 0, 0)
    BY <2>2, StartStep DEF Ops
  <2>3. CASE \E at \in 0 .. ChunkSize + 1 : Start(c, "read", "node", at, 0)
    BY <1>1, <2>3, StartStep DEF Ops
  <2>4. CASE \E at \in 0 .. ChunkSize + 1, len \in 1 .. ChunkSize : Start(c, "piece", "node", at, len)
    BY <1>1, <1>3, <2>4, StartStep DEF Ops
  <2> QED BY <1>4, <2>1, <2>2, <2>3, <2>4 DEF Invoke
<1>5. CASE BackendCall(c)
  BY <1>1, <1>5, StartStep DEF BackendCall, Ops
<1>6. CASE GcCall(c)
  BY <1>6, StartStep DEF GcCall, Ops
<1> QED BY <1>4, <1>5, <1>6

\* A call that has no result yet and is given an error.
LEMMA DeniedOK ==
    ASSUME NEW c \in Callers, NEW i, NEW b, NEW j, NEW d, CallOK(call[c], i, b),
           call[c].stage \notin {"response", "done"}, NEW e \in Errors \ {"none"}
    PROVE  CallOK(Denied(c, e), j, d)
<1> DEFINE r == Denied(c, e)
<1>1. call[c] \in CallRec
  BY DEF CallOK
<1>2. r \in CallRec
  BY <1>1 DEF CallRec, Errors, Stages, Outs, Denied
<1>3. /\ r.stage = "response" /\ r.out = "error" /\ r.err = e /\ r.said = "none"
      /\ r.op = call[c].op /\ r.via = call[c].via
  BY <1>1 DEF CallRec, CallOK, OpenOK, Denied
<1>4. KindOK(r)
  BY <1>3 DEF CallOK, KindOK
<1>5. ResponseOK(r, j, d)
  BY <1>3 DEF ResponseOK, ToldOK
<1> QED BY <1>2, <1>3, <1>4, <1>5 DEF CallOK, OpenOK

\* An error is raised for a call that has no result yet.
LEMMA FailStep ==
    ASSUME ProxyInv, NEW c \in Callers, call[c].stage \notin {"response", "done"}, NEW e \in Errors \ {"none"},
           Fail(c, e), UNCHANGED <<item, blob, writes, removals>>
    PROVE  ProxyInv'
<1>1. CallOK(call[c], item, blob) /\ call[c] \in CallRec /\ call \in [Callers -> CallRec]
  BY OfCall
<1>2. CallOK(Denied(c, e), item, blob)
  BY <1>1, DeniedOK
<1>3. call' = [call EXCEPT ![c] = Denied(c, e)]
  BY <1>1 DEF Fail, Denied
<1> QED BY <1>2, <1>3, OneCall

\* An answer that promises nothing of the chunk.
LEMMA PlainAnswer ==
    ASSUME NEW q, NEW i, NEW b, NEW j, NEW d, CallOK(q, i, b), q.stage \notin {"response", "done"}, NEW o \in Outs,
           q.op \notin {"write", "ask", "state", "have"}, o \notin {"error", "read", "piece", "written", "already_exists", "state"},
           q.op = "head" => o # "completed"
    PROVE  CallOK([q EXCEPT !.stage = "response", !.out = o], j, d)
<1> DEFINE r == [q EXCEPT !.stage = "response", !.out = o]
<1>1. q \in CallRec
  BY DEF CallOK
<1>2. r \in CallRec
  BY <1>1 DEF CallRec, Stages
<1>3. /\ r.stage = "response" /\ r.out = o /\ r.err = "none" /\ r.said = "none"
      /\ r.op = q.op /\ r.via = q.via
  BY <1>1 DEF CallRec, CallOK, OpenOK
<1> HIDE DEF r
<1>4. KindOK(r)
  BY <1>3 DEF CallOK, KindOK
<1>5. ResponseOK(r, j, d)
  BY <1>3 DEF ResponseOK, ToldOK
<1>6. CallOK(r, j, d)
  BY <1>2, <1>3, <1>4, <1>5 DEF CallOK, OpenOK
<1> QED BY <1>6 DEF r

LEMMA AnswerStep ==
    ASSUME ProxyInv, NEW c \in Callers, call[c].stage \notin {"response", "done"}, NEW o \in Outs,
           Answer(c, o), UNCHANGED <<item, blob, writes, removals>>, call[c].op \notin {"write", "ask", "state", "have"},
           o \notin {"error", "read", "piece", "written", "already_exists", "state"},
           call[c].op = "head" => o # "completed"
    PROVE  ProxyInv'
<1>1. CallOK(call[c], item, blob) /\ call[c] \in CallRec /\ call \in [Callers -> CallRec]
  BY OfCall
<1>2. CallOK([call[c] EXCEPT !.stage = "response", !.out = o], item, blob)
  BY <1>1, PlainAnswer
<1>3. call' = [call EXCEPT ![c] = [call[c] EXCEPT !.stage = "response", !.out = o]]
  BY <1>1 DEF Answer
<1> QED BY <1>2, <1>3, OneCall

\* A removal or a replacement excuses what other callers were told of the chunk.
LEMMA GapExcuses ==
    ASSUME NEW q, NEW i, NEW b, NEW j, NEW d, CallOK(q, i, b)
    PROVE  CallOK([q EXCEPT !.gap = TRUE], j, d)
<1> DEFINE r == [q EXCEPT !.gap = TRUE]
<1>1. q \in CallRec
  BY DEF CallOK
<1>2. r \in CallRec
  BY <1>1 DEF CallRec
<1>3. /\ r.op = q.op /\ r.via = q.via /\ r.at = q.at /\ r.len = q.len /\ r.stage = q.stage /\ r.err = q.err
      /\ r.out = q.out /\ r.said = q.said /\ r.sent = q.sent /\ r.pipe = q.pipe /\ r.got = q.got /\ r.gap
  BY <1>1 DEF CallRec
<1> HIDE DEF r
<1>4. OpenOK(r) /\ KindOK(r)
  BY <1>3 DEF CallOK, OpenOK, KindOK
<1>5. r.stage \in {"stream", "broken"} => StreamOK(r)
  BY <1>3 DEF CallOK, StreamOK
<1>6. (q.out = "piece" => q.got = Units(q.at, q.len)) => ToldOK(r, j, d)
  BY <1>3 DEF ToldOK
<1>7. r.stage = "response" => ResponseOK(r, j, d)
  BY <1>3, <1>6 DEF CallOK, ResponseOK, ToldOK
<1>8. r.stage = "done" => DoneOK(r, j, d)
  BY <1>3, <1>6 DEF CallOK, DoneOK, ToldOK
<1>9. CallOK(r, j, d)
  BY <1>2, <1>3, <1>4, <1>5, <1>7, <1>8 DEF CallOK
<1> QED BY <1>9 DEF r

\* The chunk is removed or replaced, and the caller has an answer to that.
LEMMA DisturbStep ==
    ASSUME ProxyInv, NEW c \in Callers, NEW r, Disturb(c, r), CallOK(r, item', blob'),
           item' \in States, blob' \in BOOLEAN, writes' = writes,
           \/ removals' = removals + 1
           \/ removals' = removals /\ blob' = blob
    PROVE  ProxyInv'
<1>1. writes' \in Nat /\ removals' \in Nat /\ WritesOK'
  BY DEF ProxyInv, WritesOK
<1>2. ASSUME NEW d \in Callers PROVE CallOK(call'[d], item', blob')
  <2>1. CASE d = c
    BY <2>1 DEF Disturb
  <2>2. CASE d # c
    BY <2>2, OfCall, GapExcuses DEF Disturb
  <2> QED BY <2>1, <2>2
<1>3. call' \in [Callers -> CallRec]
  BY <1>2 DEF Disturb, CallOK
<1> QED BY <1>1, <1>2, <1>3 DEF ProxyInv

\* The answer of a call that changes the chunk.
LEMMA ToldStep ==
    ASSUME ProxyInv, NEW c \in Callers, call[c].stage \notin {"response", "done"},
           call[c].op \in {"remove", "same_as", "restricted"}, NEW j, NEW d
    PROVE  CallOK(Told(c), j, d)
BY OfCall, PlainAnswer DEF Told, Outs

LEMMA RemoveStep ==
    ASSUME ProxyInv, NEW c \in Callers, call[c].stage \notin {"response", "done"}, RemoveCall(c)
    PROVE  ProxyInv'
<1>1. item \in States /\ blob \in BOOLEAN
  BY DEF ProxyInv
<1>2. CASE (\E e \in BadRequest : Fail(c, e)) /\ Quiet
  BY <1>2, FailStep DEF Quiet, chunkVars, BadRequest, Errors
<1>3. CASE /\ Disturb(c, Told(c))
           /\ UNCHANGED chunkVars \/ (blob' = FALSE /\ item' \in {item, "not_exist"})
           /\ removals' = removals + 1 /\ writes' = writes
  <2>1. item' \in States /\ blob' \in BOOLEAN
    BY <1>1, <1>3 DEF chunkVars, States
  <2> QED BY <1>3, <2>1, ToldStep, DisturbStep DEF RemoveCall
<1> QED BY <1>2, <1>3 DEF RemoveCall

\* A chunk that is now the same as a list.
LEMMA SameAsStep ==
    ASSUME ProxyInv, NEW c \in Callers, call[c].stage \notin {"response", "done"}, SameAs(c)
    PROVE  ProxyInv'
<1>1. blob \in BOOLEAN
  BY DEF ProxyInv
<1>2. CASE (\E e \in BadRequest \cup {"not_found"} : Fail(c, e)) /\ Quiet
  BY <1>2, FailStep DEF Quiet, chunkVars, BadRequest, Errors
<1>3. CASE Disturb(c, Told(c)) /\ item' = "same_as" /\ blob' = blob /\ writes' = writes /\ removals' = removals
  <2>1. item' \in States /\ blob' \in BOOLEAN
    BY <1>1, <1>3 DEF States
  <2> QED BY <1>3, <2>1, ToldStep, DisturbStep DEF SameAs
<1> QED BY <1>2, <1>3 DEF SameAs

\* The restricted calls leave the chunk alone, or evict it.
LEMMA MarkStep ==
    ASSUME ProxyInv, NEW c \in Callers, call[c].stage \notin {"response", "done"}, Mark(c)
    PROVE  ProxyInv'
<1>1. UNCHANGED <<item, blob, writes, removals>> /\ call[c].op = "restricted"
  BY DEF Mark, chunkVars
<1>2. CASE Answer(c, "done")
  BY <1>1, <1>2, AnswerStep DEF Outs
<1>3. CASE \E e \in BadRequest \cup {"not_found"} : Fail(c, e)
  BY <1>1, <1>3, FailStep DEF BadRequest, Errors
<1> QED BY <1>2, <1>3 DEF Mark

LEMMA ForcedGcStep ==
    ASSUME ProxyInv, NEW c \in Callers, call[c].stage \notin {"response", "done"}, ForcedGc(c)
    PROVE  ProxyInv'
<1>1. item' \in States /\ blob' \in BOOLEAN /\ writes' = writes /\ removals' = removals + 1
  BY DEF ForcedGc, ProxyInv, States
<1>2. PICK r \in {Told(c), Denied(c, "io")} : Disturb(c, r)
  BY DEF ForcedGc
<1>3. CallOK(Denied(c, "io"), item', blob')
  BY OfCall, DeniedOK DEF Errors
<1>4. CallOK(Told(c), item', blob')
  BY ToldStep DEF ForcedGc
<1> QED BY <1>1, <1>2, <1>3, <1>4, DisturbStep

\* An answer that tells a state.
LEMMA TellStep ==
    ASSUME ProxyInv, NEW c \in Callers, call[c].stage \notin {"response", "done"}, NEW st, Tell(c, st),
           UNCHANGED <<item, blob, writes, removals>>,
           \/ call[c].op = "state" /\ st \in States
           \/ call[c].op = "ask" /\ st \in {"object", "not_exist"}
    PROVE  ProxyInv'
<1>1. CallOK(call[c], item, blob) /\ call[c] \in CallRec /\ call \in [Callers -> CallRec]
  BY OfCall
<1>2. PICK r : r = [call[c] EXCEPT !.stage = "response", !.out = "state", !.said = st]
  OBVIOUS
<1>3. r \in CallRec
  BY <1>1, <1>2 DEF CallRec, Stages, Outs, States
<1>4. /\ r.stage = "response" /\ r.out = "state" /\ r.err = "none" /\ r.said = st
      /\ r.op = call[c].op /\ r.via = call[c].via
  BY <1>1, <1>2 DEF CallRec, CallOK, OpenOK
<1>5. st # "none"
  BY DEF States
<1>6. KindOK(r)
  BY <1>1, <1>4 DEF CallOK, KindOK
<1>7. ResponseOK(r, item, blob)
  BY <1>4, <1>5 DEF ResponseOK, ToldOK
<1>8. CallOK(r, item, blob)
  BY <1>3, <1>4, <1>6, <1>7 DEF CallOK, OpenOK
<1>9. call' = [call EXCEPT ![c] = r]
  BY <1>1, <1>2 DEF Tell
<1> QED BY <1>8, <1>9, OneCall

\* The queries.
LEMMA AskStep ==
    ASSUME ProxyInv, NEW c \in Callers, call[c].stage \notin {"response", "done"}, Ask(c) \/ AskState(c)
    PROVE  ProxyInv'
<1>1. UNCHANGED <<item, blob, writes, removals>> /\ item \in States
  BY DEF Ask, AskState, Quiet, chunkVars, ProxyInv
<1>2. CASE \E e \in Raised \cup BadRequest : Fail(c, e)
  BY <1>1, <1>2, FailStep DEF Raised, BadRequest, Errors
<1>3. CASE call[c].op = "state" /\ \E st \in {item, "not_exist"} : Tell(c, st)
  BY <1>1, <1>3, TellStep DEF States
<1>4. CASE call[c].op = "ask" /\ \E found \in BOOLEAN : Tell(c, ObjectJson(found).state)
  <2>1. \A found \in BOOLEAN : ObjectJson(found).state \in {"object", "not_exist"}
    BY DEF ObjectJson
  <2> QED BY <1>1, <1>4, <2>1, TellStep
<1> QED BY <1>2, <1>3, <1>4 DEF Ask, AskState

\* A yes of have_chunk is one.
LEMMA HaveTrue ==
    ASSUME NEW yes \in HaveChunk, item \in States
    PROVE  yes \in BOOLEAN /\ (yes => HeldIn(item))
BY DEF HaveChunk, Whole, HeldIn, States

LEMMA HaveStep ==
    ASSUME ProxyInv, NEW c \in Callers, call[c].stage \notin {"response", "done"}, AskHave(c)
    PROVE  ProxyInv'
<1>1. UNCHANGED <<item, blob, writes, removals>> /\ item \in States /\ call[c].op = "have"
  BY DEF AskHave, Quiet, chunkVars, ProxyInv
<1>2. CASE \E e \in BadRequest : Fail(c, e)
  BY <1>1, <1>2, FailStep DEF BadRequest, Errors
<1>3. CASE \E yes \in HaveChunk : Answer(c, IF yes THEN "true" ELSE "false")
  <2>1. PICK o \in {"true", "false"} : Answer(c, o) /\ (o = "true" => HeldIn(item))
    BY <1>1, <1>3, HaveTrue
  <2>2. CallOK(call[c], item, blob) /\ call[c] \in CallRec /\ call \in [Callers -> CallRec]
    BY OfCall
  <2>3. PICK r : r = [call[c] EXCEPT !.stage = "response", !.out = o]
    OBVIOUS
  <2>4. r \in CallRec
    BY <2>2, <2>3 DEF CallRec, Stages, Outs
  <2>5. /\ r.stage = "response" /\ r.out = o /\ r.err = "none" /\ r.said = "none"
        /\ r.op = "have" /\ r.via = call[c].via
    BY <1>1, <2>2, <2>3 DEF CallRec, CallOK, OpenOK
  <2>6. KindOK(r)
    BY <1>1, <2>2, <2>5 DEF CallOK, KindOK
  <2>7. ResponseOK(r, item, blob)
    BY <2>1, <2>5 DEF ResponseOK, ToldOK
  <2>8. CallOK(r, item, blob)
    BY <2>4, <2>5, <2>6, <2>7 DEF CallOK, OpenOK
  <2>9. call' = [call EXCEPT ![c] = r]
    BY <2>1, <2>2, <2>3 DEF Answer
  <2> QED BY <1>1, <2>8, <2>9, OneCall
<1> QED BY <1>2, <1>3 DEF AskHave

\* What the gateways do with a request that is not for a body.
LEMMA RpcStep ==
    ASSUME ProxyInv, NEW c \in Callers, HandleRpc(c) \/ HandleStoreRpc(c) \/ HandleStoreGc(c)
    PROVE  ProxyInv'
<1>1. call[c].stage = "request"
  BY DEF HandleRpc, HandleStoreRpc, HandleStoreGc
<1>2. CASE Ask(c) \/ AskState(c)
  BY <1>1, <1>2, AskStep
<1>3. CASE AskHave(c)
  BY <1>1, <1>3, HaveStep
<1>4. CASE RemoveCall(c)
  BY <1>1, <1>4, RemoveStep
<1>5. CASE SameAs(c)
  BY <1>1, <1>5, SameAsStep
<1>6. CASE Mark(c)
  BY <1>1, <1>6, MarkStep
<1>7. CASE ForcedGc(c)
  BY <1>1, <1>7, ForcedGcStep
<1>8. CASE Fail(c, "permission_denied") /\ Quiet
  BY <1>1, <1>8, FailStep DEF Quiet, chunkVars, Errors
<1> QED BY <1>2, <1>3, <1>4, <1>5, <1>6, <1>7, <1>8 DEF HandleRpc, HandleStoreRpc, HandleStoreGc

-----------------------------------------------------------------------------
(* Bodies.                                                                   *)

\* A chunk that cannot be opened.
LEMMA OpenFailsStep ==
    ASSUME ProxyInv, NEW c \in Callers, call[c].stage \notin {"response", "done"}, OpenFails(c), Quiet
    PROVE  ProxyInv'
<1>1. \E e \in {"not_found", "offset_too_large", "io"} : Fail(c, e)
  BY DEF OpenFails
<1> QED BY <1>1, FailStep DEF Quiet, chunkVars, Errors

\* A body starts at the offset asked for, with nothing sent.
LEMMA OpenStreamStep ==
    ASSUME ProxyInv, NEW c \in Callers, call[c].stage = "request", call[c].op = "read", OpenStream(c)
    PROVE  ProxyInv'
<1>1. CallOK(call[c], item, blob) /\ call[c] \in CallRec /\ call \in [Callers -> CallRec]
  BY OfCall
<1>2. CASE OpenFails(c)
  BY <1>2, OpenFailsStep DEF OpenStream
<1>3. CASE call[c].at <= ChunkSize /\ call' = [call EXCEPT ![c].stage = "stream", ![c].sent = call[c].at]
  <2> DEFINE r == [call[c] EXCEPT !.stage = "stream", !.sent = call[c].at]
  <2>1. r \in CallRec
    BY <1>1 DEF CallRec, Stages
  <2>2. /\ r.stage = "stream" /\ r.op = "read" /\ r.at = call[c].at /\ r.sent = call[c].at
        /\ r.got = <<>> /\ r.pipe = <<>> /\ r.err = "none" /\ r.said = "none" /\ r.out = "none"
    BY <1>1 DEF CallRec, CallOK, OpenOK
  <2> HIDE DEF r
  <2>3. StreamOK(r)
    BY <1>1, <1>3, <2>2, ProxyAssumption DEF StreamOK, Units, CallRec
  <2>4. CallOK(r, item, blob)
    BY <1>1, <2>1, <2>2, <2>3 DEF CallOK, OpenOK, KindOK
  <2>5. call' = [call EXCEPT ![c] = r]
    BY <1>1, <1>3 DEF r
  <2> QED BY <2>4, <2>5, OneCall DEF OpenStream, Quiet, chunkVars
<1> QED BY <1>2, <1>3 DEF OpenStream

\* A call with another body.
LEMMA OtherBody ==
    ASSUME NEW q, NEW i, NEW b, CallOK(q, i, b), q.stage = "stream",
           NEW s \in Nat, NEW p \in Seq(Seq(Nat)), NEW g \in Seq(Nat),
           NEW r, r = [q EXCEPT !.sent = s, !.pipe = p, !.got = g], StreamOK(r)
    PROVE  CallOK(r, i, b)
<1>1. q \in CallRec
  BY DEF CallOK
<1>2. r \in CallRec
  BY <1>1 DEF CallRec
<1>3. /\ r.stage = "stream" /\ r.op = q.op /\ r.err = q.err /\ r.said = q.said /\ r.out = q.out
      /\ r.via = q.via
  BY <1>1 DEF CallRec
<1> QED BY <1>1, <1>2, <1>3 DEF CallOK, OpenOK, KindOK

\* A stretch of the chunk as a sequence.
LEMMA UnitsSeq ==
    ASSUME NEW from \in Nat, NEW n \in Nat
    PROVE  Units(from, n) \in Seq(Nat) /\ Len(Units(from, n)) = n
BY DEF Units

\* A sequence is the function of its elements.
LEMMA SeqElements ==
    ASSUME NEW g \in Seq(Nat)
    PROVE  g = [i \in 1 .. Len(g) |-> g[i]]
OBVIOUS

\* A channel of at most one frame, with another frame.
LEMMA PipeAppend ==
    ASSUME NEW o \in Seq(Seq(Nat)), NEW fr \in Seq(Nat), NEW p, p = Append(o, fr)
    PROVE  /\ p \in Seq(Seq(Nat)) /\ Len(p) = Len(o) + 1
           /\ Len(o) < 1 => p[1] = fr
           /\ Len(o) >= 1 => p[1] = o[1]
           /\ Len(o) >= 1 /\ Len(o) < 2 => p[2] = fr
<1>1. p \in Seq(Seq(Nat)) /\ Len(p) = Len(o) + 1
  OBVIOUS
<1>2. ASSUME Len(o) < 1 PROVE p[1] = fr
  BY <1>2
<1>3. ASSUME Len(o) >= 1 PROVE p[1] = o[1]
  BY <1>3
<1>4. ASSUME Len(o) >= 1, Len(o) < 2 PROVE p[2] = fr
  BY <1>4
<1> QED BY <1>1, <1>2, <1>3, <1>4

\* The channel without its first frame.
LEMMA PipeTail ==
    ASSUME NEW o \in Seq(Seq(Nat)), o # <<>>, NEW p, p = Tail(o)
    PROVE  /\ p \in Seq(Seq(Nat)) /\ Len(p) = Len(o) - 1
           /\ Len(o) >= 2 => p[1] = o[2]
<1>1. p \in Seq(Seq(Nat)) /\ Len(p) = Len(o) - 1
  OBVIOUS
<1>2. ASSUME Len(o) >= 2 PROVE p[1] = o[2]
  BY <1>2
<1> QED BY <1>1, <1>2

\* A sequence that is a stretch of the chunk.
Stretch(at, g) == g \in Seq(Nat) /\ g = Units(at, Len(g))

\* Two adjacent stretches make one.
LEMMA UnitsJoin ==
    ASSUME NEW at \in Nat, NEW h, NEW f, NEW m, m = at + Len(h), Stretch(at, h), Stretch(m, f), NEW g, g = h \o f
    PROVE  Stretch(at, g)
<1> h \in Seq(Nat) /\ h = Units(at, Len(h)) /\ f \in Seq(Nat) /\ f = Units(m, Len(f))
  BY DEF Stretch
<1>1. g \in Seq(Nat) /\ Len(g) = Len(h) + Len(f)
  OBVIOUS
<1>2. ASSUME NEW i \in 1 .. Len(g) PROVE g[i] = at + i
  <2>1. CASE i <= Len(h)
    <3>1. g[i] = h[i] /\ i \in 1 .. Len(h)
      BY <1>1, <2>1
    <3> QED BY <3>1 DEF Units
  <2>2. CASE i > Len(h)
    <3>1. i \in Nat /\ i <= Len(h) + Len(f)
      BY <1>1
    <3>2. g[i] = f[i - Len(h)] /\ i - Len(h) \in 1 .. Len(f)
      BY <2>2, <3>1
    <3>3. f[i - Len(h)] = at + Len(h) + (i - Len(h))
      BY <3>2 DEF Units
    <3> QED BY <3>1, <3>2, <3>3
  <2>3. i \in Nat /\ Len(h) \in Nat
    BY <1>1
  <2> QED BY <2>1, <2>2, <2>3
<1>3. g = [i \in 1 .. Len(g) |-> g[i]]
  BY <1>1, SeqElements
<1> QED BY <1>1, <1>2, <1>3 DEF Units, Stretch

\* A frame continues where the last one ended.
LEMMA FrameStep ==
    ASSUME ProxyInv, NEW c \in Callers, Frame(c)
    PROVE  ProxyInv'
<1>1. CallOK(call[c], item, blob) /\ call[c] \in CallRec /\ call \in [Callers -> CallRec]
  BY OfCall
<1>2. PICK q \in CallRec : q = call[c]
  BY <1>1
<1>3. /\ StreamOK(q) /\ q.sent \in Nat /\ q.at \in Nat /\ q.got \in Seq(Nat) /\ q.pipe \in Seq(Seq(Nat))
      /\ q.stage = "stream" /\ Len(q.pipe) < 2 /\ q.sent < ChunkSize
  BY <1>1, <1>2 DEF CallOK, CallRec, Frame
<1>4. PICK n \in 1 .. (IF ChunkSize - call[c].sent < Buf THEN ChunkSize - call[c].sent ELSE Buf) :
         call' = [call EXCEPT ![c].sent = @ + n, ![c].pipe = Append(@, [i \in 1 .. n |-> call[c].sent + i])]
  BY DEF Frame
<1>5. n \in Nat /\ q.sent + n <= ChunkSize /\ q.sent + n \in Nat
  BY <1>2, <1>3, <1>4, ProxyAssumption
<1>6. PICK fr \in Seq(Nat) : fr = Units(q.sent, n) /\ Len(fr) = n
  BY <1>3, <1>5, UnitsSeq
<1>7. PICK o \in Seq(Seq(Nat)) : o = q.pipe
  BY <1>3
<1>8. PICK p \in Seq(Seq(Nat)) :
         /\ p = Append(o, fr) /\ Len(p) = Len(o) + 1
         /\ Len(o) < 1 => p[1] = fr
         /\ Len(o) >= 1 => p[1] = o[1]
         /\ Len(o) >= 1 /\ Len(o) < 2 => p[2] = fr
  BY PipeAppend
<1>9. PICK r : r = [q EXCEPT !.sent = q.sent + n, !.pipe = p, !.got = q.got]
  OBVIOUS
<1>10. r.sent = q.sent + n /\ r.pipe = p /\ r.got = q.got /\ r.op = q.op /\ r.at = q.at
  BY <1>9 DEF CallRec
<1>11. StreamOK(r)
  <2>1. PICK from \in Nat : from = q.at + Len(q.got)
    BY <1>3
  <2>2. /\ q.op = "read" /\ q.at <= q.sent /\ q.sent <= ChunkSize /\ q.got = Units(q.at, Len(q.got))
        /\ Len(o) < 1 => q.sent = from
        /\ Len(o) >= 1 => o[1] = Units(from, Len(o[1])) /\ q.sent = from + Len(o[1])
    BY <1>3, <1>7, <2>1 DEF StreamOK
  <2>3. Len(o) \in Nat /\ Len(o) < 2 /\ Len(p) \in Nat /\ Len(p) <= 2 /\ Len(p) >= 1
    BY <1>3, <1>7, <1>8
  <2>4. r.op = "read" /\ r.at <= r.sent /\ r.sent <= ChunkSize /\ r.got = Units(r.at, Len(r.got))
    BY <1>3, <1>5, <1>10, <2>2
  <2>5. CASE Len(o) < 1
    <3>1. Len(p) < 2 /\ p[1] = fr
      BY <1>8, <2>3, <2>5
    <3>2. fr = Units(from, Len(fr)) /\ q.sent + n = from + Len(fr)
      BY <1>5, <1>6, <2>2, <2>5
    <3> QED BY <1>10, <2>1, <2>3, <2>4, <3>1, <3>2 DEF StreamOK
  <2>6. CASE Len(o) >= 1
    <3>1. PICK x \in Seq(Nat) : x = o[1]
      BY <2>3, <2>6
    <3>2. Len(p) >= 2 /\ p[1] = x /\ p[2] = fr
      BY <1>8, <2>3, <2>6, <3>1
    <3>3. /\ x = Units(from, Len(x)) /\ fr = Units(from + Len(x), Len(fr))
          /\ q.sent + n = from + Len(x) + Len(fr)
      BY <1>5, <1>6, <2>2, <2>6, <3>1
    <3> QED BY <1>10, <2>1, <2>3, <2>4, <3>2, <3>3 DEF StreamOK
  <2> QED BY <2>3, <2>5, <2>6
<1>12. CallOK(r, item, blob)
  BY <1>1, <1>2, <1>3, <1>5, <1>9, <1>11, OtherBody
<1>13. call' = [call EXCEPT ![c] = r]
  <2>1. r = [q EXCEPT !.sent = q.sent + n, !.pipe = p]
    BY <1>9 DEF CallRec
  <2>2. [i \in 1 .. n |-> call[c].sent + i] = fr
    BY <1>2, <1>6 DEF Units
  <2> QED BY <1>1, <1>2, <1>4, <1>7, <1>8, <2>1, <2>2
<1> QED BY <1>12, <1>13, OneCall DEF Frame, Quiet, chunkVars

\* What the client takes from the channel continues what it has.
LEMMA ReceiveStep ==
    ASSUME ProxyInv, NEW c \in Callers, Receive(c)
    PROVE  ProxyInv'
<1>1. CallOK(call[c], item, blob) /\ call[c] \in CallRec /\ call \in [Callers -> CallRec]
  BY OfCall
<1>2. PICK q \in CallRec : q = call[c]
  BY <1>1
<1>3. /\ StreamOK(q) /\ q.sent \in Nat /\ q.at \in Nat /\ q.got \in Seq(Nat) /\ q.pipe \in Seq(Seq(Nat))
      /\ q.stage = "stream" /\ q.pipe # <<>>
  BY <1>1, <1>2 DEF CallOK, CallRec, Receive
<1>4. PICK o \in Seq(Seq(Nat)) : o = q.pipe /\ o # <<>>
  BY <1>3
<1>5. Len(o) \in Nat /\ Len(o) >= 1 /\ Len(o) <= 2
  BY <1>3, <1>4 DEF StreamOK
<1>6. PICK f \in Seq(Nat) : f = o[1] /\ f = Head(o)
  BY <1>4, <1>5
<1>7. PICK p \in Seq(Seq(Nat)) : p = Tail(o) /\ Len(p) = Len(o) - 1 /\ (Len(o) >= 2 => p[1] = o[2])
  BY <1>4, PipeTail
<1>8. PICK h \in Seq(Nat) : h = q.got
  BY <1>3
<1>9. h = Units(q.at, Len(h)) /\ f = Units(q.at + Len(h), Len(f))
  BY <1>3, <1>4, <1>5, <1>6, <1>8 DEF StreamOK
<1>10. PICK g \in Seq(Nat) : g = h \o f /\ Len(g) = Len(h) + Len(f) /\ g = Units(q.at, Len(g))
  <2>1. PICK g : g = h \o f
    OBVIOUS
  <2>2. PICK at \in Nat : at = q.at
    BY <1>3
  <2>3. PICK m : m = at + Len(h)
    OBVIOUS
  <2>4. Stretch(at, h) /\ Stretch(m, f)
    BY <1>9, <2>2, <2>3 DEF Stretch
  <2>5. Stretch(at, g)
    BY <2>1, <2>3, <2>4, UnitsJoin
  <2>6. Len(g) = Len(h) + Len(f)
    BY <2>1
  <2> QED BY <2>1, <2>2, <2>5, <2>6 DEF Stretch
<1>11. PICK r : r = [q EXCEPT !.sent = q.sent, !.pipe = p, !.got = g]
  OBVIOUS
<1>12. r.sent = q.sent /\ r.pipe = p /\ r.got = g /\ r.op = q.op /\ r.at = q.at
  BY <1>11 DEF CallRec
<1>13. StreamOK(r)
  <2>1. PICK from \in Nat : from = q.at + Len(h)
    BY <1>3
  <2>2. PICK to \in Nat : to = q.at + Len(g) /\ to = from + Len(f)
    <3>1. PICK at \in Nat : at = q.at
      BY <1>3
    <3>2. Len(g) = Len(h) + Len(f) /\ Len(h) \in Nat /\ Len(f) \in Nat
      BY <1>10
    <3>3. from = at + Len(h)
      BY <2>1, <3>1
    <3>4. at + Len(g) = from + Len(f) /\ at + Len(g) \in Nat
      BY <3>2, <3>3
    <3> QED BY <3>1, <3>4
  <2>3. /\ q.op = "read" /\ q.at <= q.sent /\ q.sent <= ChunkSize
        /\ Len(o) < 2 => q.sent = from + Len(o[1])
        /\ Len(o) >= 2 => /\ o[2] = Units(from + Len(o[1]), Len(o[2]))
                          /\ q.sent = from + Len(o[1]) + Len(o[2])
    BY <1>3, <1>4, <1>5, <1>8, <2>1 DEF StreamOK
  <2>4. r.op = "read" /\ r.at <= r.sent /\ r.sent <= ChunkSize /\ r.got = Units(r.at, Len(r.got))
    BY <1>10, <1>12, <2>3
  <2>5. CASE Len(o) < 2
    <3>1. Len(p) < 1 /\ Len(p) \in Nat /\ q.sent = to
      BY <1>5, <1>6, <1>7, <2>2, <2>3, <2>5
    <3> QED BY <1>12, <2>2, <2>4, <3>1 DEF StreamOK
  <2>6. CASE Len(o) >= 2
    <3>1. PICK x \in Seq(Nat) : x = o[2]
      BY <1>5, <2>6
    <3>2. Len(p) < 2 /\ Len(p) >= 1 /\ Len(p) \in Nat /\ p[1] = x
      BY <1>5, <1>7, <2>6, <3>1
    <3>3. x = Units(to, Len(x)) /\ q.sent = to + Len(x)
      BY <1>6, <2>2, <2>3, <2>6, <3>1
    <3> QED BY <1>12, <2>2, <2>4, <3>2, <3>3 DEF StreamOK
  <2> QED BY <1>5, <2>5, <2>6
<1>14. CallOK(r, item, blob)
  BY <1>1, <1>2, <1>3, <1>11, <1>13, OtherBody
<1>15. call' = [call EXCEPT ![c] = r]
  <2>1. r = [q EXCEPT !.got = g, !.pipe = p]
    BY <1>11 DEF CallRec
  <2> QED BY <1>1, <1>2, <1>4, <1>6, <1>7, <1>8, <1>10, <2>1 DEF Receive
<1> QED BY <1>14, <1>15, OneCall DEF Receive, Quiet, chunkVars

\* A reader that returns no more, a chunk cut short: neither changes the body.
LEMMA BodyTroubleStep ==
    ASSUME ProxyInv, NEW c \in Callers, ReadZero(c) \/ Truncate(c)
    PROVE  ProxyInv'
<1>1. CallOK(call[c], item, blob) /\ call[c] \in CallRec /\ call \in [Callers -> CallRec]
  BY OfCall
<1>2. call[c].stage = "stream"
  BY DEF ReadZero, Truncate
<1>3. PICK r \in CallRec :
         /\ r.op = call[c].op /\ r.via = call[c].via /\ r.at = call[c].at /\ r.stage \in {"stream", "broken"}
         /\ r.err = call[c].err /\ r.out = call[c].out /\ r.said = call[c].said /\ r.sent = call[c].sent
         /\ r.pipe = call[c].pipe /\ r.got = call[c].got /\ call' = [call EXCEPT ![c] = r]
  <2>1. CASE ReadZero(c)
    <3>1. [call[c] EXCEPT !.stage = "broken"] \in CallRec
      BY <1>1 DEF CallRec, Stages
    <3> QED BY <1>1, <2>1, <3>1 DEF ReadZero, EndOfFile, CallRec
  <2>2. CASE Truncate(c)
    <3>1. [call[c] EXCEPT !.cut = TRUE] \in CallRec
      BY <1>1 DEF CallRec
    <3>2. call' = [call EXCEPT ![c] = [call[c] EXCEPT !.cut = TRUE]]
      BY <1>1, <2>2 DEF Truncate
    <3> QED BY <1>1, <1>2, <3>1, <3>2 DEF CallRec
  <2> QED BY <2>1, <2>2
<1>4. StreamOK(r)
  BY <1>1, <1>2, <1>3 DEF CallOK, StreamOK
<1>5. CallOK(r, item, blob)
  BY <1>1, <1>2, <1>3, <1>4 DEF CallOK, OpenOK, KindOK
<1> QED BY <1>3, <1>5, OneCall DEF ReadZero, Truncate, Quiet, chunkVars

\* A body that ends at its content-length is the chunk from the offset.
LEMMA EndOfBodyStep ==
    ASSUME ProxyInv, NEW c \in Callers, EndOfBody(c)
    PROVE  ProxyInv'
<1>1. CallOK(call[c], item, blob) /\ call[c] \in CallRec /\ call \in [Callers -> CallRec]
  BY OfCall
<1>2. PICK r : r = [call[c] EXCEPT !.stage = "done", !.out = "read"]
  OBVIOUS
<1>3. r \in CallRec
  BY <1>1, <1>2 DEF CallRec, Stages, Outs
<1>4. /\ r.stage = "done" /\ r.out = "read" /\ r.err = "none" /\ r.said = "none" /\ r.op = "read"
      /\ r.via = call[c].via /\ r.at = call[c].at /\ r.got = call[c].got
  BY <1>1, <1>2 DEF CallRec, CallOK, OpenOK, StreamOK, EndOfBody
<1>5. r.got = Units(r.at, ChunkSize - r.at)
  BY <1>1, <1>4 DEF CallOK, StreamOK, EndOfBody
<1>6. CallOK(r, item, blob)
  BY <1>3, <1>4, <1>5 DEF CallOK, OpenOK, KindOK, DoneOK, ToldOK, Named
<1>7. call' = [call EXCEPT ![c] = r]
  BY <1>1, <1>2 DEF EndOfBody
<1> QED BY <1>6, <1>7, OneCall DEF EndOfBody, Quiet, chunkVars

\* A connection that breaks, at the end of a body or before: the call is over
\* and promises nothing.
LEMMA BreakStep ==
    ASSUME ProxyInv, NEW c \in Callers, BrokenBody(c) \/ Disconnect(c)
    PROVE  ProxyInv'
<1>1. CallOK(call[c], item, blob) /\ call[c] \in CallRec /\ call \in [Callers -> CallRec]
  BY OfCall
<1>2. <<>> \in Seq(Seq(Nat))
  OBVIOUS
<1>3. CASE BrokenBody(c)
  <2>1. PICK r : r = [call[c] EXCEPT !.stage = "done", !.out = "error", !.err = "io", !.pipe = <<>>]
    OBVIOUS
  <2>2. r \in CallRec
    BY <1>1, <1>2, <2>1 DEF CallRec, Stages, Outs, Errors
  <2>3. /\ r.stage = "done" /\ r.out = "error" /\ r.err = "io" /\ r.said = "none" /\ r.op = "read"
        /\ r.via = call[c].via
    BY <1>1, <1>3, <2>1 DEF CallRec, CallOK, OpenOK, StreamOK, BrokenBody
  <2>4. CallOK(r, item, blob)
    BY <2>2, <2>3 DEF CallOK, OpenOK, KindOK, DoneOK, ToldOK, Named
  <2>5. call' = [call EXCEPT ![c] = r]
    BY <1>1, <1>3, <2>1 DEF BrokenBody
  <2> QED BY <1>3, <2>4, <2>5, OneCall DEF BrokenBody, Quiet, chunkVars
<1>4. CASE Disconnect(c)
  <2>1. PICK o \in {"remote", "false"} :
          /\ o = "false" => call[c].op = "have"
          /\ call' = [call EXCEPT ![c].stage = "done", ![c].err = "none", ![c].pipe = <<>>, ![c].out = o]
    BY <1>4 DEF Disconnect, HaveSeen
  <2>2. PICK r : r = [call[c] EXCEPT !.stage = "done", !.err = "none", !.pipe = <<>>, !.out = o]
    OBVIOUS
  <2>3. r \in CallRec
    BY <1>1, <1>2, <2>2 DEF CallRec, Stages, Outs, Errors
  <2>4. /\ r.stage = "done" /\ r.out = o /\ r.err = "none" /\ r.said = call[c].said /\ r.op = call[c].op
        /\ r.via = call[c].via
    BY <1>1, <2>2 DEF CallRec
  <2>5. KindOK(r) /\ (r.op = "have" => r.said = "none")
    BY <1>1, <2>4 DEF CallOK, KindOK
  <2>6. CallOK(r, item, blob)
    BY <2>1, <2>3, <2>4, <2>5 DEF CallOK, OpenOK, DoneOK, ToldOK, Named
  <2>7. call' = [call EXCEPT ![c] = r]
    BY <1>1, <2>1, <2>2
  <2> QED BY <1>4, <2>6, <2>7, OneCall DEF Disconnect, chunkVars
<1> QED BY <1>3, <1>4

\* A piece is read where and as long as it was asked for.
LEMMA PieceStep ==
    ASSUME ProxyInv, NEW c \in Callers, HandlePiece(c)
    PROVE  ProxyInv'
<1>1. CallOK(call[c], item, blob) /\ call[c] \in CallRec /\ call \in [Callers -> CallRec]
  BY OfCall
<1>2. call[c].stage \in {"request", "piece"} /\ call[c].op = "piece"
  BY DEF HandlePiece
<1>3. CASE Fail(c, "not_found") \/ OpenFails(c)
  BY <1>2, <1>3, FailStep, OpenFailsStep DEF HandlePiece, Quiet, chunkVars, Errors
<1>4. CASE call' = [call EXCEPT ![c].stage = "piece"]
  <2>1. PICK r : r = [call[c] EXCEPT !.stage = "piece"]
    OBVIOUS
  <2>2. r \in CallRec
    BY <1>1, <2>1 DEF CallRec, Stages
  <2>3. /\ r.stage = "piece" /\ r.out = "none" /\ r.err = "none" /\ r.said = "none" /\ r.op = "piece"
        /\ r.via = call[c].via
    BY <1>1, <1>2, <2>1 DEF CallRec, CallOK, OpenOK
  <2>4. CallOK(r, item, blob)
    BY <1>1, <1>2, <2>2, <2>3 DEF CallOK, OpenOK, KindOK
  <2>5. call' = [call EXCEPT ![c] = r]
    BY <1>1, <1>4, <2>1
  <2> QED BY <2>4, <2>5, OneCall DEF HandlePiece, Quiet, chunkVars
<1>5. CASE call' = [call EXCEPT ![c].stage = "response", ![c].out = "piece",
                                ![c].got = [i \in 1 .. call[c].len |-> call[c].at + i]]
  <2>1. PICK g \in Seq(Nat) : g = Units(call[c].at, call[c].len)
    BY <1>1, UnitsSeq DEF CallRec
  <2>2. PICK r : r = [call[c] EXCEPT !.stage = "response", !.out = "piece", !.got = g]
    OBVIOUS
  <2>3. r \in CallRec
    BY <1>1, <2>2 DEF CallRec, Stages, Outs
  <2>4. /\ r.stage = "response" /\ r.out = "piece" /\ r.err = "none" /\ r.said = "none" /\ r.op = "piece"
        /\ r.via = call[c].via /\ r.at = call[c].at /\ r.len = call[c].len /\ r.got = g
    BY <1>1, <1>2, <2>2 DEF CallRec, CallOK, OpenOK
  <2>5. CallOK(r, item, blob)
    BY <1>1, <1>2, <2>1, <2>3, <2>4 DEF CallOK, OpenOK, KindOK, ResponseOK, ToldOK
  <2>6. [i \in 1 .. call[c].len |-> call[c].at + i] = g
    BY <2>1 DEF Units
  <2>7. call' = [call EXCEPT ![c] = r]
    BY <1>1, <1>5, <2>2, <2>6
  <2> QED BY <2>5, <2>7, OneCall DEF HandlePiece, Quiet, chunkVars
<1> QED BY <1>3, <1>4, <1>5 DEF HandlePiece

-----------------------------------------------------------------------------
(* Writes, HEAD and the answers as the clients read them.                    *)

\* What a caller was told of a chunk stays true when it is stored.
LEMMA StoredHelps ==
    ASSUME NEW q, NEW i, NEW b, NEW j, NEW d, CallOK(q, i, b), HeldIn(i) => HeldIn(j), b => d
    PROVE  CallOK(q, j, d)
<1>1. ToldOK(q, i, b) => ToldOK(q, j, d)
  BY DEF ToldOK
<1>2. ResponseOK(q, i, b) => ResponseOK(q, j, d)
  BY <1>1 DEF ResponseOK
<1>3. DoneOK(q, i, b) => DoneOK(q, j, d)
  BY <1>1 DEF DoneOK
<1> QED BY <1>2, <1>3 DEF CallOK

\* An answer to a write.
LEMMA WriteAnswer ==
    ASSUME NEW q, NEW i, NEW b, NEW j, NEW d, CallOK(q, i, b), q.stage \notin {"response", "done"},
           q.op = "write", NEW o \in {"written", "already_exists"}, HeldIn(j) \/ d, o = "written" => HeldIn(j) /\ d
    PROVE  CallOK([q EXCEPT !.stage = "response", !.out = o], j, d)
<1> DEFINE r == [q EXCEPT !.stage = "response", !.out = o]
<1>1. q \in CallRec
  BY DEF CallOK
<1>2. r \in CallRec
  BY <1>1 DEF CallRec, Stages, Outs, Named
<1>3. /\ r.stage = "response" /\ r.out = o /\ r.err = "none" /\ r.said = "none"
      /\ r.op = q.op /\ r.via = q.via
  BY <1>1 DEF CallRec, CallOK, OpenOK
<1> HIDE DEF r
<1>4. KindOK(r)
  BY <1>3 DEF CallOK, KindOK
<1>5. ResponseOK(r, j, d)
  BY <1>3 DEF ResponseOK, ToldOK
<1>6. CallOK(r, j, d)
  BY <1>2, <1>3, <1>4, <1>5 DEF CallOK, OpenOK
<1> QED BY <1>6 DEF r

\* A chunk the gateway knows is answered for; another one is waited for.
LEMMA UnlessKnownStep ==
    ASSUME ProxyInv, NEW c \in Callers, call[c].stage = "request", call[c].op = "write", UnlessKnown(c)
    PROVE  ProxyInv'
<1>1. CallOK(call[c], item, blob) /\ call[c] \in CallRec /\ call \in [Callers -> CallRec]
  BY OfCall
<1>2. CASE HeldIn(item) /\ Answer(c, "already_exists")
  <2>1. CallOK([call[c] EXCEPT !.stage = "response", !.out = "already_exists"], item, blob)
    BY <1>1, <1>2, WriteAnswer
  <2>2. call' = [call EXCEPT ![c] = [call[c] EXCEPT !.stage = "response", !.out = "already_exists"]]
    BY <1>1, <1>2 DEF Answer
  <2> QED BY <2>1, <2>2, OneCall DEF UnlessKnown, Quiet, chunkVars
<1>3. CASE call' = [call EXCEPT ![c].stage = "body"]
  <2>1. PICK r : r = [call[c] EXCEPT !.stage = "body"]
    OBVIOUS
  <2>2. r \in CallRec
    BY <1>1, <2>1 DEF CallRec, Stages
  <2>3. /\ r.stage = "body" /\ r.out = "none" /\ r.err = "none" /\ r.said = "none" /\ r.op = "write"
        /\ r.via = call[c].via
    BY <1>1, <2>1 DEF CallRec, CallOK, OpenOK
  <2>4. CallOK(r, item, blob)
    BY <1>1, <2>2, <2>3 DEF CallOK, OpenOK, KindOK
  <2>5. call' = [call EXCEPT ![c] = r]
    BY <1>1, <1>3, <2>1
  <2> QED BY <2>4, <2>5, OneCall DEF UnlessKnown, Quiet, chunkVars
<1>4. (HeldIn(item) /\ Answer(c, "already_exists")) \/ call' = [call EXCEPT ![c].stage = "body"]
  <2>1. PICK yes \in HaveChunk :
           IF yes THEN Answer(c, "already_exists") ELSE call' = [call EXCEPT ![c].stage = "body"]
    BY DEF UnlessKnown
  <2>2. yes \in BOOLEAN /\ (yes => HeldIn(item))
    BY OfCall, HaveTrue
  <2> QED BY <2>1, <2>2
<1> QED BY <1>2, <1>3, <1>4

\* What put_chunk_by_reader does to the chunk helps everyone.
LEMMA PutHelps ==
    ASSUME item \in States, blob \in BOOLEAN, Put \/ PutNoRow
    PROVE  item' \in States /\ blob' = TRUE /\ (HeldIn(item) => HeldIn(item'))
BY DEF Put, PutNoRow, HeldIn, States

\* A body that is stored is written by one caller and there for all.
LEMMA BodyStep ==
    ASSUME ProxyInv, NEW c \in Callers, HandleBody(c)
    PROVE  ProxyInv'
<1>1. /\ CallOK(call[c], item, blob) /\ call[c] \in CallRec /\ call \in [Callers -> CallRec]
      /\ item \in States /\ blob \in BOOLEAN
  BY OfCall
<1>2. call[c].stage = "body" /\ call[c].op = "write"
  BY <1>1 DEF HandleBody, CallOK
<1>3. CASE (\E e \in {"verify_error", "io", "not_found"} : Fail(c, e)) /\ Quiet
  BY <1>2, <1>3, FailStep DEF Quiet, chunkVars, Errors
<1>4. ASSUME NEW r, CallOK(r, item', blob'), call' = [call EXCEPT ![c] = r], Put \/ PutNoRow,
             writes' \in Nat, removals' = removals, WritesOK'
      PROVE  ProxyInv'
  <2>1. item' \in States /\ blob' = TRUE /\ (HeldIn(item) => HeldIn(item'))
    BY <1>1, <1>4, PutHelps
  <2>2. ASSUME NEW d \in Callers PROVE CallOK(call'[d], item', blob')
    <3>1. CASE d = c
      BY <1>1, <1>4, <3>1
    <3>2. CASE d # c
      <4>1. call'[d] = call[d]
        BY <1>1, <1>4, <3>2
      <4> QED BY <2>1, <4>1, OfCall, StoredHelps
    <3> QED BY <3>1, <3>2
  <2>3. call' \in [Callers -> CallRec]
    BY <1>1, <1>4 DEF CallOK
  <2>4. removals' \in Nat
    BY <1>4 DEF ProxyInv
  <2> QED BY <1>4, <2>1, <2>2, <2>3, <2>4 DEF ProxyInv
<1>5. CASE Fail(c, "io") /\ PutNoRow /\ UNCHANGED <<writes, removals>>
  <2>1. CallOK(Denied(c, "io"), item', blob')
    BY <1>1, <1>2, DeniedOK DEF Errors
  <2>2. call' = [call EXCEPT ![c] = Denied(c, "io")]
    BY <1>1, <1>5 DEF Fail, Denied
  <2>3. writes' \in Nat /\ WritesOK'
    BY <1>5 DEF ProxyInv, WritesOK, PutNoRow
  <2> QED BY <1>4, <1>5, <2>1, <2>2, <2>3
<1>6. CASE /\ Answer(c, WriteOutcome(blob)) /\ Put
           /\ writes' = IF WriteOutcome(blob) = "written" THEN writes + 1 ELSE writes
           /\ removals' = removals
  <2>1. WriteOutcome(blob) \in {"written", "already_exists"} /\ (WriteOutcome(blob) = "written" <=> ~blob)
    BY <1>1 DEF WriteOutcome
  <2>2. blob' = TRUE /\ (~blob => HeldIn(item'))
    BY <1>6 DEF Put, HeldIn
  <2>3. writes' \in Nat /\ WritesOK'
    BY <1>1, <1>6, <2>1, <2>2 DEF ProxyInv, WritesOK
  <2>4. CallOK([call[c] EXCEPT !.stage = "response", !.out = WriteOutcome(blob)], item', blob')
    BY <1>1, <1>2, <2>1, <2>2, WriteAnswer
  <2>5. call' = [call EXCEPT ![c] = [call[c] EXCEPT !.stage = "response", !.out = WriteOutcome(blob)]]
    BY <1>1, <1>6 DEF Answer
  <2> QED BY <1>4, <1>6, <2>3, <2>4, <2>5
<1> QED BY <1>3, <1>5, <1>6 DEF HandleBody

\* So is the body of a client that is gone.
LEMMA LateStep ==
    ASSUME ProxyInv, LateBody
    PROVE  ProxyInv'
<1>1. item \in States /\ blob \in BOOLEAN /\ call' = call /\ removals' = removals
  BY DEF ProxyInv, LateBody
<1>2. CASE UNCHANGED <<chunkVars, writes>>
  BY <1>1, <1>2 DEF ProxyInv, WritesOK, chunkVars
<1>3. CASE \/ Put /\ writes' = IF WriteOutcome(blob) = "written" THEN writes + 1 ELSE writes
           \/ PutNoRow /\ writes' = writes
  <2>1. item' \in States /\ blob' = TRUE /\ (HeldIn(item) => HeldIn(item'))
    BY <1>1, <1>3, PutHelps
  <2>2. WriteOutcome(blob) = "written" <=> ~blob
    BY <1>1 DEF WriteOutcome
  <2>3. writes' = writes \/ (writes' = writes + 1 /\ ~blob)
    BY <1>3, <2>2
  <2>4. writes' \in Nat /\ removals' \in Nat /\ WritesOK'
    BY <1>1, <2>1, <2>3 DEF ProxyInv, WritesOK
  <2>5. \A d \in Callers : CallOK(call[d], item', blob')
    BY <2>1, OfCall, StoredHelps
  <2> QED BY <1>1, <2>1, <2>4, <2>5 DEF ProxyInv
<1> QED BY <1>2, <1>3 DEF LateBody

\* The two looks of HEAD: the size is the chunk's unless it was removed between.
LEMMA HeadStep ==
    ASSUME ProxyInv, NEW c \in Callers, HandleHeadChunk(c)
    PROVE  ProxyInv'
<1>1. CallOK(call[c], item, blob) /\ call[c] \in CallRec /\ call \in [Callers -> CallRec] /\ item \in States
  BY OfCall
<1>2. call[c].stage \in {"request", "head"} /\ call[c].op = "head" /\ call[c].via = "store"
  BY <1>1 DEF HandleHeadChunk, AtStore, CallOK, KindOK
<1>3. CASE Answer(c, "not_exist")
  BY <1>2, <1>3, AnswerStep DEF HandleHeadChunk, Quiet, chunkVars, Outs, States
<1>4. CASE HeldIn(item) /\ call' = [call EXCEPT ![c].stage = "head"]
  <2>1. PICK r : r = [call[c] EXCEPT !.stage = "head"]
    OBVIOUS
  <2>2. r \in CallRec
    BY <1>1, <2>1 DEF CallRec, Stages
  <2>3. /\ r.stage = "head" /\ r.out = "none" /\ r.err = "none" /\ r.said = "none" /\ r.op = "head"
        /\ r.via = "store"
    BY <1>1, <1>2, <2>1 DEF CallRec, CallOK, OpenOK
  <2>4. CallOK(r, item, blob)
    BY <1>4, <2>2, <2>3 DEF CallOK, OpenOK, KindOK
  <2>5. call' = [call EXCEPT ![c] = r]
    BY <1>1, <1>4, <2>1
  <2> QED BY <2>4, <2>5, OneCall DEF HandleHeadChunk, Quiet, chunkVars
<1>5. ASSUME NEW n \in Nat, NEW g \in BOOLEAN, call[c].stage = "head", ~g => ~call[c].gap /\ (HeldIn(item) => n = ChunkSize),
             NEW r, r = [call[c] EXCEPT !.stage = "response", !.out = "completed", !.len = n, !.gap = g],
             call' = [call EXCEPT ![c] = r]
      PROVE  ProxyInv'
  <2>1. r \in CallRec
    BY <1>1, <1>5 DEF CallRec, Stages, Outs, States
  <2>2. /\ r.stage = "response" /\ r.out = "completed" /\ r.err = "none" /\ r.said = "none" /\ r.op = "head"
        /\ r.via = "store" /\ r.len = n /\ r.gap = g
    BY <1>1, <1>2, <1>5 DEF CallRec, CallOK, OpenOK
  <2>3. ~g => HeldIn(item) /\ n = ChunkSize
    BY <1>1, <1>5 DEF CallOK
  <2>4. ResponseOK(r, item, blob)
    BY <2>2, <2>3 DEF ResponseOK, ToldOK
  <2>5. CallOK(r, item, blob)
    BY <2>1, <2>2, <2>4 DEF CallOK, OpenOK, KindOK
  <2> QED BY <1>5, <2>5, OneCall DEF HandleHeadChunk, Quiet, chunkVars
<1>6. CASE /\ call[c].stage = "head"
           /\ call' = [call EXCEPT ![c].stage = "response", ![c].out = "completed",
                                   ![c].len = IF item # "not_exist" THEN ChunkSize ELSE 0]
  <2>1. PICK n \in Nat : n = (IF item # "not_exist" THEN ChunkSize ELSE 0) /\ (HeldIn(item) => n = ChunkSize)
    BY ProxyAssumption DEF HeldIn
  <2>2. PICK g \in BOOLEAN : g = call[c].gap
    BY <1>1 DEF CallRec
  <2>3. call' = [call EXCEPT ![c] = [call[c] EXCEPT !.stage = "response", !.out = "completed", !.len = n, !.gap = g]]
    BY <1>1, <1>6, <2>1, <2>2 DEF CallRec
  <2> QED BY <1>5, <1>6, <2>1, <2>2, <2>3
<1>7. CASE /\ call[c].stage = "head"
           /\ call' = [call EXCEPT ![c].stage = "response", ![c].out = "completed", ![c].len = 0, ![c].gap = TRUE]
  <2>1. call' = [call EXCEPT ![c] = [call[c] EXCEPT !.stage = "response", !.out = "completed", !.len = 0, !.gap = TRUE]]
    BY <1>1, <1>7
  <2> QED BY <1>5, <1>7, <2>1
<1>8. CASE AtStore(c, "head") /\ \E yes \in HaveChunk :
              IF yes THEN call' = [call EXCEPT ![c].stage = "head"] ELSE Answer(c, "not_exist")
  <2>1. PICK yes \in HaveChunk :
           IF yes THEN call' = [call EXCEPT ![c].stage = "head"] ELSE Answer(c, "not_exist")
    BY <1>8
  <2>2. yes \in BOOLEAN /\ (yes => HeldIn(item))
    BY <1>1, HaveTrue
  <2> QED BY <1>3, <1>4, <2>1, <2>2
<1> QED BY <1>6, <1>7, <1>8 DEF HandleHeadChunk

\* A client that reads its answer as o, where o is the answer, or a no of
\* have_chunk, or the state told, or names the error.
LEMMA ReadAnswer ==
    ASSUME ProxyInv, NEW c \in Callers, call[c].stage = "response", NEW o \in Outs, Quiet,
           call' = [call EXCEPT ![c].stage = "done", ![c].out = o],
           \/ call[c].err = "none" /\ call[c].said = "none" /\ o \in {call[c].out, "done"}
           \/ call[c].said # "none" /\ o = call[c].said
           \/ call[c].op = "have" /\ o = "false" /\ call[c].via = "node"
           \/ /\ call[c].err # "none"
              /\ o \notin {"read", "piece", "written", "already_exists", "completed", "true"}
              /\ call[c].via = "node" /\ call[c].err \in Named => o = call[c].err
              /\ (call[c].via = "store" /\ call[c].op \in {"read", "write", "restricted", "same_as"}
                    /\ call[c].err \in Named \ {"unsupported"} => o = call[c].err)
    PROVE  ProxyInv'
<1>1. CallOK(call[c], item, blob) /\ call[c] \in CallRec /\ call \in [Callers -> CallRec]
  BY OfCall
<1>2. PICK q \in CallRec : q = call[c]
  BY <1>1
<1>3. ResponseOK(q, item, blob) /\ KindOK(q) /\ q.err \in Errors
  BY <1>1, <1>2 DEF CallOK, CallRec
<1>4. PICK r : r = [q EXCEPT !.stage = "done", !.out = o]
  OBVIOUS
<1>5. r \in CallRec
  BY <1>2, <1>4 DEF CallRec, Stages
<1>6. /\ r.stage = "done" /\ r.out = o /\ r.err = q.err /\ r.said = q.said /\ r.op = q.op
      /\ r.via = q.via /\ r.at = q.at /\ r.len = q.len /\ r.got = q.got /\ r.gap = q.gap
  BY <1>2, <1>4 DEF CallRec
<1>7. DoneOK(r, item, blob)
  <2>1. CASE q.err = "none" /\ q.said = "none" /\ o \in {q.out, "done"}
    BY <1>3, <1>6, <2>1 DEF ResponseOK, DoneOK, ToldOK, Named
  <2>2. CASE q.said # "none" /\ o = q.said
    <3>1. q.err = "none" /\ q.op \in {"ask", "state"} /\ o \in States \cup {"object"}
      BY <1>3, <2>2 DEF KindOK, States
    <3> QED BY <1>6, <2>2, <3>1 DEF DoneOK, ToldOK, Named, States
  <2>3. CASE q.op = "have" /\ o = "false" /\ q.via = "node"
    <3>1. q.said = "none"
      BY <1>3, <2>3 DEF KindOK
    <3> QED BY <1>6, <2>3, <3>1 DEF DoneOK, ToldOK
  <2>4. CASE /\ q.err # "none"
             /\ o \notin {"read", "piece", "written", "already_exists", "completed", "true"}
             /\ q.via = "node" /\ q.err \in Named => o = q.err
             /\ (q.via = "store" /\ q.op \in {"read", "write", "restricted", "same_as"}
                   /\ q.err \in Named \ {"unsupported"} => o = q.err)
    <3>1. q.said = "none"
      BY <1>3, <2>4 DEF KindOK
    <3> QED BY <1>6, <2>4, <3>1 DEF DoneOK, ToldOK
  <2> QED BY <1>2, <2>1, <2>2, <2>3, <2>4
<1>8. CallOK(r, item, blob)
  BY <1>3, <1>5, <1>6, <1>7 DEF CallOK, OpenOK, KindOK
<1>9. call' = [call EXCEPT ![c] = r]
  BY <1>1, <1>2, <1>4
<1> QED BY <1>8, <1>9, OneCall DEF Quiet, chunkVars

\* A client of the node or the zone gateway has its answer.
LEMMA ReturnStep ==
    ASSUME ProxyInv, NEW c \in Callers, CallReturns(c)
    PROVE  ProxyInv'
<1>1. CallOK(call[c], item, blob) /\ call[c] \in CallRec /\ call \in [Callers -> CallRec]
  BY OfCall
<1>2. PICK q \in CallRec : q = call[c]
  BY <1>1
<1>3. q.stage = "response" /\ q.via \in {"node", "zone"} /\ ResponseOK(q, item, blob) /\ KindOK(q) /\ Quiet
  BY <1>1, <1>2 DEF CallOK, CallReturns
<1>4. /\ q.err \in Errors /\ q.out \in Outs
      /\ q.out = "error" <=> q.err # "none"
      /\ q.said # "none" <=> q.out = "state"
      /\ q.op = "write" => q.out \in {"written", "already_exists", "error"}
      /\ q.op \in {"ask", "state"} => q.out \in {"state", "error"}
      /\ q.op = "have" => q.out \in {"true", "false", "error"}
  BY <1>2, <1>3 DEF ResponseOK, CallRec
<1>5. PICK o : /\ o = CASE q.op = "have" /\ q.via = "node" -> HaveSeen(q.out)
                        [] q.out = "error" /\ ~(q.op = "have" /\ q.via = "node") -> ErrorOf(c)
                        [] OTHER -> SeenOf(c)
               /\ call' = [call EXCEPT ![c].stage = "done", ![c].out = o]
  BY <1>1, <1>2 DEF CallReturns
<1>6. CASE q.op = "have" /\ q.via = "node"
  <2>1. o = HaveSeen(q.out)
    BY <1>5, <1>6
  <2>2. \/ o = "false"
        \/ o = q.out /\ q.err = "none" /\ q.said = "none"
    BY <1>4, <1>6, <2>1 DEF HaveSeen
  <2>3. o \in Outs
    BY <1>4, <2>2 DEF Outs
  <2> QED BY <1>2, <1>3, <1>5, <1>6, <2>2, <2>3, ReadAnswer
<1>7. CASE ~(q.op = "have" /\ q.via = "node") /\ q.out = "error"
  <2>1. o = IF q.via = "node" THEN Decoded(Encoded(q.err)) ELSE ZoneEncoded(q.err)
    BY <1>2, <1>5, <1>7 DEF ErrorOf
  <2>2. /\ o \in Outs /\ o \notin {"read", "piece", "written", "already_exists", "completed", "true"}
        /\ q.via = "node" /\ q.err \in Named => o = q.err
    BY <1>4, <2>1 DEF Decoded, Encoded, ZoneEncoded, Named, Errors, Outs
  <2> QED BY <1>2, <1>3, <1>4, <1>5, <1>7, <2>2, ReadAnswer
<1>8. CASE ~(q.op = "have" /\ q.via = "node") /\ q.out # "error"
  <2>1. q.err = "none" /\ o = SeenOf(c)
    BY <1>4, <1>5, <1>8
  <2>2. CASE q.op = "state"
    <3>1. q.said # "none" /\ q.said \in States
      BY <1>3, <1>4, <1>8, <2>2 DEF KindOK
    <3>2. o = q.said
      BY <1>2, <2>1, <2>2, <3>1 DEF SeenOf, StateSeen, StateJson
    <3>3. o \in Outs
      BY <3>1, <3>2 DEF Outs
    <3> QED BY <1>2, <1>3, <1>5, <3>1, <3>2, <3>3, ReadAnswer
  <2>3. CASE q.op = "ask"
    <3>1. q.said # "none" /\ q.said \in {"object", "not_exist"}
      BY <1>3, <1>4, <1>8, <2>3 DEF KindOK
    <3>2. o = q.said
      BY <1>2, <2>1, <2>3, <3>1 DEF SeenOf, ObjectSeen, ObjectJson
    <3>3. o \in Outs
      BY <3>1, <3>2 DEF Outs, States
    <3> QED BY <1>2, <1>3, <1>5, <3>1, <3>2, <3>3, ReadAnswer
  <2>4. CASE q.op \notin {"state", "ask"}
    <3>1. q.said = "none"
      BY <1>3, <2>4 DEF KindOK
    <3>2. o = q.out
      BY <1>2, <1>4, <1>8, <2>1, <2>4 DEF SeenOf, OutcomeSeen
    <3> QED BY <1>2, <1>3, <1>4, <1>5, <2>1, <3>1, <3>2, ReadAnswer
  <2> QED BY <2>2, <2>3, <2>4
<1> QED BY <1>6, <1>7, <1>8

\* A client of the store gateway has its answer.
LEMMA StoreReturnStep ==
    ASSUME ProxyInv, NEW c \in Callers, StoreReturns(c)
    PROVE  ProxyInv'
<1>1. CallOK(call[c], item, blob) /\ call[c] \in CallRec /\ call \in [Callers -> CallRec]
  BY OfCall
<1>2. PICK q \in CallRec : q = call[c]
  BY <1>1
<1>3. q.stage = "response" /\ q.via = "store" /\ ResponseOK(q, item, blob) /\ KindOK(q)
  BY <1>1, <1>2 DEF CallOK, StoreReturns
<1>4. /\ q.err \in Errors /\ q.out \in Outs /\ q.op \in Ops
      /\ q.out = "error" <=> q.err # "none"
  BY <1>1, <1>2, <1>3 DEF CallOK, ResponseOK, CallRec
<1>5. PICK o : /\ o = CASE q.op = "head" -> HeadSeen(c)
                        [] q.op \in {"read", "write"} -> BodySeen(c)
                        [] q.op = "remove" -> DeleteSeen(c)
                        [] OTHER -> GcSeen(c)
               /\ call' = [call EXCEPT ![c].stage = "done", ![c].out = o]
  BY <1>1, <1>2 DEF StoreReturns
<1>6. CASE q.err = "none"
  <2>1. o = q.out \/ o = "done"
    BY <1>2, <1>4, <1>5, <1>6 DEF HeadSeen, BodySeen, DeleteSeen, GcSeen
  <2>2. q.said = "none" /\ o \in Outs
    BY <1>3, <1>4, <2>1 DEF KindOK, Outs
  <2> QED BY <1>2, <1>3, <1>5, <1>6, <2>1, <2>2, ReadAnswer DEF StoreReturns
<1>7. CASE q.err # "none"
  <2>1. o \in {"remote", "done", ErrorSeen(c)}
    BY <1>2, <1>4, <1>5, <1>7 DEF HeadSeen, BodySeen, DeleteSeen, GcSeen
  <2>2. ErrorSeen(c) \in {"remote", q.err} /\ (q.err \in Named \ {"unsupported"} => ErrorSeen(c) = q.err)
    BY <1>2, <1>4 DEF ErrorSeen, StoreDecoded, StoreEncoded, Named, Errors
  <2>3. q.op \in {"read", "write", "restricted", "same_as"} => o = ErrorSeen(c)
    BY <1>2, <1>4, <1>5, <1>7 DEF BodySeen, GcSeen
  <2>4. o \in Outs /\ o \notin {"read", "piece", "written", "already_exists", "completed", "true"}
    <3>1. ErrorSeen(c) \in Outs /\ ErrorSeen(c) \notin {"read", "piece", "written", "already_exists", "completed", "true"}
      BY <1>2, <1>4, <1>7 DEF ErrorSeen, StoreDecoded, StoreEncoded, Named, Errors, Outs
    <3> QED BY <2>1, <3>1 DEF Outs
  <2> QED BY <1>2, <1>3, <1>5, <1>7, <2>2, <2>3, <2>4, ReadAnswer DEF StoreReturns
<1> QED BY <1>6, <1>7

-----------------------------------------------------------------------------
\* The garbage collection requests of the store gateway.
LEMMA GcStep ==
    ASSUME ProxyInv, NEW c \in Callers, RouteGcRequest(c)
    PROVE  ProxyInv'
<1>1. call[c].stage = "request"
  BY DEF RouteGcRequest, AtStore
<1>2. CASE Mark(c)
  BY <1>1, <1>2, MarkStep
<1>3. CASE ForcedGc(c)
  BY <1>1, <1>3, ForcedGcStep
<1>4. CASE SameAs(c)
  BY <1>1, <1>4, SameAsStep
<1>5. CASE Fail(c, "unsupported") /\ Quiet
  BY <1>1, <1>5, FailStep DEF Quiet, chunkVars, Errors
<1> QED BY <1>2, <1>3, <1>4, <1>5 DEF RouteGcRequest, GcHandlers

\* The next call of a caller.
LEMMA NextCallStep ==
    ASSUME ProxyInv, NEW c \in Callers, Next1(c)
    PROVE  ProxyInv'
BY RestingCall, OneCall DEF Next1, Quiet, chunkVars

\* Every step of the gateways and their clients keeps the invariant.
LEMMA NextProxy == ProxyInv /\ HttpNext => ProxyInv'
<1> SUFFICES ASSUME ProxyInv, HttpNext PROVE ProxyInv'
  OBVIOUS
<1>1. CASE LateBody
  BY <1>1, LateStep
<1>2. ASSUME NEW c \in Callers, Invoke(c) \/ BackendCall(c) \/ GcCall(c) PROVE ProxyInv'
  BY <1>2, InvokeStep
<1>3. ASSUME NEW c \in Callers, CallSteps(c) PROVE ProxyInv'
  <2>1. CASE HandleRpc(c) \/ HandleStoreRpc(c) \/ HandleStoreGc(c)
    BY <2>1, RpcStep
  <2>2. CASE HandleOpen(c)
    BY <2>2, OpenStreamStep DEF HandleOpen
  <2>3. CASE HandlePiece(c)
    BY <2>3, PieceStep
  <2>4. CASE HandleWrite(c)
    BY <2>4, UnlessKnownStep DEF HandleWrite
  <2>5. CASE HandleBody(c)
    BY <2>5, BodyStep
  <2>6. CASE Frame(c)
    BY <2>6, FrameStep
  <2>7. CASE ReadZero(c)
    BY <2>7, BodyTroubleStep
  <2>8. CASE Receive(c)
    BY <2>8, ReceiveStep
  <2>9. CASE EndOfBody(c)
    BY <2>9, EndOfBodyStep
  <2>10. CASE BrokenBody(c)
    BY <2>10, BreakStep
  <2>11. CASE CallReturns(c)
    BY <2>11, ReturnStep
  <2> QED BY <1>3, <2>1, <2>2, <2>3, <2>4, <2>5, <2>6, <2>7, <2>8, <2>9, <2>10, <2>11 DEF CallSteps
<1>4. ASSUME NEW c \in Callers, Disconnect(c) \/ Truncate(c) \/ Next1(c) PROVE ProxyInv'
  BY <1>4, BreakStep, BodyTroubleStep, NextCallStep
<1>5. ASSUME NEW c \in Callers, StoreSteps(c) PROVE ProxyInv'
  <2>1. CASE HandleHeadChunk(c)
    BY <2>1, HeadStep
  <2>2. CASE HandleGetChunk(c)
    BY <2>2, OpenStreamStep DEF HandleGetChunk, AtStore
  <2>3. CASE HandlePutChunk(c)
    BY <2>3, UnlessKnownStep DEF HandlePutChunk, AtStore
  <2>4. CASE HandleDeleteChunk(c)
    BY <2>4, RemoveStep DEF HandleDeleteChunk, AtStore
  <2>5. CASE RouteGcRequest(c)
    BY <2>5, GcStep
  <2>6. CASE StoreReturns(c)
    BY <2>6, StoreReturnStep
  <2> QED BY <1>5, <2>1, <2>2, <2>3, <2>4, <2>5, <2>6 DEF StoreSteps
<1> QED BY <1>1, <1>2, <1>3, <1>4, <1>5 DEF HttpNext, ProxyNext

\* What a client of any gateway is told is true, for any number of callers and
\* any size of the chunk and of the stream buffer: bodies are whole, sizes are
\* right, a confirmed write is stored and confirmed once, states and errors
\* arrive as they were raised (chunk_reader_to_channel, handle_write_chunk,
\* handle_head_chunk, map_http_error).
THEOREM RemoteTrueHolds == HttpSpec => []RemoteTrue
<1>1. ProxyInv /\ [HttpNext]_hvars => ProxyInv'
  <2>1. ASSUME ProxyInv, UNCHANGED hvars PROVE ProxyInv'
    BY <2>1 DEF hvars, pvars, chunkVars, ProxyInv, WritesOK
  <2> QED BY <2>1, NextProxy
<1> QED BY <1>1, InitProxy, InvGivesRemoteTrue, PTL DEF HttpSpec

-----------------------------------------------------------------------------
(* Upload sessions of the zone gateway.                                      *)

SessionRec ==
    [up : Uploads, st : {"pending", "uploading", "completed", "skipped"}, off : Nat, obj : Seq(Nat),
     torn : BOOLEAN, lost : BOOLEAN]

PatchRec == [pc : {"idle", "sent", "looked", "body"}, sid : Nat, off : Nat, len : Nat]

Open == {s \in Live : Active(s)}

\* Session ids are not used twice, and what is stored under them has its type.
UploadTyped ==
    /\ cnt \in [made : Nat, sent : Nat, faults : Nat, epoch : Nat] /\ cnt.epoch <= cnt.made
    /\ Live \subseteq 1 .. cnt.made /\ DOMAIN temp \subseteq 1 .. cnt.made
    /\ \A s \in Live : sessions[s] \in SessionRec
    /\ \A s \in DOMAIN temp : temp[s] \in Seq(Nat)
    /\ patch \in [Patches -> PatchRec]
    /\ usage \in Nat

\* An unfinished session has its file and a finished one all its bytes.
SessionsOK ==
    \A s \in Live : /\ sessions[s].off <= Size(s)
                    /\ Active(s) => s \in DOMAIN temp
                    /\ ~Active(s) => sessions[s].off = Size(s)

\* A PATCH in flight is for a session there was, with at least one byte.
PatchesOK ==
    \A p \in Patches : patch[p].pc # "idle" => patch[p].sid \in 1 .. cnt.made /\ patch[p].len >= 1

OrderOK ==
    /\ older \subseteq Live \X Live
    /\ \A r, s \in Live : r # s => (<<r, s>> \in older) # (<<s, r>> \in older)

\* Keys and sessions are inverse.
KeysOK ==
    /\ \A s \in Live : Key(sessions[s].up) \in DOMAIN keyIndex /\ keyIndex[Key(sessions[s].up)] = s
    /\ \A k \in DOMAIN keyIndex : keyIndex[k] \in Live /\ Key(sessions[keyIndex[k]].up) = k

UploadInv ==
    /\ UploadTyped /\ SessionsOK /\ PatchesOK /\ OrderOK /\ KeysOK
    /\ aged \subseteq Open /\ UsageNotLeaked /\ NoOrphanTemp

LEMMA InvGivesUploadBooks == UploadInv => UploadBooks
BY DEF UploadInv, UploadBooks, UploadTyped, SessionsOK, OrderOK, KeysOK, UploadTypeOK, IndexExact, Open,
       SessionRec, Live, Size

-----------------------------------------------------------------------------
(* Counting bytes.                                                           *)

LEMMA ReceivedFinite ==
    ASSUME NEW f, NEW S, IsFiniteSet(S), \A s \in S : f[s].off \in Nat
    PROVE  IsFiniteSet(Received(f, S)) /\ Cardinality(Received(f, S)) \in Nat
<1> DEFINE g == [s \in S |-> {s} \X (1 .. f[s].off)]
           T == {{s} \X (1 .. f[s].off) : s \in S}
<1>1. g \in Surjection(S, T)
  BY DEF Surjection
<1>2. IsFiniteSet(T)
  <2> HIDE DEF g, T
  <2> QED BY <1>1, FS_Surjection
<1>3. \A s \in S : IsFiniteSet({s} \X (1 .. f[s].off))
  <2> SUFFICES ASSUME NEW s \in S PROVE IsFiniteSet({s} \X (1 .. f[s].off))
    OBVIOUS
  <2>1. IsFiniteSet({s}) BY FS_Singleton
  <2>2. IsFiniteSet(1 .. f[s].off) BY FS_Interval
  <2> QED BY <2>1, <2>2, FS_Product
<1>4. IsFiniteSet(UNION T)
  BY <1>2, <1>3, FS_UNION
<1> QED BY <1>4, FS_CardinalityType DEF Received

LEMMA ReceivedSplit ==
    ASSUME NEW f, NEW S, NEW T, T \subseteq S, IsFiniteSet(S), \A s \in S : f[s].off \in Nat
    PROVE  /\ Cardinality(Received(f, S)) = Cardinality(Received(f, T)) + Cardinality(Received(f, S \ T))
           /\ Cardinality(Received(f, S)) \in Nat /\ Cardinality(Received(f, T)) \in Nat
           /\ Cardinality(Received(f, S \ T)) \in Nat
<1> DEFINE A == Received(f, T)
           B == Received(f, S \ T)
<1>1. IsFiniteSet(T) /\ IsFiniteSet(S \ T) BY FS_Subset
<1>2. /\ IsFiniteSet(A) /\ IsFiniteSet(B)
      /\ Cardinality(A) \in Nat /\ Cardinality(B) \in Nat
      /\ Cardinality(Received(f, S)) \in Nat
  BY <1>1, ReceivedFinite
<1> SUFFICES Cardinality(Received(f, S)) = Cardinality(A) + Cardinality(B) BY <1>2
<1>3. Received(f, S) = A \cup B BY DEF Received
<1>4. A \cap B = {} BY DEF Received
<1>5. Cardinality({}) = 0 BY FS_EmptySet
<1> HIDE DEF A, B
<1>6. Cardinality(A \cup B) = Cardinality(A) + Cardinality(B) - Cardinality(A \cap B)
  BY <1>2, FS_Union
<1>7. Cardinality(A \cap B) = 0 BY <1>4, <1>5
<1>8. Cardinality(A \cup B) = Cardinality(A) + Cardinality(B) BY <1>2, <1>6, <1>7
<1> QED BY <1>3, <1>8

LEMMA ReceivedOne ==
    ASSUME NEW f, NEW s, f[s].off \in Nat
    PROVE  Cardinality(Received(f, {s})) = f[s].off
<1>1. Received(f, {s}) = {s} \X (1 .. f[s].off) BY DEF Received
<1>2. IsFiniteSet({s}) /\ Cardinality({s}) = 1 BY FS_Singleton
<1> PICK n \in Nat : n = f[s].off OBVIOUS
<1>3. IsFiniteSet(1 .. n) /\ Cardinality(1 .. n) = n
  <2>1. 1 \in Int /\ n \in Int OBVIOUS
  <2>2. IsFiniteSet(1 .. n) /\ Cardinality(1 .. n) = IF 1 > n THEN 0 ELSE n - 1 + 1 BY <2>1, FS_Interval
  <2> QED BY <2>2
<1>4. Cardinality({s} \X (1 .. n)) = Cardinality({s}) * Cardinality(1 .. n)
  BY <1>2, <1>3, FS_Product
<1>5. Cardinality({s} \X (1 .. n)) = 1 * n BY <1>2, <1>3, <1>4
<1> QED BY <1>1, <1>5

LEMMA ReceivedSame ==
    ASSUME NEW f, NEW g, NEW S, \A s \in S : f[s].off = g[s].off
    PROVE  Received(f, S) = Received(g, S)
<1>1. \A s \in S : {s} \X (1 .. f[s].off) = {s} \X (1 .. g[s].off) OBVIOUS
<1>2. {{s} \X (1 .. f[s].off) : s \in S} = {{s} \X (1 .. g[s].off) : s \in S} BY <1>1
<1> QED BY <1>2 DEF Received

\* The sessions are finitely many, and their bytes are numbers.
LEMMA FewSessions ==
    ASSUME UploadTyped
    PROVE  /\ IsFiniteSet(Live) /\ IsFiniteSet(Open)
           /\ \A s \in Live : sessions[s].off \in Nat /\ sessions[s].up \in Uploads
           /\ \A s \in Live : Size(s) \in Nat /\ sessions[s].up.data \in Seq(Nat)
<1>1. IsFiniteSet(1 .. cnt.made) BY FS_Interval DEF UploadTyped
<1>2. IsFiniteSet(Live) BY <1>1, FS_Subset DEF UploadTyped
<1>3. IsFiniteSet(Open) BY <1>2, FS_Subset DEF Open
<1>4. \A s \in Live : sessions[s].off \in Nat /\ sessions[s].up \in Uploads BY DEF UploadTyped, SessionRec
<1>5. \A s \in Live : Size(s) \in Nat /\ sessions[s].up.data \in Seq(Nat)
  BY <1>4, UploadAssumption DEF Size
<1> QED BY <1>2, <1>3, <1>4, <1>5

\* What the counter loses with the sessions S keeps it below what is left.
LEMMA Freed ==
    ASSUME UploadTyped, NEW A, A \subseteq Open, NEW S, S \subseteq A, NEW n \in Nat, n <= Bytes(A)
    PROVE  Less(n, Bytes(S)) \in Nat /\ Less(n, Bytes(S)) <= Bytes(A \ S)
<1>1. IsFiniteSet(A) BY FewSessions, FS_Subset
<1>2. \A s \in A : sessions[s].off \in Nat BY FewSessions DEF Open
<1>3. /\ Bytes(A) = Bytes(S) + Bytes(A \ S)
      /\ Bytes(A) \in Nat /\ Bytes(S) \in Nat /\ Bytes(A \ S) \in Nat
  BY <1>1, <1>2, ReceivedSplit DEF Bytes
<1> QED BY <1>3 DEF Less

LEMMA UploadInitial == UploadInit => UploadInv
<1> SUFFICES ASSUME UploadInit PROVE UploadInv OBVIOUS
<1>1. Live = {} /\ DOMAIN temp = {} /\ DOMAIN keyIndex = {} BY DEF UploadInit, Live
<1>2. UploadTyped BY <1>1 DEF UploadInit, UploadTyped, PatchRec, NoPatch
<1>3. SessionsOK /\ PatchesOK /\ OrderOK /\ KeysOK /\ NoOrphanTemp /\ aged \subseteq Open
  BY <1>1 DEF UploadInit, SessionsOK, PatchesOK, OrderOK, KeysOK, NoOrphanTemp, Open, NoPatch
<1>4. UsageNotLeaked
  <2>1. usage = 0 BY DEF UploadInit
  <2>2. IsFiniteSet(Open) /\ \A s \in Open : sessions[s].off \in Nat
    BY <1>2, FewSessions DEF Open
  <2>3. Bytes(Open) \in Nat BY <2>2, ReceivedFinite DEF Bytes
  <2> QED BY <2>1, <2>3 DEF UsageNotLeaked, Open
<1> QED BY <1>2, <1>3, <1>4 DEF UploadInv

\* A step that only moves PATCH handlers on.
LEMMA HandlerStep ==
    ASSUME UploadInv, UNCHANGED <<sessions, keyIndex, usage, temp, older, aged, unclean>>,
           cnt' \in [made : Nat, sent : Nat, faults : Nat, epoch : Nat],
           cnt'.made = cnt.made, cnt'.epoch = cnt.epoch,
           NEW p \in Patches, NEW h \in PatchRec, patch' = [patch EXCEPT ![p] = h],
           h.pc # "idle" => h.sid \in 1 .. cnt.made /\ h.len >= 1
    PROVE  UploadInv'
<1> USE DEF UploadInv
<1>1. UploadTyped' BY DEF UploadTyped, Live
<1>2. PatchesOK' BY DEF PatchesOK, UploadTyped
<1>3. SessionsOK' BY DEF SessionsOK, Live, Size, Active
<1>4. OrderOK' /\ KeysOK' BY DEF OrderOK, KeysOK, Live
<1>5. NoOrphanTemp' /\ (aged \subseteq Open)' BY DEF NoOrphanTemp, Open, Live, Active
<1>6. UsageNotLeaked' BY DEF UsageNotLeaked, Bytes, Live, Active
<1> QED BY <1>1, <1>2, <1>3, <1>4, <1>5, <1>6

LEMMA NoPatchOK == NoPatch \in PatchRec /\ NoPatch.pc = "idle"
BY DEF NoPatch, PatchRec

LEMMA SendStep ==
    ASSUME UploadInv, NEW p \in Patches, NEW s \in Live, NEW off \in 0 .. Size(s), NEW len \in 1 .. Size(s),
           Send(p, s, off, len)
    PROVE  UploadInv'
<1>1. s \in 1 .. cnt.made /\ Size(s) \in Nat BY FewSessions DEF UploadInv, UploadTyped
<1> DEFINE h == [pc |-> "sent", sid |-> s, off |-> off, len |-> len]
<1>2. h \in PatchRec
  <2>1. off \in Nat /\ len \in Nat /\ s \in Nat BY <1>1
  <2> QED BY <2>1 DEF PatchRec
<1>3. h.len >= 1 OBVIOUS
<1>4. patch' = [patch EXCEPT ![p] = h] BY DEF Send
<1>5. /\ cnt' \in [made : Nat, sent : Nat, faults : Nat, epoch : Nat]
      /\ cnt'.made = cnt.made /\ cnt'.epoch = cnt.epoch
  BY DEF Send, UploadInv, UploadTyped
<1>6. UNCHANGED <<sessions, keyIndex, usage, temp, older, aged, unclean>> BY DEF Send
<1>7. h.sid = s OBVIOUS
<1> HIDE DEF h
<1> QED BY <1>1, <1>2, <1>3, <1>4, <1>5, <1>6, <1>7, HandlerStep

\* A handler moves to its next stage or ends.
LEMMA LookStep ==
    ASSUME UploadInv, NEW p \in Patches, FirstLook(p) \/ SecondLook(p) \/ Refused(p)
    PROVE  UploadInv'
<1>1. UNCHANGED <<sessions, keyIndex, usage, temp, older, aged, unclean, cnt>>
  BY DEF FirstLook, SecondLook, Refused
<1>2. /\ cnt' \in [made : Nat, sent : Nat, faults : Nat, epoch : Nat]
      /\ cnt'.made = cnt.made /\ cnt'.epoch = cnt.epoch
  BY <1>1 DEF UploadInv, UploadTyped
<1>3. patch[p].pc # "idle" BY DEF FirstLook, SecondLook, Refused
<1>4. patch[p] \in PatchRec BY DEF UploadInv, UploadTyped
<1>5. CASE End(p)
  BY <1>1, <1>2, <1>5, NoPatchOK, HandlerStep DEF End
<1>6. CASE \E to \in {"looked", "body"} : patch' = [patch EXCEPT ![p].pc = to]
  <2>1. PICK to \in {"looked", "body"} : patch' = [patch EXCEPT ![p].pc = to] BY <1>6
  <2> DEFINE h == [patch[p] EXCEPT !.pc = to]
  <2>2. patch' = [patch EXCEPT ![p] = h] BY <2>1
  <2>3. h \in PatchRec /\ h.sid = patch[p].sid /\ h.off = patch[p].off /\ h.len = patch[p].len
    BY <1>4 DEF PatchRec
  <2>4. patch[p].sid \in 1 .. cnt.made /\ patch[p].len >= 1
    BY <1>3 DEF UploadInv, PatchesOK
  <2> HIDE DEF h
  <2> QED BY <1>1, <1>2, <2>2, <2>3, <2>4, HandlerStep
<1>7. End(p) \/ \E to \in {"looked", "body"} : patch' = [patch EXCEPT ![p].pc = to]
  BY DEF FirstLook, SecondLook, Refused
<1> QED BY <1>5, <1>6, <1>7

LEMMA PartIsSeq ==
    ASSUME NEW d \in Seq(Nat), NEW a \in Nat, NEW n \in Nat, a + n <= Len(d)
    PROVE  SubSeq(d, a + 1, a + n) \in Seq(Nat)
<1>1. \A i \in a + 1 .. a + n : d[i] \in Nat
  <2> SUFFICES ASSUME NEW i \in a + 1 .. a + n PROVE d[i] \in Nat OBVIOUS
  <2>1. i \in 1 .. Len(d) OBVIOUS
  <2> QED BY <2>1
<1> QED BY <1>1

LEMMA PartLen ==
    ASSUME NEW d \in Seq(Nat), NEW a \in Nat, NEW n \in Nat, a + n <= Len(d)
    PROVE  Len(SubSeq(d, a + 1, a + n)) = n
OBVIOUS

\* A PATCH whose offset is still right is for an unfinished session.
LEMMA FitsMeans ==
    ASSUME UploadInv, NEW p \in Patches, patch[p].pc = "body", Fits(p)
    PROVE  /\ patch[p].sid \in Open /\ patch[p].sid \in DOMAIN temp
           /\ patch[p].off = sessions[patch[p].sid].off /\ patch[p].off \in Nat /\ patch[p].len \in Nat
           /\ patch[p].off + patch[p].len <= Size(patch[p].sid)
           /\ Body(p) \in Seq(Nat) /\ temp[patch[p].sid] \in Seq(Nat)
           /\ temp[patch[p].sid] \o Body(p) \in Seq(Nat)
<1> PICK s : s = patch[p].sid OBVIOUS
<1>1. patch[p] \in PatchRec BY DEF UploadInv, UploadTyped
<1>2. s \in Live /\ patch[p].off = sessions[s].off BY DEF Fits
<1>3. patch[p].off \in Nat /\ patch[p].len \in Nat BY <1>1 DEF PatchRec
<1>4. patch[p].len >= 1 /\ patch[p].off + patch[p].len <= Size(s)
  BY DEF UploadInv, PatchesOK, Fits
<1>5. Size(s) \in Nat /\ sessions[s].up.data \in Seq(Nat) /\ Size(s) = Len(sessions[s].up.data)
  BY <1>2, FewSessions DEF UploadInv, Size
<1>6. sessions[s].off # Size(s) BY <1>2, <1>3, <1>4, <1>5
<1>7. Active(s) /\ s \in DOMAIN temp BY <1>2, <1>6 DEF UploadInv, SessionsOK
<1>8. Body(p) \in Seq(Nat)
  <2> PICK a \in Nat, n \in Nat, d \in Seq(Nat) : a = patch[p].off /\ n = patch[p].len /\ d = sessions[s].up.data
    BY <1>3, <1>5
  <2>1. a + n <= Len(d) BY <1>4, <1>5
  <2>3. SubSeq(d, a + 1, a + n) \in Seq(Nat) BY <2>1, PartIsSeq
  <2> QED BY <2>3 DEF Body
<1>9. temp[s] \in Seq(Nat) BY <1>7 DEF UploadInv, UploadTyped
<1>10. temp[s] \o Body(p) \in Seq(Nat) BY <1>8, <1>9
<1> QED BY <1>2, <1>3, <1>4, <1>7, <1>8, <1>9, <1>10 DEF Open

\* What the open sessions received, and the part of one of them.
LEMMA OpenBytes ==
    ASSUME UploadTyped, NEW s \in Open
    PROVE  /\ Bytes(Open) = sessions[s].off + Bytes(Open \ {s})
           /\ sessions[s].off \in Nat /\ Bytes(Open \ {s}) \in Nat /\ Bytes(Open) \in Nat
<1>1. IsFiniteSet(Open) /\ \A x \in Open : sessions[x].off \in Nat BY FewSessions DEF Open
<1>2. {s} \subseteq Open OBVIOUS
<1>3. /\ Bytes(Open) = Bytes({s}) + Bytes(Open \ {s})
      /\ Bytes(Open \ {s}) \in Nat /\ Bytes(Open) \in Nat
  BY <1>1, <1>2, ReceivedSplit DEF Bytes
<1>4. Bytes({s}) = sessions[s].off BY <1>1, ReceivedOne DEF Bytes
<1> QED BY <1>1, <1>3, <1>4

\* ... when that one changes to r.
LEMMA OpenBytesChanged ==
    ASSUME UploadTyped, NEW s \in Open, NEW f, f[s].off \in Nat,
           \A x \in Open \ {s} : f[x].off = sessions[x].off
    PROVE  /\ Cardinality(Received(f, Open \ {s})) = Bytes(Open \ {s})
           /\ Cardinality(Received(f, Open)) = f[s].off + Bytes(Open \ {s})
<1>1. IsFiniteSet(Open) /\ \A x \in Open : sessions[x].off \in Nat BY FewSessions DEF Open
<1>4. \A x \in Open : f[x].off \in Nat BY <1>1
<1>6. Received(f, Open \ {s}) = Received(sessions, Open \ {s}) BY ReceivedSame
<1>7. {s} \subseteq Open OBVIOUS
<1>8. Cardinality(Received(f, Open)) = Cardinality(Received(f, {s})) + Cardinality(Received(f, Open \ {s}))
  BY <1>1, <1>4, <1>7, ReceivedSplit
<1>9. Cardinality(Received(f, {s})) = f[s].off BY ReceivedOne
<1> QED BY <1>6, <1>8, <1>9 DEF Bytes

\* A PATCH changes the session s to r.
LEMMA AppendedStep ==
    ASSUME UploadInv, NEW p \in Patches, NEW s \in Open, NEW r \in SessionRec,
           r.up = sessions[s].up, r.off <= Size(s),
           sessions' = [sessions EXCEPT ![s] = r],
           patch' = [patch EXCEPT ![p] = NoPatch], older' = Touch(s), aged' = aged \ {s},
           UNCHANGED keyIndex,
           cnt' \in [made : Nat, sent : Nat, faults : Nat, epoch : Nat],
           cnt'.made = cnt.made, cnt'.epoch = cnt.epoch, usage' \in Nat,
           DOMAIN temp' \subseteq DOMAIN temp, DOMAIN temp \ {s} \subseteq DOMAIN temp',
           \A x \in DOMAIN temp' : temp'[x] \in Seq(Nat), unclean \subseteq unclean',
           \/ /\ r.st \in {"pending", "uploading"} /\ s \in DOMAIN temp'
              /\ usage' <= usage + r.off - sessions[s].off
           \/ /\ r.st \notin {"pending", "uploading"} /\ r.off = Size(s)
              /\ s \in DOMAIN temp' => s \in unclean'
              /\ usage' = Less(usage, Size(s))
    PROVE  UploadInv'
<1> USE DEF UploadInv
<1>1. Live' = Live /\ s \in Live BY DEF Live, Open
<1>2. /\ sessions'[s] = r
      /\ \A x \in Live \ {s} : sessions'[x] = sessions[x]
  BY <1>1 DEF Live
<1>3. \A x \in Live : /\ sessions'[x].up = sessions[x].up
                      /\ Size(x)' = Size(x)
                      /\ x # s => (Active(x)' <=> Active(x))
  BY <1>1, <1>2 DEF Size, Active
<1>4. Active(s)' <=> r.st \in {"pending", "uploading"} BY <1>2 DEF Active
<1>5. UploadTyped'
  <2>1. patch' \in [Patches -> PatchRec] BY NoPatchOK DEF UploadTyped
  <2>2. \A x \in Live' : sessions'[x] \in SessionRec BY <1>1, <1>2 DEF UploadTyped
  <2> QED BY <1>1, <2>1, <2>2 DEF UploadTyped
<1>6. SessionsOK'
  <2> SUFFICES ASSUME NEW x \in Live
               PROVE  /\ sessions'[x].off <= Size(x)'
                      /\ Active(x)' => x \in DOMAIN temp'
                      /\ ~Active(x)' => sessions'[x].off = Size(x)'
    BY <1>1 DEF SessionsOK
  <2>1. CASE x = s BY <1>2, <1>3, <1>4, <2>1
  <2>2. CASE x # s
    <3>1. x \in DOMAIN temp => x \in DOMAIN temp' BY <2>2
    <3> QED BY <1>2, <1>3, <2>2, <3>1 DEF SessionsOK
  <2> QED BY <2>1, <2>2
<1>7. PatchesOK'
  <2>1. \A q \in Patches : q # p => patch'[q] = patch[q] BY DEF UploadTyped
  <2>2. patch'[p] = NoPatch BY DEF UploadTyped
  <2> QED BY <1>1, <1>3, <2>1, <2>2, NoPatchOK DEF PatchesOK
<1>8. OrderOK' BY <1>1 DEF OrderOK, Touch, Among
<1>9. KeysOK' BY <1>1, <1>3 DEF KeysOK
<1>10. (aged \subseteq Open)' BY <1>1, <1>3 DEF Open
<1>11. NoOrphanTemp'
  <2>1. s \in DOMAIN temp' => Active(s)' \/ s \in unclean' BY <1>4
  <2>2. \A x \in DOMAIN temp' : x # s => x <= cnt'.epoch \/ x \in unclean' \/ (x \in Live' /\ Active(x)')
    BY <1>1, <1>3 DEF NoOrphanTemp
  <2>3. \A x \in Live' : Active(x)' => x \in DOMAIN temp' BY <1>6 DEF SessionsOK
  <2> QED BY <1>1, <2>1, <2>2, <2>3 DEF NoOrphanTemp
<1>12. UsageNotLeaked'
  <2> DEFINE others == Open \ {s}
  <2>1. /\ Bytes(Open) = sessions[s].off + Bytes(others)
        /\ sessions[s].off \in Nat /\ Bytes(others) \in Nat /\ usage \in Nat
    BY OpenBytes DEF UploadTyped
  <2>2. usage <= sessions[s].off + Bytes(others) BY <2>1 DEF UsageNotLeaked, Open
  <2>3. /\ Cardinality(Received(sessions', others)) = Bytes(others)
        /\ Cardinality(Received(sessions', Open)) = r.off + Bytes(others)
    <3>1. sessions'[s].off \in Nat /\ \A x \in Open \ {s} : sessions'[x].off = sessions[x].off
      BY <1>2 DEF SessionRec, Open
    <3>2. PICK f : f = sessions' OBVIOUS
    <3>3. f[s].off \in Nat /\ \A x \in Open \ {s} : f[x].off = sessions[x].off BY <3>1, <3>2
    <3>4. /\ Cardinality(Received(f, others)) = Bytes(others)
          /\ Cardinality(Received(f, Open)) = f[s].off + Bytes(others)
      BY <3>3, OpenBytesChanged
    <3> QED BY <1>2, <3>2, <3>4
  <2>4. r.off \in Nat /\ Size(s) \in Nat BY <1>1, FewSessions DEF SessionRec
  <2>5. CASE r.st \in {"pending", "uploading"}
    <3>1. Open' = Open /\ s \in Open' BY <1>1, <1>3, <1>4, <2>5 DEF Open
    <3>3. Bytes(Open)' = r.off + Bytes(others) BY <2>3, <3>1 DEF Bytes
    <3>4. usage' <= usage + r.off - sessions[s].off BY <2>5
    <3>5. usage' <= r.off + Bytes(others) BY <2>1, <2>2, <2>4, <3>4
    <3> QED BY <3>3, <3>5 DEF UsageNotLeaked, Open
  <2>6. CASE r.st \notin {"pending", "uploading"}
    <3>1. Open' = others BY <1>1, <1>3, <1>4, <2>6 DEF Open
    <3>2. Bytes(Open)' = Bytes(others) BY <2>3, <3>1 DEF Bytes
    <3>3. usage' = Less(usage, Size(s)) BY <2>6
    <3>4. sessions[s].off <= Size(s) BY <1>1 DEF SessionsOK
    <3>5. usage' <= Bytes(others) BY <2>1, <2>2, <2>4, <3>3, <3>4 DEF Less
    <3> QED BY <3>2, <3>5 DEF UsageNotLeaked, Open
  <2> QED BY <2>5, <2>6
<1> QED BY <1>5, <1>6, <1>7, <1>8, <1>9, <1>10, <1>11, <1>12

LEMMA CountFault ==
    ASSUME UploadTyped, Fault \/ UNCHANGED cnt
    PROVE  /\ cnt' \in [made : Nat, sent : Nat, faults : Nat, epoch : Nat]
           /\ cnt'.made = cnt.made /\ cnt'.epoch = cnt.epoch
BY DEF UploadTyped, Fault

\* The files of the sessions S go, or stay and are unclean.
LEMMA RemoveTempMeans ==
    ASSUME NEW files, NEW S, RemoveTemp(files, S)
    PROVE  /\ DOMAIN temp' \subseteq DOMAIN files /\ DOMAIN files \ S \subseteq DOMAIN temp'
           /\ \A x \in DOMAIN temp' : temp'[x] = files[x]
           /\ \A x \in DOMAIN temp' : x \in S => x \in unclean'
           /\ unclean \subseteq unclean'
<1>1. PICK kept \in SUBSET (S \cap DOMAIN files) :
          temp' = Without(files, S \ kept) /\ unclean' = unclean \cup kept
  BY DEF RemoveTemp
<1> QED BY <1>1 DEF Without

LEMMA AppendMoreStep ==
    ASSUME UploadInv, NEW p \in Patches, AppendMore(p)
    PROVE  UploadInv'
<1> PICK s : s = patch[p].sid OBVIOUS
<1>1. /\ s \in Open /\ patch[p].off = sessions[s].off /\ patch[p].off \in Nat /\ patch[p].len \in Nat
      /\ patch[p].off + patch[p].len <= Size(s) /\ temp[s] \o Body(p) \in Seq(Nat)
  BY FitsMeans DEF AppendMore
<1>2. sessions[s] \in SessionRec /\ s \in Live BY <1>1 DEF UploadInv, UploadTyped, Open
<1> DEFINE r == [sessions[s] EXCEPT !.off = @ + patch[p].len, !.st = "uploading"]
<1>3. r \in SessionRec /\ r.up = sessions[s].up /\ r.off = sessions[s].off + patch[p].len /\ r.st = "uploading"
  <2>1. PICK m \in Nat : m = sessions[s].off + patch[p].len BY <1>1
  <2>2. r = [sessions[s] EXCEPT !.off = m, !.st = "uploading"] BY <1>2, <2>1 DEF SessionRec
  <2> HIDE DEF r
  <2>3. r \in SessionRec /\ r.up = sessions[s].up /\ r.off = m /\ r.st = "uploading"
    <3> PICK x \in SessionRec : x = sessions[s] BY <1>2
    <3>1. r = [x EXCEPT !.off = m, !.st = "uploading"] BY <2>2
    <3>2. r \in SessionRec /\ r.up = x.up /\ r.off = m /\ r.st = "uploading" BY <3>1 DEF SessionRec
    <3> QED BY <3>2
  <2> QED BY <2>1, <2>3
<1>4. sessions' = [sessions EXCEPT ![s] = r] BY <1>2 DEF AppendMore, Patched, Live
<1>5. usage' = usage + patch[p].len /\ usage \in Nat BY DEF AppendMore, UploadInv, UploadTyped
<1>6. /\ patch' = [patch EXCEPT ![p] = NoPatch] /\ older' = Touch(s) /\ aged' = aged \ {s}
      /\ UNCHANGED <<keyIndex, cnt, unclean>> /\ temp' = [temp EXCEPT ![s] = temp[s] \o Body(p)]
  BY DEF AppendMore, End
<1>7. sessions[s].off \in Nat BY <1>2 DEF SessionRec
<1> HIDE DEF r
<1>8. usage' \in Nat /\ usage' <= usage + r.off - sessions[s].off /\ r.off <= Size(s)
  BY <1>1, <1>3, <1>5, <1>7
<1>9. /\ cnt' \in [made : Nat, sent : Nat, faults : Nat, epoch : Nat]
      /\ cnt'.made = cnt.made /\ cnt'.epoch = cnt.epoch
  BY <1>6, CountFault DEF UploadInv
<1>10. PICK c \in Seq(Nat) : temp' = [temp EXCEPT ![s] = c] BY <1>1, <1>6
<1>11. /\ DOMAIN temp' = DOMAIN temp /\ s \in DOMAIN temp /\ \A x \in DOMAIN temp' : temp'[x] \in Seq(Nat)
  <2>1. s \in DOMAIN temp /\ \A x \in DOMAIN temp : temp[x] \in Seq(Nat)
    BY <1>1 DEF UploadInv, UploadTyped, SessionsOK, Open
  <2> QED BY <1>10, <2>1
<1> QED BY <1>1, <1>3, <1>4, <1>6, <1>8, <1>9, <1>11, AppendedStep

LEMMA PersistFailsStep ==
    ASSUME UploadInv, NEW p \in Patches, PersistFails(p)
    PROVE  UploadInv'
<1> PICK s : s = patch[p].sid OBVIOUS
<1>1. /\ s \in Open /\ patch[p].off = sessions[s].off /\ patch[p].off \in Nat /\ patch[p].len \in Nat
      /\ patch[p].off + patch[p].len <= Size(s) /\ temp[s] \o Body(p) \in Seq(Nat)
  BY FitsMeans DEF PersistFails
<1>2. sessions[s] \in SessionRec /\ s \in Live BY <1>1 DEF UploadInv, UploadTyped, Open
<1> DEFINE r == [sessions[s] EXCEPT !.off = @ + patch[p].len, !.st = "uploading"]
<1>3. r \in SessionRec /\ r.up = sessions[s].up /\ r.off = sessions[s].off + patch[p].len /\ r.st = "uploading"
  <2>1. PICK m \in Nat : m = sessions[s].off + patch[p].len BY <1>1
  <2>2. r = [sessions[s] EXCEPT !.off = m, !.st = "uploading"] BY <1>2, <2>1 DEF SessionRec
  <2> HIDE DEF r
  <2>3. r \in SessionRec /\ r.up = sessions[s].up /\ r.off = m /\ r.st = "uploading"
    <3> PICK x \in SessionRec : x = sessions[s] BY <1>2
    <3>1. r = [x EXCEPT !.off = m, !.st = "uploading"] BY <2>2
    <3>2. r \in SessionRec /\ r.up = x.up /\ r.off = m /\ r.st = "uploading" BY <3>1 DEF SessionRec
    <3> QED BY <3>2
  <2> QED BY <2>1, <2>3
<1>4. sessions' = [sessions EXCEPT ![s] = r] BY <1>2 DEF PersistFails, Patched, Live
<1>5. usage' = usage /\ usage \in Nat BY DEF PersistFails, UploadInv, UploadTyped
<1>6. /\ patch' = [patch EXCEPT ![p] = NoPatch] /\ older' = Touch(s) /\ aged' = aged \ {s}
      /\ UNCHANGED <<keyIndex, unclean>> /\ temp' = [temp EXCEPT ![s] = temp[s] \o Body(p)]
      /\ Fault \/ UNCHANGED cnt
  BY DEF PersistFails, End
<1>7. sessions[s].off \in Nat BY <1>2 DEF SessionRec
<1> HIDE DEF r
<1>8. usage' \in Nat /\ usage' <= usage + r.off - sessions[s].off /\ r.off <= Size(s)
  BY <1>1, <1>3, <1>5, <1>7
<1>9. /\ cnt' \in [made : Nat, sent : Nat, faults : Nat, epoch : Nat]
      /\ cnt'.made = cnt.made /\ cnt'.epoch = cnt.epoch
  BY <1>6, CountFault DEF UploadInv
<1>10. PICK c \in Seq(Nat) : temp' = [temp EXCEPT ![s] = c] BY <1>1, <1>6
<1>11. /\ DOMAIN temp' = DOMAIN temp /\ s \in DOMAIN temp /\ \A x \in DOMAIN temp' : temp'[x] \in Seq(Nat)
  <2>1. s \in DOMAIN temp /\ \A x \in DOMAIN temp : temp[x] \in Seq(Nat)
    BY <1>1 DEF UploadInv, UploadTyped, SessionsOK, Open
  <2> QED BY <1>10, <2>1
<1> QED BY <1>1, <1>3, <1>4, <1>6, <1>8, <1>9, <1>11, AppendedStep

LEMMA AppendLastStep ==
    ASSUME UploadInv, NEW p \in Patches, AppendLast(p)
    PROVE  UploadInv'
<1> PICK s : s = patch[p].sid OBVIOUS
<1>1. /\ s \in Open /\ patch[p].off = sessions[s].off /\ patch[p].off \in Nat /\ patch[p].len \in Nat
      /\ temp[s] \o Body(p) \in Seq(Nat)
  BY FitsMeans DEF AppendLast
<1>2. sessions[s] \in SessionRec /\ s \in Live /\ sessions[s].up.data \in Seq(Nat)
  BY <1>1, FewSessions DEF UploadInv, UploadTyped, Open
<1>3. PICK id \in Seq(Nat) : id = IF sessions[s].up.named THEN sessions[s].up.data ELSE temp[s] \o Body(p)
  BY <1>1, <1>2
<1> DEFINE r == [sessions[s] EXCEPT !.off = @ + patch[p].len, !.st = "completed", !.obj = id]
<1>4. r \in SessionRec /\ r.up = sessions[s].up /\ r.off = sessions[s].off + patch[p].len /\ r.st = "completed"
  <2>1. PICK m \in Nat : m = sessions[s].off + patch[p].len BY <1>1
  <2>2. r = [sessions[s] EXCEPT !.off = m, !.st = "completed", !.obj = id] BY <1>2, <2>1 DEF SessionRec
  <2> HIDE DEF r
  <2>3. r \in SessionRec /\ r.up = sessions[s].up /\ r.off = m /\ r.st = "completed"
    <3> PICK x \in SessionRec : x = sessions[s] BY <1>2
    <3>1. r = [x EXCEPT !.off = m, !.st = "completed", !.obj = id] BY <2>2
    <3>2. r \in SessionRec /\ r.up = x.up /\ r.off = m /\ r.st = "completed" BY <3>1 DEF SessionRec
    <3> QED BY <3>2
  <2> QED BY <2>1, <2>3
<1>5. sessions' = [sessions EXCEPT ![s] = r]
  <2>1. sessions' = [Patched(s, patch[p].len) EXCEPT ![s].st = "completed", ![s].obj = id]
    BY <1>3 DEF AppendLast
  <2> QED BY <1>2, <2>1 DEF Patched, Live, SessionRec
<1>6. usage' = Less(usage, Size(s)) /\ usage \in Nat /\ Size(s) \in Nat
  BY <1>2, FewSessions DEF AppendLast, UploadInv, UploadTyped
<1>7. /\ patch' = [patch EXCEPT ![p] = NoPatch] /\ older' = Touch(s) /\ aged' = aged \ {s}
      /\ UNCHANGED <<keyIndex, cnt>> /\ RemoveTemp([temp EXCEPT ![s] = temp[s] \o Body(p)], {s})
  BY DEF AppendLast, End
<1> HIDE DEF r
<1>8. r.off = Size(s) /\ r.off <= Size(s) BY <1>4, <1>6 DEF AppendLast
<1>9. usage' \in Nat BY <1>6 DEF Less
<1>10. /\ cnt' \in [made : Nat, sent : Nat, faults : Nat, epoch : Nat]
       /\ cnt'.made = cnt.made /\ cnt'.epoch = cnt.epoch
  BY <1>7, CountFault DEF UploadInv
<1>11. r.st \notin {"pending", "uploading"} BY <1>4
<1>12. /\ DOMAIN temp' \subseteq DOMAIN temp /\ DOMAIN temp \ {s} \subseteq DOMAIN temp'
       /\ \A x \in DOMAIN temp' : temp'[x] \in Seq(Nat)
       /\ unclean \subseteq unclean' /\ (s \in DOMAIN temp' => s \in unclean')
  <2>1. PICK c \in Seq(Nat) : c = temp[s] \o Body(p) BY <1>1
  <2>2. PICK files : files = [temp EXCEPT ![s] = c] OBVIOUS
  <2>3. DOMAIN files = DOMAIN temp /\ \A x \in DOMAIN files : files[x] \in Seq(Nat)
    BY <2>2 DEF UploadInv, UploadTyped
  <2>4. RemoveTemp(files, {s}) BY <1>7, <2>1, <2>2
  <2> QED BY <2>3, <2>4, RemoveTempMeans
<1> QED BY <1>1, <1>4, <1>5, <1>6, <1>7, <1>8, <1>9, <1>10, <1>11, <1>12, AppendedStep

\* A step that changes only what a session remembers of failures and removals,
\* or ends a handler.
LEMMA FlagStep ==
    ASSUME UploadInv, UNCHANGED <<keyIndex, usage, older, aged, unclean>>, DOMAIN sessions' = DOMAIN sessions,
           \A x \in Live : /\ sessions'[x] \in SessionRec /\ sessions'[x].up = sessions[x].up
                           /\ sessions'[x].st = sessions[x].st /\ sessions'[x].off = sessions[x].off,
           DOMAIN temp' = DOMAIN temp, \A x \in DOMAIN temp : temp'[x] \in Seq(Nat),
           cnt' \in [made : Nat, sent : Nat, faults : Nat, epoch : Nat],
           cnt'.made = cnt.made, cnt'.epoch = cnt.epoch,
           patch' \in [Patches -> PatchRec], \A q \in Patches : patch'[q] \in {patch[q], NoPatch}
    PROVE  UploadInv'
<1> USE DEF UploadInv
<1>1. Live' = Live BY DEF Live
<1>2. \A x \in Live : Size(x)' = Size(x) /\ (Active(x)' <=> Active(x)) BY DEF Size, Active
<1>3. Open' = Open BY <1>1, <1>2 DEF Open
<1>4. UploadTyped' BY <1>1 DEF UploadTyped
<1>5. SessionsOK' BY <1>1, <1>2 DEF SessionsOK
<1>6. PatchesOK' BY NoPatchOK DEF PatchesOK
<1>7. OrderOK' /\ KeysOK' BY <1>1 DEF OrderOK, KeysOK
<1>8. NoOrphanTemp' /\ (aged \subseteq Open)' BY <1>1, <1>2, <1>3 DEF NoOrphanTemp
<1>9. UsageNotLeaked'
  <2> PICK f : f = sessions' OBVIOUS
  <2>1. \A x \in Open : f[x].off = sessions[x].off BY DEF Open
  <2>2. Received(f, Open) = Received(sessions, Open) BY <2>1, ReceivedSame
  <2>3. Bytes(Open)' = Bytes(Open) BY <1>3, <2>2 DEF Bytes
  <2> QED BY <2>3 DEF UsageNotLeaked, Open
<1> QED BY <1>4, <1>5, <1>6, <1>7, <1>8, <1>9

LEMMA AppendFailsStep ==
    ASSUME UploadInv, NEW p \in Patches, AppendFails(p)
    PROVE  UploadInv'
<1> USE DEF UploadInv
<1> PICK s : s = patch[p].sid OBVIOUS
<1>1. s \in Open /\ s \in DOMAIN temp /\ temp[s] \in Seq(Nat) /\ Body(p) \in Seq(Nat)
      /\ patch[p].len \in Nat
  BY FitsMeans DEF AppendFails
<1>2. PICK j \in 0 .. patch[p].len :
          /\ temp' = [temp EXCEPT ![s] = temp[s] \o SubSeq(Body(p), 1, j)]
          /\ sessions' = [sessions EXCEPT ![s].torn = @ \/ j > 0]
  BY DEF AppendFails
<1>3. Len(Body(p)) = patch[p].len
  <2>1. /\ patch[p].off \in Nat /\ patch[p].len \in Nat /\ patch[p].off + patch[p].len <= Size(s)
        /\ sessions[s].up.data \in Seq(Nat)
    BY <1>1, FitsMeans, FewSessions DEF AppendFails, Open
  <2> PICK d \in Seq(Nat), a \in Nat, n \in Nat : d = sessions[s].up.data /\ a = patch[p].off /\ n = patch[p].len
    BY <2>1
  <2>2. a + n <= Len(d) BY <2>1 DEF Size
  <2>3. Len(SubSeq(d, a + 1, a + n)) = n BY <2>2, PartLen
  <2> QED BY <2>3 DEF Body
<1>4. SubSeq(Body(p), 1, j) \in Seq(Nat)
  <2> PICK d \in Seq(Nat) : d = Body(p) BY <1>1
  <2>1. j \in Nat /\ 0 + j <= Len(d) BY <1>1, <1>3
  <2>2. SubSeq(d, 0 + 1, 0 + j) \in Seq(Nat) BY <2>1, PartIsSeq
  <2>3. 0 + 1 = 1 /\ 0 + j = j BY <2>1
  <2> QED BY <2>2, <2>3
<1>5. PICK c \in Seq(Nat) : temp' = [temp EXCEPT ![s] = c]
  <2>1. temp[s] \o SubSeq(Body(p), 1, j) \in Seq(Nat) BY <1>1, <1>4
  <2> QED BY <1>2, <2>1
<1>6. UNCHANGED <<keyIndex, usage, older, aged, unclean>> /\ patch' = [patch EXCEPT ![p] = NoPatch]
  BY DEF AppendFails, End
<1>7. /\ cnt' \in [made : Nat, sent : Nat, faults : Nat, epoch : Nat]
      /\ cnt'.made = cnt.made /\ cnt'.epoch = cnt.epoch
  BY CountFault DEF AppendFails
<1>8. DOMAIN temp' = DOMAIN temp /\ \A x \in DOMAIN temp : temp'[x] \in Seq(Nat)
  BY <1>5 DEF UploadTyped
<1>9. s \in Live /\ sessions[s] \in SessionRec BY <1>1 DEF Open, UploadTyped
<1>10. PICK b \in BOOLEAN : sessions' = [sessions EXCEPT ![s].torn = b]
  <2>1. PICK b : b = (sessions[s].torn \/ j > 0) OBVIOUS
  <2>2. b \in BOOLEAN BY <1>9, <2>1 DEF SessionRec
  <2>3. sessions' = [sessions EXCEPT ![s].torn = sessions[s].torn \/ j > 0] BY <1>2
  <2> QED BY <2>1, <2>2, <2>3
<1>11. DOMAIN sessions' = DOMAIN sessions
       /\ \A x \in Live : /\ sessions'[x] \in SessionRec /\ sessions'[x].up = sessions[x].up
                           /\ sessions'[x].st = sessions[x].st /\ sessions'[x].off = sessions[x].off
  BY <1>9, <1>10 DEF Live, SessionRec, UploadTyped
<1>12. patch' \in [Patches -> PatchRec] /\ \A q \in Patches : patch'[q] \in {patch[q], NoPatch}
  BY <1>6, NoPatchOK DEF UploadTyped
<1> QED BY <1>6, <1>7, <1>8, <1>11, <1>12, FlagStep

LEMMA RemoveStoredStep ==
    ASSUME UploadInv, NEW c \in chunks, RemoveStored(c)
    PROVE  UploadInv'
<1> USE DEF UploadInv
<1>1. /\ UNCHANGED <<keyIndex, usage, temp, older, aged, unclean, patch, cnt>>
      /\ sessions' = [x \in Live |-> [sessions[x] EXCEPT !.lost = @ \/ (~Active(x) /\ sessions[x].obj = c)]]
  BY DEF RemoveStored
<1>2. ASSUME NEW x \in Live
      PROVE  /\ sessions'[x] \in SessionRec /\ sessions'[x].up = sessions[x].up
             /\ sessions'[x].st = sessions[x].st /\ sessions'[x].off = sessions[x].off
  <2>1. sessions[x] \in SessionRec BY DEF UploadTyped
  <2>2. PICK b : b = (sessions[x].lost \/ (~Active(x) /\ sessions[x].obj = c)) OBVIOUS
  <2>3. b \in BOOLEAN BY <2>2
  <2>4. sessions'[x] = [sessions[x] EXCEPT !.lost = b] BY <1>1, <2>1, <2>2 DEF SessionRec
  <2> QED BY <2>1, <2>3, <2>4 DEF SessionRec
<1>3. DOMAIN sessions' = DOMAIN sessions BY <1>1 DEF Live
<1>4. patch' \in [Patches -> PatchRec] /\ \A q \in Patches : patch'[q] \in {patch[q], NoPatch}
  BY <1>1 DEF UploadTyped
<1>5. /\ cnt' \in [made : Nat, sent : Nat, faults : Nat, epoch : Nat]
      /\ cnt'.made = cnt.made /\ cnt'.epoch = cnt.epoch
  BY <1>1 DEF UploadTyped
<1>6. DOMAIN temp' = DOMAIN temp /\ \A x \in DOMAIN temp : temp'[x] \in Seq(Nat)
  BY <1>1 DEF UploadTyped
<1> QED BY <1>1, <1>2, <1>3, <1>4, <1>5, <1>6, FlagStep

\* What is left when the sessions S leave, and a session r for u comes if there
\* is one: ids are new, and a new unfinished session has received nothing.
LEMMA LeftBytes ==
    ASSUME UploadTyped, NEW S, S \subseteq Open, NEW f, NEW A,
           \A x \in Open \ S : f[x].off = sessions[x].off,
           Open \ S \subseteq A, \A x \in A \ (Open \ S) : f[x].off = 0
    PROVE  Cardinality(Received(f, A)) = Bytes(Open \ S)
<1>1. Received(f, Open \ S) = Received(sessions, Open \ S) BY ReceivedSame
<1>2. Received(f, A) = Received(f, Open \ S)
  <2>1. \A x \in A \ (Open \ S) : 1 .. f[x].off = {} OBVIOUS
  <2>2. \A y \in Received(f, A) : y \in Received(f, Open \ S)
    <3> SUFFICES ASSUME NEW x \in A, NEW y \in {x} \X (1 .. f[x].off) PROVE y \in Received(f, Open \ S)
      BY DEF Received
    <3>1. x \in Open \ S BY <2>1
    <3> QED BY <3>1 DEF Received
  <2>3. \A y \in Received(f, Open \ S) : y \in Received(f, A) BY DEF Received
  <2> QED BY <2>2, <2>3
<1> QED BY <1>1, <1>2 DEF Bytes

LEMMA DropStep ==
    ASSUME UploadInv, NEW S, S \subseteq Open, Drop(S), UNCHANGED patch, Fault \/ UNCHANGED cnt,
           usage' \in Nat, usage' <= Bytes(Open \ S)
    PROVE  UploadInv'
<1> USE DEF UploadInv
<1>1. /\ Live' = Live \ S /\ \A x \in Live' : sessions'[x] = sessions[x]
      /\ DOMAIN temp' \subseteq DOMAIN temp /\ DOMAIN temp \ S \subseteq DOMAIN temp'
      /\ \A x \in DOMAIN temp' : temp'[x] = temp[x] /\ (x \in S => x \in unclean')
      /\ unclean \subseteq unclean'
      /\ older' = Among(Live \ S) /\ aged' = aged \ S
      /\ cnt' \in [made : Nat, sent : Nat, faults : Nat, epoch : Nat]
      /\ cnt'.made = cnt.made /\ cnt'.epoch = cnt.epoch
  <2>1. RemoveTemp(temp, S) BY DEF Drop
  <2>2. /\ DOMAIN temp' \subseteq DOMAIN temp /\ DOMAIN temp \ S \subseteq DOMAIN temp'
        /\ \A x \in DOMAIN temp' : temp'[x] = temp[x] /\ (x \in S => x \in unclean')
        /\ unclean \subseteq unclean'
    BY <2>1, RemoveTempMeans
  <2>3. Live' = Live \ S /\ \A x \in Live' : sessions'[x] = sessions[x] BY DEF Drop, Without, Live
  <2>4. older' = Among(Live \ S) /\ aged' = aged \ S BY DEF Drop
  <2> QED BY <2>2, <2>3, <2>4, CountFault
<1>2. /\ DOMAIN keyIndex' = DOMAIN keyIndex \ {Key(sessions[s].up) : s \in S}
      /\ \A k \in DOMAIN keyIndex' : keyIndex'[k] = keyIndex[k]
  BY DEF Drop, Without
<1>3. \A x \in Live' : Size(x)' = Size(x) /\ (Active(x)' <=> Active(x)) BY <1>1 DEF Size, Active
<1>4. UploadTyped' BY <1>1 DEF UploadTyped
<1>5. SessionsOK' BY <1>1, <1>3 DEF SessionsOK
<1>6. PatchesOK' BY <1>1, <1>3 DEF PatchesOK
<1>7. OrderOK' BY <1>1 DEF OrderOK, Among
<1>8. KeysOK'
  <2>1. \A x \in Live' : Key(sessions[x].up) \in DOMAIN keyIndex'
    <3> SUFFICES ASSUME NEW x \in Live', NEW y \in S, Key(sessions[x].up) = Key(sessions[y].up) PROVE FALSE
      BY <1>1, <1>2 DEF KeysOK
    <3>1. x \in Live /\ y \in Live /\ x # y BY <1>1 DEF Open
    <3> QED BY <3>1 DEF KeysOK
  <2>2. \A k \in DOMAIN keyIndex' : keyIndex[k] \in Live' BY <1>1, <1>2 DEF KeysOK
  <2> QED BY <1>1, <1>2, <2>1, <2>2 DEF KeysOK
<1>9. Open' = Open \ S BY <1>1, <1>3 DEF Open
<1>10. (aged \subseteq Open)' BY <1>1, <1>9
<1>11. NoOrphanTemp' BY <1>1, <1>3 DEF NoOrphanTemp
<1>12. UsageNotLeaked'
  <2> PICK f, A : f = sessions' /\ A = Open' OBVIOUS
  <2>1. \A x \in Open \ S : f[x].off = sessions[x].off BY <1>1 DEF Open
  <2>2. A = Open \ S BY <1>9
  <2>3. Cardinality(Received(f, A)) = Bytes(Open \ S) BY <2>1, <2>2, LeftBytes
  <2>4. Bytes(Open)' = Bytes(Open \ S) BY <2>3 DEF Bytes
  <2> QED BY <2>4 DEF UsageNotLeaked, Open
<1> QED BY <1>4, <1>5, <1>6, <1>7, <1>8, <1>10, <1>11, <1>12

LEMMA InsertStep ==
    ASSUME UploadInv, NEW S, S \subseteq Open, NEW u \in Uploads, Key(u) \notin DOMAIN keyIndex,
           NEW r \in SessionRec, r.up = u,
           Insert(u, Without(sessions, S), r), UNCHANGED patch,
           usage' \in Nat, usage' <= Bytes(Open \ S),
           DOMAIN temp' \subseteq DOMAIN temp \cup {cnt.made + 1}, DOMAIN temp \ S \subseteq DOMAIN temp',
           \A x \in DOMAIN temp' : temp'[x] \in Seq(Nat) /\ (x \in S => x \in unclean'),
           unclean \subseteq unclean',
           \/ /\ r.st \in {"pending", "uploading"} /\ r.off = 0 /\ cnt.made + 1 \in DOMAIN temp'
           \/ /\ r.st \notin {"pending", "uploading"} /\ r.off = Len(u.data)
              /\ cnt.made + 1 \in DOMAIN temp' => cnt.made + 1 \in unclean'
    PROVE  UploadInv'
<1> USE DEF UploadInv
<1> PICK id : id = cnt.made + 1 OBVIOUS
<1>1. /\ id \in Nat /\ cnt.made \in Nat /\ id \in 1 .. id
      /\ \A i \in 1 .. cnt.made : i # id /\ i \in 1 .. id
      /\ id \notin Live /\ id \notin DOMAIN temp
  BY DEF UploadTyped
<1>2. S \subseteq Live BY DEF Open
<1>3. /\ Live' = (Live \ S) \cup {id}
      /\ sessions'[id] = r /\ \A x \in Live \ S : sessions'[x] = sessions[x]
  BY <1>1 DEF Insert, With, Without, Live
<1>4. DOMAIN Without(sessions, S) = Live \ S BY DEF Without, Live
<1>5. older' = Among(Live \ S) \cup {<<x, id>> : x \in Live \ S} /\ aged' = aged \cap (Live \ S)
  BY <1>4 DEF Insert
<1>6. keyIndex' = With(Without(keyIndex, {Key(sessions[s].up) : s \in S}), Key(u), id)
  <2>1. Live \ (Live \ S) = S BY <1>2
  <2> QED BY <1>4, <2>1 DEF Insert
<1>7. /\ DOMAIN keyIndex' = (DOMAIN keyIndex \ {Key(sessions[s].up) : s \in S}) \cup {Key(u)}
      /\ keyIndex'[Key(u)] = id
      /\ \A k \in DOMAIN keyIndex' \ {Key(u)} : keyIndex'[k] = keyIndex[k]
  BY <1>6 DEF With, Without
<1>8. /\ cnt' \in [made : Nat, sent : Nat, faults : Nat, epoch : Nat]
      /\ cnt'.made = id /\ cnt'.epoch = cnt.epoch
  BY <1>1 DEF Insert, UploadTyped
<1>9. /\ \A x \in Live \ S : Size(x)' = Size(x) /\ (Active(x)' <=> Active(x))
      /\ Size(id)' = Len(u.data) /\ (Active(id)' <=> r.st \in {"pending", "uploading"})
  BY <1>3 DEF Size, Active
<1>10. Len(u.data) \in Nat /\ r.off \in Nat BY UploadAssumption DEF SessionRec
<1>11. /\ DOMAIN temp' \subseteq DOMAIN temp \cup {id} /\ DOMAIN temp \ S \subseteq DOMAIN temp'
       /\ r.st \in {"pending", "uploading"} => id \in DOMAIN temp'
       /\ id \in DOMAIN temp' => r.st \in {"pending", "uploading"} \/ id \in unclean'
  OBVIOUS
<1>12. UploadTyped'
  <2>1. Live' \subseteq 1 .. cnt'.made /\ DOMAIN temp' \subseteq 1 .. cnt'.made
    BY <1>1, <1>3, <1>8, <1>11 DEF UploadTyped
  <2>2. \A x \in Live' : sessions'[x] \in SessionRec BY <1>3 DEF UploadTyped
  <2>3. cnt'.epoch <= cnt'.made BY <1>1, <1>8 DEF UploadTyped
  <2> QED BY <1>8, <1>11, <2>1, <2>2, <2>3 DEF UploadTyped
<1>13. SessionsOK'
  <2>1. \A x \in Live \ S : /\ sessions'[x].off <= Size(x)'
                            /\ Active(x)' => x \in DOMAIN temp'
                            /\ ~Active(x)' => sessions'[x].off = Size(x)'
    BY <1>3, <1>9, <1>11 DEF SessionsOK
  <2>2. /\ sessions'[id].off <= Size(id)'
        /\ Active(id)' => id \in DOMAIN temp'
        /\ ~Active(id)' => sessions'[id].off = Size(id)'
    BY <1>3, <1>9, <1>10, <1>11
  <2> QED BY <1>3, <2>1, <2>2 DEF SessionsOK
<1>14. PatchesOK' BY <1>1, <1>3, <1>8, <1>9 DEF PatchesOK
<1>15. OrderOK' BY <1>1, <1>3, <1>5 DEF OrderOK, Among
<1>16. KeysOK'
  <2>1. \A x \in Live \ S : Key(sessions[x].up) \in DOMAIN keyIndex' \ {Key(u)}
    <3> SUFFICES ASSUME NEW x \in Live \ S, NEW y \in S, Key(sessions[x].up) = Key(sessions[y].up) PROVE FALSE
      BY <1>7 DEF KeysOK
    <3>1. x \in Live /\ y \in Live /\ x # y BY <1>2
    <3> QED BY <3>1 DEF KeysOK
  <2>2. \A k \in DOMAIN keyIndex' \ {Key(u)} : keyIndex[k] \in Live \ S BY <1>7 DEF KeysOK
  <2>3. Key(sessions'[id].up) = Key(u) BY <1>3
  <2>4. \A x \in Live \ S : sessions'[x].up = sessions[x].up BY <1>3
  <2>5. \A x \in Live' : Key(sessions'[x].up) \in DOMAIN keyIndex' /\ keyIndex'[Key(sessions'[x].up)] = x
    BY <1>3, <1>7, <2>1, <2>3, <2>4 DEF KeysOK
  <2>6. \A k \in DOMAIN keyIndex' : keyIndex'[k] \in Live' /\ Key(sessions'[keyIndex'[k]].up) = k
    BY <1>3, <1>7, <2>2, <2>3, <2>4 DEF KeysOK
  <2> QED BY <2>5, <2>6 DEF KeysOK, Live
<1>17. (aged \subseteq Open)' BY <1>3, <1>5, <1>9 DEF Open
<1>18. NoOrphanTemp'
  <2>1. \A x \in DOMAIN temp : x \in DOMAIN temp' =>
           x <= cnt'.epoch \/ x \in unclean' \/ (x \in Live' /\ Active(x)')
    BY <1>3, <1>8, <1>9 DEF NoOrphanTemp
  <2>2. id \in DOMAIN temp' => id \in unclean' \/ (id \in Live' /\ Active(id)') BY <1>3, <1>9, <1>11
  <2>3. \A x \in Live' : Active(x)' => x \in DOMAIN temp' BY <1>13 DEF SessionsOK
  <2> QED BY <1>11, <2>1, <2>2, <2>3 DEF NoOrphanTemp
<1>19. UsageNotLeaked'
  <2> PICK f, A : f = sessions' /\ A = Open' OBVIOUS
  <2>1. \A x \in Open \ S : f[x].off = sessions[x].off BY <1>3 DEF Open
  <2>2. Open \ S \subseteq A BY <1>3, <1>9 DEF Open
  <2>3. \A x \in A \ (Open \ S) : f[x].off = 0 BY <1>3, <1>9 DEF Open
  <2>4. Cardinality(Received(f, A)) = Bytes(Open \ S) BY <2>1, <2>2, <2>3, LeftBytes
  <2>5. Bytes(Open)' = Bytes(Open \ S) BY <2>4 DEF Bytes
  <2> QED BY <2>5 DEF UsageNotLeaked, Open
<1> QED BY <1>12, <1>13, <1>14, <1>15, <1>16, <1>17, <1>18, <1>19

\* A session as Session makes it.
LEMMA NewSession ==
    ASSUME NEW u \in Uploads, NEW off \in Nat
    PROVE  \A st \in {"pending", "completed", "skipped"} :
              LET r == Session(u, st, off)
              IN  r \in SessionRec /\ r.up = u /\ r.st = st /\ r.off = off
<1>1. u.data \in Seq(Nat) /\ <<>> \in Seq(Nat) BY UploadAssumption
<1> SUFFICES ASSUME NEW st \in {"pending", "completed", "skipped"}
             PROVE  LET r == Session(u, st, off)
                    IN  r \in SessionRec /\ r.up = u /\ r.st = st /\ r.off = off
  OBVIOUS
<1>2. PICK o \in Seq(Nat) : o = IF st = "skipped" THEN u.data ELSE <<>> BY <1>1
<1>3. Session(u, st, off) = [up |-> u, st |-> st, off |-> off, obj |-> o, torn |-> FALSE, lost |-> FALSE]
  BY <1>2 DEF Session
<1> QED BY <1>3 DEF SessionRec

\* The files with that of a new session.
LEMMA NewFiles ==
    ASSUME UploadInv, NEW gone, gone \subseteq Open
    PROVE  \E files : /\ files = With(temp, cnt.made + 1, <<>>)
                      /\ DOMAIN files = DOMAIN temp \cup {cnt.made + 1}
                      /\ \A x \in DOMAIN files : files[x] \in Seq(Nat)
                      /\ cnt.made + 1 \notin gone /\ cnt.made + 1 \notin DOMAIN temp
                      /\ files[cnt.made + 1] = <<>> /\ \A x \in DOMAIN temp : files[x] = temp[x]
<1>1. /\ cnt.made + 1 \notin gone /\ cnt.made + 1 \notin DOMAIN temp
      /\ \A x \in DOMAIN temp : temp[x] \in Seq(Nat)
  BY DEF UploadInv, UploadTyped, Open
<1>2. <<>> \in Seq(Nat) OBVIOUS
<1>3. PICK files : files = With(temp, cnt.made + 1, <<>>) OBVIOUS
<1>4. /\ DOMAIN files = DOMAIN temp \cup {cnt.made + 1}
      /\ files[cnt.made + 1] = <<>> /\ \A x \in DOMAIN temp : files[x] = temp[x]
  BY <1>1, <1>3 DEF With
<1> QED BY <1>1, <1>2, <1>3, <1>4

LEMMA CreateStep ==
    ASSUME UploadInv, NEW u \in Uploads, Create(u)
    PROVE  UploadInv'
<1> DEFINE stale == Stale(u)
           used == Less(usage, Bytes(stale))
           size == Len(u.data)
           out == IF used + size > Quota THEN Evicted(used + size - Quota, stale) ELSE {}
           free == Less(used, Bytes(out))
           gone == stale \cup out
<1>1. stale \subseteq Open BY DEF Stale, Open
<1>2. out \subseteq Open \ stale BY DEF Evicted, Open
<1>3. size \in Nat /\ 0 \in Nat BY UploadAssumption
<1>4. UNCHANGED patch BY DEF Create
<1>5. \/ /\ Drop(stale) /\ usage' = used /\ UNCHANGED cnt
      \/ /\ Key(u) \notin DOMAIN keyIndex
         /\ Insert(u, Without(sessions, stale), Session(u, "skipped", size))
         /\ RemoveTemp(temp, stale) /\ usage' = used
      \/ /\ Key(u) \notin DOMAIN keyIndex /\ Allocate(u, gone) /\ usage' = free
      \/ /\ Drop(gone) /\ usage' = free /\ (Fault \/ UNCHANGED cnt)
  BY DEF Create
<1> HIDE DEF stale, out, size
<1>6. used \in Nat /\ used <= Bytes(Open \ stale)
  <2>1. usage \in Nat /\ usage <= Bytes(Open) BY DEF UploadInv, UploadTyped, UsageNotLeaked, Open
  <2> QED BY <1>1, <2>1, Freed DEF UploadInv
<1> HIDE DEF used
<1>7. free \in Nat /\ free <= Bytes(Open \ gone)
  <2>1. (Open \ stale) \ out = Open \ gone OBVIOUS
  <2>2. free \in Nat /\ free <= Bytes((Open \ stale) \ out) BY <1>2, <1>6, Freed DEF UploadInv
  <2> QED BY <2>1, <2>2
<1>8. gone \subseteq Open BY <1>1, <1>2
<1> HIDE DEF free, gone
<1>9. CASE Drop(stale) /\ usage' = used /\ UNCHANGED cnt
  BY <1>1, <1>4, <1>6, <1>9, DropStep
<1>10. CASE Drop(gone) /\ usage' = free /\ (Fault \/ UNCHANGED cnt)
  BY <1>4, <1>7, <1>8, <1>10, DropStep
<1>11. CASE /\ Key(u) \notin DOMAIN keyIndex
            /\ Insert(u, Without(sessions, stale), Session(u, "skipped", size))
            /\ RemoveTemp(temp, stale) /\ usage' = used
  <2> PICK r : r = Session(u, "skipped", size) OBVIOUS
  <2>1. r \in SessionRec /\ r.up = u /\ r.st = "skipped" /\ r.off = size BY <1>3, NewSession
  <2>2. r.st \notin {"pending", "uploading"} /\ r.off = Len(u.data) BY <2>1 DEF size
  <2>3. Insert(u, Without(sessions, stale), r) BY <1>11
  <2>4. /\ DOMAIN temp' \subseteq DOMAIN temp /\ DOMAIN temp \ stale \subseteq DOMAIN temp'
        /\ \A x \in DOMAIN temp' : temp'[x] = temp[x] /\ (x \in stale => x \in unclean')
        /\ unclean \subseteq unclean'
    BY <1>11, RemoveTempMeans
  <2>5. \A x \in DOMAIN temp : temp[x] \in Seq(Nat) /\ x # cnt.made + 1 BY DEF UploadInv, UploadTyped
  <2> QED BY <1>1, <1>4, <1>6, <1>11, <2>1, <2>2, <2>3, <2>4, <2>5, InsertStep
<1>12. CASE Key(u) \notin DOMAIN keyIndex /\ Allocate(u, gone) /\ usage' = free
  <2>0. PICK files : /\ files = With(temp, cnt.made + 1, <<>>)
                     /\ DOMAIN files = DOMAIN temp \cup {cnt.made + 1}
                     /\ \A x \in DOMAIN files : files[x] \in Seq(Nat)
                     /\ cnt.made + 1 \notin gone /\ cnt.made + 1 \notin DOMAIN temp
                     /\ files[cnt.made + 1] = <<>> /\ \A x \in DOMAIN temp : files[x] = temp[x]
    BY <1>8, NewFiles
  <2>1. CASE u.data = <<>>
    <3> PICK r : r = Session(u, "completed", 0) OBVIOUS
    <3>1. r \in SessionRec /\ r.up = u /\ r.st = "completed" /\ r.off = 0 BY <1>3, NewSession
    <3>2. r.st \notin {"pending", "uploading"} /\ r.off = Len(u.data) BY <2>1, <3>1
    <3>3. Insert(u, Without(sessions, gone), r) /\ RemoveTemp(files, gone \cup {cnt.made + 1})
      BY <1>12, <2>1, <2>0 DEF Allocate
    <3>4. /\ DOMAIN temp' \subseteq DOMAIN files /\ DOMAIN files \ (gone \cup {cnt.made + 1}) \subseteq DOMAIN temp'
          /\ \A x \in DOMAIN temp' : temp'[x] = files[x] /\ (x \in gone \cup {cnt.made + 1} => x \in unclean')
          /\ unclean \subseteq unclean'
      BY <3>3, RemoveTempMeans
    <3>5. DOMAIN temp \ gone \subseteq DOMAIN temp' BY <2>0, <3>4
    <3> QED BY <1>4, <1>7, <1>8, <1>12, <2>0, <3>1, <3>2, <3>3, <3>4, <3>5, InsertStep
  <2>2. CASE u.data # <<>>
    <3> PICK r : r = Session(u, "pending", 0) OBVIOUS
    <3>1. r \in SessionRec /\ r.up = u /\ r.st = "pending" /\ r.off = 0 BY <1>3, NewSession
    <3>2. r.st \in {"pending", "uploading"} BY <3>1
    <3>3. Insert(u, Without(sessions, gone), r) /\ RemoveTemp(files, gone)
      BY <1>12, <2>2, <2>0 DEF Allocate
    <3>4. /\ DOMAIN temp' \subseteq DOMAIN files /\ DOMAIN files \ gone \subseteq DOMAIN temp'
          /\ \A x \in DOMAIN temp' : temp'[x] = files[x] /\ (x \in gone => x \in unclean')
          /\ unclean \subseteq unclean'
      BY <3>3, RemoveTempMeans
    <3>5. DOMAIN temp \ gone \subseteq DOMAIN temp' /\ cnt.made + 1 \in DOMAIN temp'
      BY <2>0, <3>4
    <3> QED BY <1>4, <1>7, <1>8, <1>12, <2>0, <3>1, <3>2, <3>3, <3>4, <3>5, InsertStep
  <2> QED BY <2>1, <2>2
<1> QED BY <1>5, <1>9, <1>10, <1>11, <1>12

LEMMA ExpireStep ==
    ASSUME UploadInv, Expire
    PROVE  UploadInv'
<1>1. aged \subseteq Open BY DEF UploadInv
<1>2. usage \in Nat /\ usage <= Bytes(Open) BY DEF UploadInv, UploadTyped, UsageNotLeaked, Open
<1>3. Less(usage, Bytes(aged)) \in Nat /\ Less(usage, Bytes(aged)) <= Bytes(Open \ aged)
  BY <1>1, <1>2, Freed DEF UploadInv
<1>4. Drop(aged) /\ usage' = Less(usage, Bytes(aged)) /\ UNCHANGED <<patch, cnt>> BY DEF Expire
<1>5. usage' \in Nat /\ usage' <= Bytes(Open \ aged) BY <1>3, <1>4
<1> QED BY <1>1, <1>4, <1>5, DropStep

LEMMA AgeStep ==
    ASSUME UploadInv, NEW s \in Live, Age(s)
    PROVE  UploadInv'
<1> USE DEF UploadInv
<1>1. UNCHANGED <<sessions, keyIndex, usage, temp, older, unclean, patch, cnt>> /\ aged' = aged \cup {s} /\ Active(s)
  BY DEF Age
<1>2. UploadTyped' /\ PatchesOK' BY <1>1 DEF UploadTyped, PatchesOK, Live, Size
<1>3. SessionsOK' BY <1>1 DEF SessionsOK, Live, Size, Active
<1>4. OrderOK' /\ KeysOK' BY <1>1 DEF OrderOK, KeysOK, Live
<1>5. NoOrphanTemp' /\ (aged \subseteq Open)' BY <1>1 DEF NoOrphanTemp, Open, Live, Active
<1>6. UsageNotLeaked' BY <1>1 DEF UsageNotLeaked, Bytes, Live, Active
<1> QED BY <1>2, <1>3, <1>4, <1>5, <1>6

LEMMA RestartStep ==
    ASSUME UploadInv, Restart
    PROVE  UploadInv'
<1> USE DEF UploadInv
<1>1. /\ Live' = {} /\ DOMAIN keyIndex' = {} /\ usage' = 0 /\ older' = {} /\ aged' = {}
      /\ patch' = [p \in Patches |-> NoPatch] /\ UNCHANGED <<temp, unclean>>
  BY DEF Restart, Without, Live
<1>2. /\ cnt' \in [made : Nat, sent : Nat, faults : Nat, epoch : Nat]
      /\ cnt'.made = cnt.made /\ cnt'.epoch = cnt.made
  BY DEF Restart, UploadTyped
<1>3. UploadTyped' BY <1>1, <1>2, NoPatchOK DEF UploadTyped
<1>4. SessionsOK' /\ PatchesOK' /\ OrderOK' /\ KeysOK' /\ (aged \subseteq Open)'
  BY <1>1, NoPatchOK DEF SessionsOK, PatchesOK, OrderOK, KeysOK
<1>5. NoOrphanTemp' BY <1>1, <1>2 DEF NoOrphanTemp, UploadTyped
<1>6. UsageNotLeaked'
  <2>1. Open' = {} BY <1>1 DEF Open
  <2>2. \A f : Received(f, {}) = {} BY DEF Received
  <2>3. Bytes(Open)' = 0 BY <2>1, <2>2, FS_EmptySet DEF Bytes
  <2> QED BY <1>1, <2>3 DEF UsageNotLeaked, Open
<1> QED BY <1>3, <1>4, <1>5, <1>6

LEMMA UploadStutter == UploadInv /\ UNCHANGED uvars => UploadInv'
<1> SUFFICES ASSUME UploadInv, UNCHANGED uvars PROVE UploadInv' OBVIOUS
<1> USE DEF UploadInv, uvars
<1>1. UploadTyped' /\ PatchesOK' BY DEF UploadTyped, PatchesOK, Live, Size
<1>2. SessionsOK' BY DEF SessionsOK, Live, Size, Active
<1>3. OrderOK' /\ KeysOK' BY DEF OrderOK, KeysOK, Live
<1>4. NoOrphanTemp' /\ (aged \subseteq Open)' BY DEF NoOrphanTemp, Open, Live, Active
<1>5. UsageNotLeaked' BY DEF UsageNotLeaked, Bytes, Live, Active
<1> QED BY <1>1, <1>2, <1>3, <1>4, <1>5

LEMMA UploadStep == UploadInv /\ UploadNext => UploadInv'
<1> SUFFICES ASSUME UploadInv, UploadNext PROVE UploadInv' OBVIOUS
<1>1. ASSUME NEW u \in Uploads, Create(u) PROVE UploadInv' BY <1>1, CreateStep
<1>2. ASSUME NEW p \in Patches, NEW s \in Live, NEW off \in 0 .. Size(s), NEW len \in 1 .. Size(s),
             Send(p, s, off, len)
      PROVE  UploadInv'
  BY <1>2, SendStep
<1>3. ASSUME NEW p \in Patches, \/ FirstLook(p) \/ SecondLook(p) \/ Refused(p)
      PROVE UploadInv'
  BY <1>3, LookStep
<1>4. ASSUME NEW p \in Patches, \/ AppendFails(p) \/ AppendMore(p) \/ AppendLast(p) \/ PersistFails(p)
      PROVE UploadInv'
  BY <1>4, AppendFailsStep, AppendMoreStep, AppendLastStep, PersistFailsStep
<1>5. ASSUME NEW s \in Live, Age(s) PROVE UploadInv' BY <1>5, AgeStep
<1>6. ASSUME NEW c \in chunks, RemoveStored(c) PROVE UploadInv' BY <1>6, RemoveStoredStep
<1> QED BY <1>1, <1>2, <1>3, <1>4, <1>5, <1>6, ExpireStep, RestartStep DEF UploadNext

\* The index, the order of use, the quota and the temporary files describe the
\* same sessions for any uploads, quota and number of PATCHes in flight,
\* whatever expires, is evicted, fails or is restarted (UploadBooks).
THEOREM UploadBooksHolds == UploadSpec => []UploadBooks
<1>1. UploadInv /\ [UploadNext]_uvars => UploadInv' BY UploadStep, UploadStutter
<1> QED BY <1>1, UploadInitial, InvGivesUploadBooks, PTL DEF UploadSpec
-----------------------------------------------------------------------------
(* What an upload stores.                                                    *)

\* The file t of a session that received off bytes of d holds them.
FileOK(t, d, off) == t \in Seq(Nat) /\ Len(t) = off /\ \A i \in 1 .. off : t[i] = d[i]

\* ... unless an append failed part of the way.
FilesOK == \A s \in Open : ~sessions[s].torn => FileOK(temp[s], sessions[s].up.data, sessions[s].off)

ExactInv == UploadInv /\ FilesOK /\ CompleteExact

\* The bytes of a body.
LEMMA PartIs ==
    ASSUME NEW d \in Seq(Nat), NEW a \in Nat, NEW n \in Nat, a + n <= Len(d), NEW b, b = SubSeq(d, a + 1, a + n)
    PROVE  b \in Seq(Nat) /\ Len(b) = n /\ \A i \in 1 .. n : b[i] = d[a + i]
<1>1. b \in Seq(Nat) /\ Len(b) = n BY PartIsSeq, PartLen
<1>2. ASSUME NEW i \in 1 .. n PROVE b[i] = d[a + i]
  <2>1. i \in Nat /\ a + 1 + i - 1 = a + i OBVIOUS
  <2>2. b[i] = d[a + 1 + i - 1] OBVIOUS
  <2> QED BY <2>1, <2>2
<1> QED BY <1>1, <1>2

\* A sequence after another.
LEMMA JoinIs ==
    ASSUME NEW t \in Seq(Nat), NEW b \in Seq(Nat)
    PROVE  /\ t \o b \in Seq(Nat) /\ Len(t \o b) = Len(t) + Len(b)
           /\ \A i \in 1 .. Len(t) : (t \o b)[i] = t[i]
           /\ \A i \in 1 .. Len(b) : (t \o b)[Len(t) + i] = b[i]
OBVIOUS

\* A whole append.
LEMMA FileAppended ==
    ASSUME NEW d \in Seq(Nat), NEW t, NEW a \in Nat, NEW j \in Nat, a + j <= Len(d), FileOK(t, d, a),
           NEW b \in Seq(Nat), Len(b) = j, \A i \in 1 .. j : b[i] = d[a + i], NEW c, c = t \o b
    PROVE  FileOK(c, d, a + j)
<1>1. t \in Seq(Nat) /\ Len(t) = a /\ \A i \in 1 .. a : t[i] = d[i] BY DEF FileOK
<1>2. /\ c \in Seq(Nat) /\ Len(c) = a + j
      /\ \A i \in 1 .. a : c[i] = t[i]
      /\ \A i \in 1 .. j : c[a + i] = b[i]
  <2>1. /\ t \o b \in Seq(Nat) /\ Len(t \o b) = Len(t) + Len(b)
        /\ \A i \in 1 .. Len(t) : (t \o b)[i] = t[i]
        /\ \A i \in 1 .. Len(b) : (t \o b)[Len(t) + i] = b[i]
    BY <1>1, JoinIs
  <2> QED BY <1>1, <2>1
<1>3. ASSUME NEW i \in 1 .. a + j PROVE c[i] = d[i]
  <2>1. CASE i \in 1 .. a BY <1>1, <1>2, <2>1
  <2>2. CASE i \notin 1 .. a
    <3>1. PICK k \in 1 .. j : i = a + k
      <4>1. i \in Int /\ i > a /\ i <= a + j BY <2>2
      <4>2. i - a \in 1 .. j /\ i = a + (i - a) BY <4>1
      <4> QED BY <4>2
    <3>2. c[a + k] = b[k] /\ b[k] = d[a + k] BY <1>2
    <3> QED BY <3>1, <3>2
  <2> QED BY <2>1, <2>2
<1> QED BY <1>2, <1>3 DEF FileOK

\* A step that leaves the sessions it does not remove as they are.
LEMMA ExactKept ==
    ASSUME ExactInv, UNCHANGED chunks, Live' \subseteq Live,
           \A s \in Live' : sessions'[s] = sessions[s],
           \A s \in Open : s \in Live' => temp'[s] = temp[s]
    PROVE  FilesOK' /\ CompleteExact'
<1>1. \A s \in Live' : Size(s)' = Size(s) /\ (Active(s)' <=> Active(s)) BY DEF Size, Active
<1>2. \A s \in Open' : s \in Open /\ s \in Live' BY <1>1 DEF Open
<1>3. FilesOK' BY <1>2 DEF ExactInv, FilesOK
<1>4. CompleteExact' BY <1>1 DEF ExactInv, CompleteExact
<1> QED BY <1>3, <1>4

LEMMA QuietExact ==
    ASSUME ExactInv,
           \/ \E p \in Patches : FirstLook(p) \/ SecondLook(p) \/ Refused(p)
           \/ \E p \in Patches, s \in Live : \E off \in 0 .. Size(s), len \in 1 .. Size(s) : Send(p, s, off, len)
           \/ \E s \in Live : Age(s)
           \/ UNCHANGED uvars
    PROVE  FilesOK' /\ CompleteExact'
<1>1. UNCHANGED <<sessions, temp, chunks>>
  BY DEF FirstLook, SecondLook, Refused, Send, Age, uvars
<1>2. Live' = Live BY <1>1 DEF Live
<1> QED BY <1>1, <1>2, ExactKept

LEMMA DropExact ==
    ASSUME ExactInv, NEW S, Drop(S), UNCHANGED chunks
    PROVE  FilesOK' /\ CompleteExact'
<1>1. Live' = Live \ S /\ \A s \in Live' : sessions'[s] = sessions[s] BY DEF Drop, Without, Live
<1>2. \A s \in Open : s \in Live' => temp'[s] = temp[s]
  <2>1. \A s \in Open : s \in DOMAIN temp BY DEF ExactInv, UploadInv, SessionsOK, Open
  <2>2. /\ DOMAIN temp \ S \subseteq DOMAIN temp' /\ \A x \in DOMAIN temp' : temp'[x] = temp[x]
    BY RemoveTempMeans DEF Drop
  <2> QED BY <1>1, <2>1, <2>2
<1> QED BY <1>1, <1>2, ExactKept

LEMMA RestartExact ==
    ASSUME ExactInv, Restart
    PROVE  FilesOK' /\ CompleteExact'
<1>1. Live' = {} /\ UNCHANGED chunks BY DEF Restart, Without, Live
<1> QED BY <1>1, ExactKept

\* A body that fits continues the file of its session.
LEMMA BodyIs ==
    ASSUME ExactInv, NEW p \in Patches, patch[p].pc = "body", Fits(p)
    PROVE  \E s \in Open : \E d \in Seq(Nat), a \in Nat, n \in Nat :
              /\ s = patch[p].sid /\ d = sessions[s].up.data /\ a = sessions[s].off /\ n = patch[p].len
              /\ s \in Live /\ s \in DOMAIN temp /\ sessions[s] \in SessionRec /\ Size(s) = Len(d)
              /\ n >= 1 /\ a + n <= Len(d) /\ (~sessions[s].torn => FileOK(temp[s], d, a))
              /\ Body(p) \in Seq(Nat) /\ Len(Body(p)) = n /\ \A i \in 1 .. n : Body(p)[i] = d[a + i]
<1>0. PICK s, d, a, n : s = patch[p].sid /\ d = sessions[s].up.data /\ a = sessions[s].off /\ n = patch[p].len
  OBVIOUS
<1>1. /\ s \in Open /\ s \in DOMAIN temp /\ patch[p].off = a /\ a \in Nat /\ n \in Nat /\ a + n <= Size(s)
  BY <1>0, FitsMeans DEF ExactInv
<1>2. s \in Live /\ sessions[s] \in SessionRec BY <1>1 DEF Open, ExactInv, UploadInv, UploadTyped
<1>3. d \in Seq(Nat) /\ Size(s) = Len(d) BY <1>0, <1>2, FewSessions DEF ExactInv, UploadInv, Size
<1>4. n >= 1 BY <1>0, <1>2 DEF ExactInv, UploadInv, PatchesOK
<1>5. ~sessions[s].torn => FileOK(temp[s], d, a) BY <1>0, <1>1 DEF ExactInv, FilesOK
<1>6. Body(p) = SubSeq(d, a + 1, a + n) BY <1>0, <1>1 DEF Body
<1>7. a + n <= Len(d) BY <1>1, <1>3
<1>8. PICK b : b = SubSeq(d, a + 1, a + n) OBVIOUS
<1>9. b \in Seq(Nat) /\ Len(b) = n /\ \A i \in 1 .. n : b[i] = d[a + i]
  BY <1>1, <1>3, <1>7, <1>8, PartIs
<1>10. b = Body(p) BY <1>6, <1>8
<1> QED BY <1>0, <1>1, <1>2, <1>3, <1>4, <1>5, <1>7, <1>9, <1>10

LEMMA FailsExact ==
    ASSUME ExactInv, NEW p \in Patches, AppendFails(p)
    PROVE  FilesOK' /\ CompleteExact'
<1>0. PICK s : s = patch[p].sid OBVIOUS
<1>1. s \in Open /\ s \in Live /\ s \in DOMAIN temp /\ sessions[s] \in SessionRec
  BY <1>0, FitsMeans DEF AppendFails, ExactInv, UploadInv, UploadTyped, Open
<1>2. PICK j \in 0 .. patch[p].len :
          /\ temp' = [temp EXCEPT ![s] = temp[s] \o SubSeq(Body(p), 1, j)]
          /\ sessions' = [sessions EXCEPT ![s].torn = @ \/ j > 0]
  BY <1>0 DEF AppendFails
<1>3. /\ Live' = Live /\ \A x \in Live \ {s} : sessions'[x] = sessions[x]
      /\ sessions'[s].up = sessions[s].up /\ sessions'[s].st = sessions[s].st
      /\ sessions'[s].off = sessions[s].off /\ (sessions'[s].torn <=> sessions[s].torn \/ j > 0)
  <2>1. PICK b : b = (sessions[s].torn \/ j > 0) OBVIOUS
  <2>2. sessions' = [sessions EXCEPT ![s].torn = b] BY <1>2, <2>1
  <2> QED BY <1>1, <2>1, <2>2 DEF Live, SessionRec
<1>4. Open' = Open BY <1>3 DEF Open, Active
<1>5. \A x \in Open : x \in Live /\ x \in DOMAIN temp BY DEF Open, ExactInv, UploadInv, SessionsOK
<1>6. j = 0 => temp'[s] = temp[s]
  <2>1. temp[s] \in Seq(Nat) /\ Body(p) \in Seq(Nat)
    BY <1>0, FitsMeans DEF AppendFails, ExactInv
  <2>2. PICK t \in Seq(Nat), b \in Seq(Nat) : t = temp[s] /\ b = Body(p) BY <2>1
  <2>3. SubSeq(b, 1, 0) = <<>> OBVIOUS
  <2>4. t \o <<>> = t OBVIOUS
  <2> QED BY <1>1, <1>2, <2>2, <2>3, <2>4
<1>7. patch[p].len \in Nat BY DEF ExactInv, UploadInv, UploadTyped, PatchRec
<1>8. FilesOK'
  <2> SUFFICES ASSUME NEW x \in Open, ~sessions'[x].torn
               PROVE  FileOK(temp'[x], sessions'[x].up.data, sessions'[x].off)
    BY <1>4 DEF FilesOK
  <2>1. CASE x = s
    <3>1. ~sessions[s].torn /\ j = 0 BY <1>3, <1>7, <2>1
    <3> QED BY <1>3, <1>6, <2>1, <3>1 DEF ExactInv, FilesOK
  <2>2. CASE x # s
    <3>1. temp'[x] = temp[x] BY <1>2, <1>5, <2>2
    <3> QED BY <1>3, <1>5, <2>2, <3>1 DEF ExactInv, FilesOK
  <2> QED BY <2>1, <2>2
<1>9. CompleteExact'
  <2>1. sessions[s].st \notin {"completed", "skipped"} BY <1>1 DEF Open, Active
  <2> QED BY <1>3, <2>1 DEF ExactInv, CompleteExact, AppendFails, Size
<1> QED BY <1>8, <1>9

LEMMA MoreExact ==
    ASSUME ExactInv, NEW p \in Patches, AppendMore(p) \/ PersistFails(p)
    PROVE  FilesOK' /\ CompleteExact'
<1>a. PICK s \in Open : \E d \in Seq(Nat), a \in Nat, n \in Nat :
              /\ s = patch[p].sid /\ d = sessions[s].up.data /\ a = sessions[s].off /\ n = patch[p].len
              /\ s \in Live /\ s \in DOMAIN temp /\ sessions[s] \in SessionRec /\ Size(s) = Len(d)
              /\ n >= 1 /\ a + n <= Len(d) /\ (~sessions[s].torn => FileOK(temp[s], d, a))
              /\ Body(p) \in Seq(Nat) /\ Len(Body(p)) = n /\ \A i \in 1 .. n : Body(p)[i] = d[a + i]
  BY BodyIs DEF AppendMore, PersistFails
<1>b. PICK d \in Seq(Nat), a \in Nat, n \in Nat :
              /\ s = patch[p].sid /\ d = sessions[s].up.data /\ a = sessions[s].off /\ n = patch[p].len
              /\ s \in Live /\ s \in DOMAIN temp /\ sessions[s] \in SessionRec /\ Size(s) = Len(d)
              /\ n >= 1 /\ a + n <= Len(d) /\ (~sessions[s].torn => FileOK(temp[s], d, a))
              /\ Body(p) \in Seq(Nat) /\ Len(Body(p)) = n /\ \A i \in 1 .. n : Body(p)[i] = d[a + i]
  BY <1>a
<1>1. /\ s \in Open /\ s \in Live /\ s \in DOMAIN temp /\ sessions[s] \in SessionRec
      /\ d \in Seq(Nat) /\ a \in Nat /\ n \in Nat /\ a + n <= Len(d)
      /\ ~sessions[s].torn => FileOK(temp[s], d, a)
      /\ Body(p) \in Seq(Nat) /\ Len(Body(p)) = n /\ \A i \in 1 .. n : Body(p)[i] = d[a + i]
  BY <1>b
<1>2. ~sessions[s].torn => FileOK(temp[s] \o Body(p), d, a + n) BY <1>1, FileAppended
<1>3. /\ sessions' = Patched(s, n) /\ temp' = [temp EXCEPT ![s] = temp[s] \o Body(p)] /\ UNCHANGED chunks
  BY <1>b DEF AppendMore, PersistFails
<1>4. /\ Live' = Live /\ \A x \in Live : x # s => sessions'[x] = sessions[x]
      /\ sessions'[s].up.data = d /\ sessions'[s].off = a + n /\ sessions'[s].st = "uploading"
      /\ sessions'[s].torn = sessions[s].torn
  BY <1>b, <1>1, <1>3 DEF Patched, Live, SessionRec
<1>5. temp'[s] = temp[s] \o Body(p) /\ \A x \in DOMAIN temp : x # s => temp'[x] = temp[x] BY <1>1, <1>3
<1>6. Open' = Open BY <1>1, <1>4 DEF Open, Active
<1>7. \A x \in Open : x \in Live /\ x \in DOMAIN temp BY DEF Open, ExactInv, UploadInv, SessionsOK
<1>8. FilesOK'
  <2> SUFFICES ASSUME NEW x \in Open, ~sessions'[x].torn
               PROVE  FileOK(temp'[x], sessions'[x].up.data, sessions'[x].off)
    BY <1>6 DEF FilesOK
  <2>1. CASE x = s BY <1>2, <1>4, <1>5, <2>1
  <2>2. CASE x # s BY <1>4, <1>5, <1>7, <2>2 DEF ExactInv, FilesOK
  <2> QED BY <2>1, <2>2
<1>9. CompleteExact' BY <1>3, <1>4 DEF ExactInv, CompleteExact, Size
<1> QED BY <1>8, <1>9

\* A file with all bytes of a chunk is that chunk.
LEMMA ContentIs ==
    ASSUME NEW d \in Seq(Nat), NEW c, FileOK(c, d, Len(d))
    PROVE  c = d
<1>1. c \in Seq(Nat) /\ Len(c) = Len(d) /\ \A i \in 1 .. Len(d) : c[i] = d[i] BY DEF FileOK
<1>2. /\ c = [i \in 1 .. Len(c) |-> c[i]]
      /\ d = [i \in 1 .. Len(d) |-> d[i]]
  BY <1>1, SeqElements
<1> QED BY <1>1, <1>2

LEMMA LastExact ==
    ASSUME ExactInv, NEW p \in Patches, AppendLast(p)
    PROVE  FilesOK' /\ CompleteExact'
<1>a. PICK s \in Open : \E d \in Seq(Nat), a \in Nat, n \in Nat :
              /\ s = patch[p].sid /\ d = sessions[s].up.data /\ a = sessions[s].off /\ n = patch[p].len
              /\ s \in Live /\ s \in DOMAIN temp /\ sessions[s] \in SessionRec /\ Size(s) = Len(d)
              /\ n >= 1 /\ a + n <= Len(d) /\ (~sessions[s].torn => FileOK(temp[s], d, a))
              /\ Body(p) \in Seq(Nat) /\ Len(Body(p)) = n /\ \A i \in 1 .. n : Body(p)[i] = d[a + i]
  BY BodyIs DEF AppendLast
<1>b. PICK d \in Seq(Nat), a \in Nat, n \in Nat :
              /\ s = patch[p].sid /\ d = sessions[s].up.data /\ a = sessions[s].off /\ n = patch[p].len
              /\ s \in Live /\ s \in DOMAIN temp /\ sessions[s] \in SessionRec /\ Size(s) = Len(d)
              /\ n >= 1 /\ a + n <= Len(d) /\ (~sessions[s].torn => FileOK(temp[s], d, a))
              /\ Body(p) \in Seq(Nat) /\ Len(Body(p)) = n /\ \A i \in 1 .. n : Body(p)[i] = d[a + i]
  BY <1>a
<1>1. /\ s \in Open /\ s \in Live /\ s \in DOMAIN temp /\ sessions[s] \in SessionRec
      /\ d \in Seq(Nat) /\ Size(s) = Len(d) /\ a \in Nat /\ n \in Nat /\ n >= 1 /\ a + n <= Len(d)
      /\ ~sessions[s].torn => FileOK(temp[s], d, a)
      /\ Body(p) \in Seq(Nat) /\ Len(Body(p)) = n /\ \A i \in 1 .. n : Body(p)[i] = d[a + i]
  BY <1>b
<1>c. PICK c : c = temp[s] \o Body(p) OBVIOUS
<1>2. ~sessions[s].torn => FileOK(c, d, a + n) BY <1>1, <1>c, FileAppended
<1>3. a + n = Len(d) BY <1>b, <1>1 DEF AppendLast
<1>d. PICK id : id = IF sessions[s].up.named THEN d ELSE c OBVIOUS
<1>5. /\ chunks' = chunks \cup {id} /\ RemoveTemp([temp EXCEPT ![s] = c], {s})
      /\ sessions' = [Patched(s, n) EXCEPT ![s].st = "completed", ![s].obj = id]
  BY <1>b, <1>c, <1>d DEF AppendLast
<1>6. sessions[s].up.named \/ ~sessions[s].torn => id = d
  <2>1. CASE sessions[s].up.named BY <1>d, <2>1
  <2>2. CASE ~sessions[s].up.named /\ ~sessions[s].torn
    <3>1. c = d BY <1>1, <1>2, <1>3, <2>2, ContentIs
    <3> QED BY <1>d, <2>2, <3>1
  <2> QED BY <2>1, <2>2
<1>7. /\ Live' = Live /\ \A x \in Live : x # s => sessions'[x] = sessions[x]
      /\ sessions'[s].up = sessions[s].up /\ sessions'[s].obj = id /\ sessions'[s].st = "completed"
      /\ sessions'[s].torn = sessions[s].torn
  BY <1>1, <1>5 DEF Patched, Live, SessionRec
<1>9. CompleteExact'
  <2> SUFFICES ASSUME NEW x \in Live, sessions'[x].st \in {"completed", "skipped"}, Size(x)' > 0
               PROVE  /\ sessions'[x].up.named \/ ~sessions'[x].torn => sessions'[x].obj = sessions'[x].up.data
                      /\ ~sessions'[x].lost => sessions'[x].obj \in chunks'
    BY <1>7 DEF CompleteExact
  <2>0. d = sessions[s].up.data BY <1>b
  <2>1. CASE x = s BY <1>5, <1>6, <1>7, <2>0, <2>1
  <2>2. CASE x # s
    <3>1. sessions'[x] = sessions[x] BY <1>7, <2>2
    <3>2. Size(x) > 0 BY <3>1 DEF Size
    <3>3. /\ sessions[x].up.named \/ ~sessions[x].torn => sessions[x].obj = sessions[x].up.data
          /\ ~sessions[x].lost => sessions[x].obj \in chunks
      BY <3>1, <3>2 DEF ExactInv, CompleteExact
    <3>4. chunks \subseteq chunks' BY <1>5
    <3> QED BY <3>1, <3>3, <3>4, Zenon
  <2> QED BY <2>1, <2>2
<1>10. FilesOK'
  <2>1. \A x \in Open' : x \in Open /\ x # s BY <1>7 DEF Open, Active
  <2>2. \A x \in Open' : x \in Live /\ x \in DOMAIN temp
    BY <2>1 DEF Open, ExactInv, UploadInv, SessionsOK
  <2>3. PICK files : files = [temp EXCEPT ![s] = c] OBVIOUS
  <2>4. DOMAIN files = DOMAIN temp /\ \A x \in DOMAIN temp : x # s => files[x] = temp[x] BY <2>3
  <2>5. DOMAIN files \ {s} \subseteq DOMAIN temp' /\ \A x \in DOMAIN temp' : temp'[x] = files[x]
    BY <1>5, <2>3, RemoveTempMeans
  <2>6. \A x \in Open' : temp'[x] = temp[x] /\ sessions'[x] = sessions[x]
    BY <1>7, <2>1, <2>2, <2>4, <2>5
  <2> QED BY <2>1, <2>6 DEF ExactInv, FilesOK
<1> QED BY <1>9, <1>10

\* A new session: unfinished with an empty file, or skipped for a chunk the
\* store has, or of an empty chunk.
LEMMA InsertExact ==
    ASSUME ExactInv, NEW S, S \subseteq Open, NEW u \in Uploads, UNCHANGED chunks,
           NEW r \in SessionRec, r.up = u, Insert(u, Without(sessions, S), r),
           \A x \in DOMAIN temp \ S : temp'[x] = temp[x],
           \/ r.st = "pending" /\ r.off = 0 /\ temp'[cnt.made + 1] = <<>>
           \/ /\ r.st \in {"completed", "skipped"}
              /\ u.data = <<>> \/ (r.obj = u.data /\ u.data \in chunks)
    PROVE  FilesOK' /\ CompleteExact'
<1>0. PICK id : id = cnt.made + 1 OBVIOUS
<1>1. id \notin Live /\ id \notin DOMAIN temp BY <1>0 DEF ExactInv, UploadInv, UploadTyped
<1>2. /\ Live' = (Live \ S) \cup {id}
      /\ sessions'[id] = r /\ \A x \in Live \ S : sessions'[x] = sessions[x]
  BY <1>0, <1>1 DEF Insert, With, Without, Live
<1>4. r.st = "pending" => temp'[id] = <<>> /\ r.off = 0 BY <1>0
<1>5. \A x \in Open : x \in Live /\ x \in DOMAIN temp BY DEF Open, ExactInv, UploadInv, SessionsOK
<1>6. FilesOK'
  <2> SUFFICES ASSUME NEW x \in Open', ~sessions'[x].torn
               PROVE  FileOK(temp'[x], sessions'[x].up.data, sessions'[x].off)
    BY DEF FilesOK
  <2>1. CASE x = id
    <3>1. r.st = "pending" BY <1>2, <2>1 DEF Open, Active
    <3>2. FileOK(<<>>, u.data, 0) BY DEF FileOK
    <3>3. temp'[x] = <<>> /\ sessions'[x].up.data = u.data /\ sessions'[x].off = 0
      BY <1>2, <1>4, <2>1, <3>1
    <3> QED BY <3>2, <3>3
  <2>2. CASE x # id
    <3>1. x \in Live \ S /\ sessions'[x] = sessions[x] BY <1>2, <2>2 DEF Open
    <3>2. x \in Open BY <3>1 DEF Open, Active
    <3>3. temp'[x] = temp[x] BY <1>5, <3>1, <3>2
    <3> QED BY <3>1, <3>2, <3>3 DEF ExactInv, FilesOK
  <2> QED BY <2>1, <2>2
<1>8. CompleteExact'
  <2> SUFFICES ASSUME NEW x \in Live', sessions'[x].st \in {"completed", "skipped"}, Size(x)' > 0
               PROVE  /\ sessions'[x].up.named \/ ~sessions'[x].torn => sessions'[x].obj = sessions'[x].up.data
                      /\ ~sessions'[x].lost => sessions'[x].obj \in chunks'
    BY DEF CompleteExact
  <2>1. CASE x = id
    <3>1. sessions'[x] = r /\ Len(u.data) > 0 BY <1>2, <2>1 DEF Size
    <3>2. u.data # <<>> BY <3>1
    <3> QED BY <3>1, <3>2
  <2>2. CASE x # id
    <3>1. x \in Live /\ sessions'[x] = sessions[x] BY <1>2, <2>2
    <3>2. Size(x) > 0 BY <3>1 DEF Size
    <3> QED BY <3>1, <3>2 DEF ExactInv, CompleteExact
  <2> QED BY <2>1, <2>2
<1> QED BY <1>6, <1>8

LEMMA CreateExact ==
    ASSUME ExactInv, NEW u \in Uploads, Create(u)
    PROVE  FilesOK' /\ CompleteExact'
<1> DEFINE stale == Stale(u)
           used == Less(usage, Bytes(stale))
           size == Len(u.data)
           out == IF used + size > Quota THEN Evicted(used + size - Quota, stale) ELSE {}
           gone == stale \cup out
<1>1. stale \subseteq Open /\ gone \subseteq Open BY DEF Stale, Evicted, Open
<1>2. size \in Nat /\ 0 \in Nat BY UploadAssumption
<1>3. UNCHANGED chunks BY DEF Create
<1>4. \/ Drop(stale) \/ Drop(gone)
      \/ /\ u.data \in chunks
         /\ Insert(u, Without(sessions, stale), Session(u, "skipped", size))
         /\ RemoveTemp(temp, stale)
      \/ Allocate(u, gone)
  BY DEF Create
<1> HIDE DEF stale, gone, size
<1>5. CASE Drop(stale) \/ Drop(gone) BY <1>3, <1>5, DropExact
<1>6. CASE /\ u.data \in chunks
           /\ Insert(u, Without(sessions, stale), Session(u, "skipped", size))
           /\ RemoveTemp(temp, stale)
  <2> PICK r : r = Session(u, "skipped", size) OBVIOUS
  <2>1. r \in SessionRec /\ r.up = u /\ r.st = "skipped" BY <1>2, NewSession
  <2>2. r.obj = u.data BY DEF Session
  <2>3. \A x \in DOMAIN temp \ stale : temp'[x] = temp[x] BY <1>6, RemoveTempMeans
  <2> QED BY <1>1, <1>3, <1>6, <2>1, <2>2, <2>3, InsertExact
<1>7. CASE Allocate(u, gone)
  <2>0. PICK files : /\ files = With(temp, cnt.made + 1, <<>>)
                     /\ DOMAIN files = DOMAIN temp \cup {cnt.made + 1}
                     /\ \A x \in DOMAIN files : files[x] \in Seq(Nat)
                     /\ cnt.made + 1 \notin gone /\ cnt.made + 1 \notin DOMAIN temp
                     /\ files[cnt.made + 1] = <<>> /\ \A x \in DOMAIN temp : files[x] = temp[x]
    BY <1>1, NewFiles DEF ExactInv
  <2>1. CASE u.data = <<>>
    <3> PICK r : r = Session(u, "completed", 0) OBVIOUS
    <3>1. r \in SessionRec /\ r.up = u /\ r.st = "completed" BY <1>2, NewSession
    <3>2. Insert(u, Without(sessions, gone), r) /\ RemoveTemp(files, gone \cup {cnt.made + 1})
      BY <1>7, <2>0, <2>1 DEF Allocate
    <3>3. \A x \in DOMAIN temp \ gone : temp'[x] = temp[x]
      <4>1. /\ DOMAIN files \ (gone \cup {cnt.made + 1}) \subseteq DOMAIN temp'
            /\ \A x \in DOMAIN temp' : temp'[x] = files[x]
        BY <3>2, RemoveTempMeans
      <4> QED BY <2>0, <4>1
    <3> QED BY <1>1, <1>3, <2>1, <3>1, <3>2, <3>3, InsertExact
  <2>2. CASE u.data # <<>>
    <3> PICK r : r = Session(u, "pending", 0) OBVIOUS
    <3>1. r \in SessionRec /\ r.up = u /\ r.st = "pending" /\ r.off = 0 BY <1>2, NewSession
    <3>2. Insert(u, Without(sessions, gone), r) /\ RemoveTemp(files, gone)
      BY <1>7, <2>0, <2>2 DEF Allocate
    <3>3. (\A x \in DOMAIN temp \ gone : temp'[x] = temp[x]) /\ temp'[cnt.made + 1] = <<>>
      <4>1. DOMAIN files \ gone \subseteq DOMAIN temp' /\ \A x \in DOMAIN temp' : temp'[x] = files[x]
        BY <3>2, RemoveTempMeans
      <4> QED BY <2>0, <4>1
    <3> QED BY <1>1, <1>3, <3>1, <3>2, <3>3, InsertExact
  <2> QED BY <2>1, <2>2
<1> QED BY <1>4, <1>5, <1>6, <1>7

\* A chunk that is removed is lost for the sessions that report it.
LEMMA RemoveStoredExact ==
    ASSUME ExactInv, NEW c \in chunks, RemoveStored(c)
    PROVE  FilesOK' /\ CompleteExact'
<1>1. /\ UNCHANGED temp /\ chunks' = chunks \ {c}
      /\ sessions' = [x \in Live |-> [sessions[x] EXCEPT !.lost = @ \/ (~Active(x) /\ sessions[x].obj = c)]]
  BY DEF RemoveStored
<1>2. ASSUME NEW x \in Live
      PROVE  /\ sessions'[x].up = sessions[x].up /\ sessions'[x].st = sessions[x].st
             /\ sessions'[x].off = sessions[x].off /\ sessions'[x].obj = sessions[x].obj
             /\ sessions'[x].torn = sessions[x].torn
             /\ ~sessions'[x].lost => ~sessions[x].lost /\ (Active(x) \/ sessions[x].obj # c)
  <2>1. sessions[x] \in SessionRec BY DEF ExactInv, UploadInv, UploadTyped
  <2>2. PICK b : b = (sessions[x].lost \/ (~Active(x) /\ sessions[x].obj = c)) OBVIOUS
  <2>3. sessions'[x] = [sessions[x] EXCEPT !.lost = b] BY <1>1, <2>1, <2>2 DEF SessionRec
  <2>4. /\ sessions'[x].up = sessions[x].up /\ sessions'[x].st = sessions[x].st
        /\ sessions'[x].off = sessions[x].off /\ sessions'[x].obj = sessions[x].obj
        /\ sessions'[x].torn = sessions[x].torn /\ sessions'[x].lost = b
    BY <2>1, <2>3 DEF SessionRec
  <2> QED BY <2>2, <2>4
<1>3. Live' = Live BY <1>1 DEF Live
<1>4. Open' = Open BY <1>2, <1>3 DEF Open, Active
<1>5. FilesOK' BY <1>1, <1>2, <1>4 DEF ExactInv, FilesOK, Open
<1>6. CompleteExact'
  <2> SUFFICES ASSUME NEW x \in Live, sessions'[x].st \in {"completed", "skipped"}, Size(x)' > 0
               PROVE  /\ sessions'[x].up.named \/ ~sessions'[x].torn => sessions'[x].obj = sessions'[x].up.data
                      /\ ~sessions'[x].lost => sessions'[x].obj \in chunks'
    BY <1>3 DEF CompleteExact
  <2>1. sessions[x].st \in {"completed", "skipped"} /\ Size(x) > 0 /\ ~Active(x) BY <1>2 DEF Size, Active
  <2>2. /\ sessions[x].up.named \/ ~sessions[x].torn => sessions[x].obj = sessions[x].up.data
        /\ ~sessions[x].lost => sessions[x].obj \in chunks
    BY <2>1 DEF ExactInv, CompleteExact
  <2> QED BY <1>1, <1>2, <2>1, <2>2
<1> QED BY <1>5, <1>6

LEMMA ExactStep == ExactInv /\ [UploadNext]_uvars => ExactInv'
<1> SUFFICES ASSUME ExactInv, [UploadNext]_uvars PROVE ExactInv' OBVIOUS
<1>1. UploadInv' BY UploadStep, UploadStutter DEF ExactInv
<1>2. ASSUME NEW u \in Uploads, Create(u) PROVE FilesOK' /\ CompleteExact'
  BY <1>2, CreateExact
<1>3. ASSUME NEW p \in Patches, \/ AppendFails(p) \/ AppendMore(p) \/ AppendLast(p) \/ PersistFails(p)
      PROVE  FilesOK' /\ CompleteExact'
  BY <1>3, FailsExact, MoreExact, LastExact
<1>4. ASSUME Expire PROVE FilesOK' /\ CompleteExact'
  BY <1>4, DropExact DEF Expire
<1>5. ASSUME NEW c \in chunks, RemoveStored(c) PROVE FilesOK' /\ CompleteExact'
  BY <1>5, RemoveStoredExact
<1>6. FilesOK' /\ CompleteExact'
  BY <1>2, <1>3, <1>4, <1>5, QuietExact, RestartExact DEF UploadNext
<1> QED BY <1>1, <1>6 DEF ExactInv

\* A chunk is reported complete only when the store has taken exactly the bytes
\* its client sent, for any uploads and number of PATCHes, whatever was sent
\* twice, late or torn or removed since, unless it has no name and an append of
\* it was torn (CompleteExact, handle_patch_upload).
THEOREM CompleteExactHolds == UploadSpec => []CompleteExact
<1>1. UploadInit => ExactInv
  BY UploadInitial DEF UploadInit, ExactInv, FilesOK, CompleteExact, Open, Live
<1>2. ExactInv /\ [UploadNext]_uvars => ExactInv' BY ExactStep
<1>3. ExactInv => CompleteExact BY DEF ExactInv
<1> QED BY <1>1, <1>2, <1>3, PTL DEF UploadSpec
=============================================================================
