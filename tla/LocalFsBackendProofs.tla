------------------------ MODULE LocalFsBackendProofs ------------------------
(***************************************************************************)
(* The local file system backend keeps the contract of                     *)
(* NamedDataStoreBackend, for any number of chunks and callers.            *)
(***************************************************************************)
EXTENDS LocalFsBackend, TLAPS

\* The files are absent and nobody calls.
LEMMA InitBackend == BackendInit => BackendInv
BY DEF BackendInit, BackendInv, BackendTypeOK, CallInv, OnlyVerified, TmpCleaned, File, PC,
       Outcome, Job, WriteJob, RemoveJob, Idle

\* A call starts without a result and without a temporary file.
LEMMA CallBackend ==
    ASSUME BackendInv, NEW p \in Proc, NEW j \in Job, Call(p, j)
    PROVE  BackendInv'
<1>1. j # Idle /\ (j \in WriteJob \/ j \in RemoveJob)
      /\ (j.op = "write" <=> j \in WriteJob)
  BY DEF Job, WriteJob, RemoveJob, Idle
<1>2. BackendTypeOK'
  BY DEF BackendInv, BackendTypeOK, Call, PC, Outcome
<1>3. CallInv'
  BY <1>1 DEF BackendInv, BackendTypeOK, CallInv, ValidSource, TmpCleaned, Call, File
<1>4. OnlyVerified' /\ TmpCleaned'
  BY DEF BackendInv, BackendTypeOK, OnlyVerified, TmpCleaned, Call
<1> QED BY <1>2, <1>3, <1>4 DEF BackendInv

\* A call in progress has a job whose chunk is a chunk.
LEMMA JobChunk ==
    ASSUME BackendInv, NEW p \in Proc, pc[p] \notin {"idle", "done"}
    PROVE  /\ job[p] # Idle /\ outcome[p] = "none" /\ job[p].chunk \in Chunk
           /\ pc[p] # "unlink" => job[p] \in WriteJob
           /\ pc[p] = "unlink" => job[p] \in RemoveJob
BY DEF BackendInv, BackendTypeOK, CallInv, PC, WriteJob, RemoveJob, Job

\* Moving on inside a call, with a temporary file that fits the next step.
LEMMA GotoBackend ==
    ASSUME BackendInv, NEW p \in Proc, NEW n, pc[p] \notin {"idle", "done", "unlink"},
           n \in {"create", "copy", "verify", "recheck", "rename"}, Goto(p, n),
           NEW t \in File, tmp' = [tmp EXCEPT ![p] = t], UNCHANGED final,
           t = "good" => ValidSource(p),
           n \in {"recheck", "rename"} => t = "good",
           n = "create" => t = "none"
    PROVE  BackendInv'
<1>1. /\ UNCHANGED <<job, outcome, unclean>> /\ pc'[p] = n /\ tmp'[p] = t
      /\ \A q \in Proc \ {p} : pc'[q] = pc[q] /\ tmp'[q] = tmp[q]
  BY DEF Goto, BackendInv, BackendTypeOK
<1>2. BackendTypeOK'
  BY DEF Goto, BackendInv, BackendTypeOK, PC
<1>3. \A q \in Proc : ValidSource(q)' <=> ValidSource(q)
  BY <1>1 DEF ValidSource
<1>4. CallInv'
  BY <1>1, <1>3, JobChunk DEF BackendInv, CallInv
<1>5. OnlyVerified' /\ TmpCleaned'
  BY <1>1 DEF BackendInv, OnlyVerified, TmpCleaned
<1> QED BY <1>2, <1>4, <1>5 DEF BackendInv

\* The end of a call, whatever its result and whatever it does with its
\* temporary file.
LEMMA EndBackend ==
    ASSUME BackendInv, NEW p \in Proc, pc[p] \notin {"idle", "done"},
           NEW r \in Outcome \ {"none"}, NEW t \in File,
           UNCHANGED job, pc' = [pc EXCEPT ![p] = "done"],
           outcome' = [outcome EXCEPT ![p] = r], tmp' = [tmp EXCEPT ![p] = t],
           unclean' = unclean \/ unclean' = unclean \cup {p},
           t = "good" => ValidSource(p),
           t # "none" => r # "Written" /\ (p \in unclean' \/ job[p].chunk \notin Hashable),
           final' \in [Chunk -> {"none", "good"}]
    PROVE  BackendInv'
<1>1. /\ UNCHANGED job /\ pc'[p] = "done" /\ tmp'[p] = t /\ outcome'[p] = r
      /\ \A q \in Proc \ {p} : /\ pc'[q] = pc[q] /\ tmp'[q] = tmp[q]
                               /\ outcome'[q] = outcome[q]
      /\ \A q \in Proc \ {p} : q \in unclean' <=> q \in unclean
  BY DEF BackendInv, BackendTypeOK
<1>2. BackendTypeOK'
  BY DEF BackendInv, BackendTypeOK, PC, File
<1>3. \A q \in Proc : ValidSource(q)' <=> ValidSource(q)
  BY <1>1 DEF ValidSource
<1>4. CallInv'
  BY <1>1, <1>3, JobChunk DEF BackendInv, CallInv
<1>5. OnlyVerified' /\ TmpCleaned'
  BY <1>1 DEF BackendInv, OnlyVerified, TmpCleaned
<1> QED BY <1>2, <1>4, <1>5 DEF BackendInv

\* A call ends without a temporary file.
LEMMA FinishBackend ==
    ASSUME BackendInv, NEW p \in Proc, pc[p] \notin {"idle", "done"},
           NEW r \in Outcome \ {"none"}, Finish(p, r),
           final' \in [Chunk -> {"none", "good"}]
    PROVE  BackendInv'
<1>1. "none" \in File
  BY DEF File
<1> QED BY <1>1, EndBackend DEF Finish

\* A call ends with cleanup_tmp, which may fail.
LEMMA CleanUpBackend ==
    ASSUME BackendInv, NEW p \in Proc, pc[p] \notin {"idle", "done"},
           NEW r \in Outcome \ {"none", "Written"}, CleanUp(p, r), UNCHANGED final
    PROVE  BackendInv'
<1>1. final' \in [Chunk -> {"none", "good"}]
  BY DEF BackendInv, BackendTypeOK, OnlyVerified
<1>2. CASE Finish(p, r)
  BY <1>1, <1>2, FinishBackend
<1>3. CASE Leave(p, r) /\ unclean' = unclean \cup {p}
  <2>1. /\ tmp[p] \in File /\ tmp' = [tmp EXCEPT ![p] = tmp[p]]
        /\ tmp[p] = "good" => ValidSource(p)
        /\ p \in unclean'
    BY <1>3 DEF Leave, BackendInv, BackendTypeOK, CallInv
  <2> QED BY <1>1, <1>3, <2>1, EndBackend DEF Leave
<1> QED BY <1>2, <1>3 DEF CleanUp

\* Every step of a call preserves the invariant.
LEMMA StepBackend ==
    ASSUME BackendInv, NEW p \in Proc, Step(p)
    PROVE  BackendInv'
<1>1. /\ final \in [Chunk -> {"none", "good"}] /\ tmp[p] \in File
      /\ tmp = [tmp EXCEPT ![p] = tmp[p]]
      /\ {"Written", "AlreadyExists", "Ok", "Err"} \subseteq Outcome \ {"none"}
      /\ {"AlreadyExists", "Err"} \subseteq Outcome \ {"none", "Written"}
  BY DEF BackendInv, BackendTypeOK, OnlyVerified, Outcome
<1>2. CASE CheckFinal(p)
  BY <1>1, <1>2, GotoBackend, FinishBackend, JobChunk
  DEF CheckFinal, BackendInv, CallInv
<1>3. CASE CreateTmp(p)
  <2>1. "partial" \in File /\ "partial" # "good" /\ "copy" # "create" /\ pc[p] = "create" /\ UNCHANGED final
    BY <1>3 DEF CreateTmp, File
  <2>2. CASE Goto(p, "copy") /\ tmp' = [tmp EXCEPT ![p] = "partial"]
    BY <2>1, <2>2, GotoBackend DEF File
  <2>3. CASE Finish(p, "Err")
    BY <1>1, <2>1, <2>3, FinishBackend
  <2>4. CASE /\ job[p].chunk \notin Hashable /\ tmp' = [tmp EXCEPT ![p] = "partial"]
             /\ outcome' = [outcome EXCEPT ![p] = "Err"]
             /\ pc' = [pc EXCEPT ![p] = "done"] /\ UNCHANGED <<job, unclean>>
    <3>1. "Err" \in Outcome \ {"none"} /\ "Err" # "Written" /\ "partial" # "good"
      BY <1>1
    <3>2. final' \in [Chunk -> {"none", "good"}]
      BY <1>1, <2>1
    <3> QED BY <2>1, <2>4, <3>1, <3>2, EndBackend
  <2> QED BY <1>3, <2>2, <2>3, <2>4 DEF CreateTmp
<1>4. CASE Copy(p)
  <2>1. CASE CleanUp(p, "Err") /\ UNCHANGED final
    BY <1>1, <1>4, <2>1, CleanUpBackend DEF Copy
  <2>2. CASE /\ tmp' = [tmp EXCEPT ![p] = IF job[p].valid THEN "good" ELSE "bad"]
             /\ Goto(p, "verify") /\ UNCHANGED final
    <3>1. pc[p] = "copy" /\ Goto(p, "verify") /\ UNCHANGED final
      BY <1>4, <2>2 DEF Copy
    <3>2. CASE job[p].valid
      <4>1. tmp' = [tmp EXCEPT ![p] = "good"] /\ "good" \in File
        BY <2>2, <3>2 DEF File
      <4>2. ValidSource(p) /\ "verify" # "create"
        BY <3>1, <3>2, JobChunk DEF ValidSource
      <4> QED BY <3>1, <4>1, <4>2, GotoBackend
    <3>3. CASE ~job[p].valid
      <4>1. tmp' = [tmp EXCEPT ![p] = "bad"] /\ "bad" \in File
        BY <2>2, <3>3 DEF File
      <4>2. "bad" # "good" /\ "verify" \notin {"create", "recheck", "rename"}
        OBVIOUS
      <4> QED BY <3>1, <4>1, <4>2, GotoBackend
    <3> QED BY <3>2, <3>3
  <2> QED BY <1>4, <2>1, <2>2 DEF Copy
<1>5. CASE Verify(p)
  BY <1>1, <1>5, GotoBackend, CleanUpBackend DEF Verify, BackendInv, CallInv
<1>6. CASE Recheck(p)
  BY <1>1, <1>6, GotoBackend, CleanUpBackend DEF Recheck, BackendInv, CallInv
<1>7. CASE Rename(p)
  <2>1. tmp[p] = "good" /\ job[p].chunk \in Chunk
    BY <1>7, JobChunk DEF Rename, BackendInv, CallInv
  <2>2. final' \in [Chunk -> {"none", "good"}]
    BY <1>1, <1>7, <2>1 DEF Rename
  <2> QED BY <1>1, <1>7, <2>2, FinishBackend, CleanUpBackend DEF Rename
<1>8. CASE Unlink(p)
  <2>1. final' \in [Chunk -> {"none", "good"}]
    BY <1>1, <1>8 DEF Unlink
  <2> QED BY <1>1, <1>8, <2>1, FinishBackend DEF Unlink
<1>9. CASE Return(p)
  <2>1. /\ UNCHANGED <<final, outcome>> /\ pc[p] = "done"
        /\ pc'[p] = "idle" /\ job'[p] = Idle /\ tmp'[p] = "none" /\ p \notin unclean'
        /\ \A q \in Proc \ {p} : /\ pc'[q] = pc[q] /\ job'[q] = job[q] /\ tmp'[q] = tmp[q]
                                 /\ q \in unclean' <=> q \in unclean
    BY <1>9 DEF Return, BackendInv, BackendTypeOK
  <2>2. BackendTypeOK'
    BY <1>9 DEF Return, BackendInv, BackendTypeOK, PC, File
  <2>3. CallInv' /\ OnlyVerified' /\ TmpCleaned'
    BY <2>1 DEF BackendInv, CallInv, ValidSource, OnlyVerified, TmpCleaned
  <2> QED BY <2>2, <2>3 DEF BackendInv
<1> QED BY <1>2, <1>3, <1>4, <1>5, <1>6, <1>7, <1>8, <1>9 DEF Step

\* A crash ends every call.
LEMMA CrashBackend == ASSUME BackendInv, Crash PROVE BackendInv'
BY DEF Crash, BackendInv, BackendTypeOK, CallInv, ValidSource, OnlyVerified, TmpCleaned, PC, File,
       Outcome, Idle, Job, WriteJob, RemoveJob

\* BackendInv holds in every reachable state.
THEOREM BackendInvariant == BackendSpec => []BackendInv
<1>1. BackendInv /\ [BackendNext]_backendVars => BackendInv'
  <2> SUFFICES ASSUME BackendInv, [BackendNext]_backendVars PROVE BackendInv'
    OBVIOUS
  <2>1. CASE UNCHANGED backendVars
    BY <2>1 DEF backendVars, BackendInv, BackendTypeOK, CallInv, ValidSource, OnlyVerified, TmpCleaned
  <2> QED BY <2>1, CallBackend, StepBackend, CrashBackend DEF BackendNext
<1> QED BY <1>1, InitBackend, PTL DEF BackendSpec

\* A final file is complete and verified.
THEOREM OnlyVerifiedHolds == BackendSpec => []OnlyVerified
<1>1. BackendInv => OnlyVerified
  BY DEF BackendInv
<1> QED BY <1>1, BackendInvariant, PTL

\* Only the exit without a hasher and a failing cleanup_tmp leave a temporary
\* file behind.
THEOREM TmpCleanedHolds == BackendSpec => []TmpCleaned
<1>1. BackendInv => TmpCleaned
  BY DEF BackendInv
<1> QED BY <1>1, BackendInvariant, PTL

-----------------------------------------------------------------------------
(* Refinement *)

Visible == {c \in Chunk : final[c] = "good"}

\* A step of a call takes effect as one of the contract's results, or not yet.
LEMMA StepContract ==
    ASSUME BackendInv, NEW p \in Proc, Step(p)
    PROVE  [Contract!ContractNext]_(Contract!contractVars)
<1> USE DEF Visible
<1>1. CASE UNCHANGED <<final, job, outcome>>
  BY <1>1 DEF Contract!contractVars
<1>2. CASE /\ pc[p] \notin {"idle", "done"} /\ outcome' = [outcome EXCEPT ![p] = "Err"]
           /\ UNCHANGED <<final, job>>
  <2>1. Contract!Effect(p, "Err", Visible)
    BY <1>2, JobChunk DEF Contract!Effect
  <2>2. job[p].op = "write" \/ job[p].op = "remove"
    BY <1>2, JobChunk DEF WriteJob, RemoveJob
  <2> QED
    BY <2>1, <2>2 DEF Contract!ContractNext, Contract!Write, Contract!Discard
<1>3. CASE /\ pc[p] \in {"check", "recheck"} /\ Exists(p)
           /\ outcome' = [outcome EXCEPT ![p] = "AlreadyExists"] /\ UNCHANGED <<final, job>>
  <2>1. Contract!Effect(p, "AlreadyExists", Visible)
    BY <1>3, JobChunk DEF Contract!Effect
  <2>2. job[p].op = "write" /\ job[p].chunk \in Visible
    BY <1>3, JobChunk DEF WriteJob, Exists, BackendInv, OnlyVerified
  <2> QED BY <2>1, <2>2 DEF Contract!ContractNext, Contract!Write
<1>4. CASE /\ pc[p] = "rename" /\ Finish(p, "Written")
           /\ final' = [final EXCEPT ![job[p].chunk] = tmp[p]]
  <2>1. job[p].op = "write" /\ job[p].valid /\ tmp[p] = "good" /\ job[p].chunk \in Chunk
    BY <1>4, JobChunk DEF WriteJob, BackendInv, CallInv, ValidSource
  <2>2. Visible' = Visible \cup {job[p].chunk}
    BY <1>4, <2>1 DEF BackendInv, BackendTypeOK
  <2>3. Contract!Effect(p, "Written", Visible \cup {job[p].chunk})
    BY <1>4, <2>2, JobChunk DEF Finish, Contract!Effect
  <2> QED BY <2>1, <2>3 DEF Contract!ContractNext, Contract!Write
<1>5. CASE /\ pc[p] = "unlink" /\ Finish(p, "Ok")
           /\ final' = [final EXCEPT ![job[p].chunk] = "none"]
  <2>1. job[p].op = "remove" /\ job[p].chunk \in Chunk
    BY <1>5, JobChunk DEF RemoveJob
  <2>2. Visible' = Visible \ {job[p].chunk}
    BY <1>5, <2>1 DEF BackendInv, BackendTypeOK
  <2>3. Contract!Effect(p, "Ok", Visible \ {job[p].chunk})
    BY <1>5, <2>2, JobChunk DEF Finish, Contract!Effect
  <2> QED BY <2>1, <2>3 DEF Contract!ContractNext, Contract!Discard
<1>6. CASE Return(p)
  <2>1. job[p] # Idle /\ outcome[p] # "none"
    BY <1>6 DEF Return, BackendInv, CallInv
  <2>2. Contract!Return(p)
    BY <1>6, <2>1 DEF Return, Contract!Return, Contract!Idle, Idle
  <2> QED BY <2>2 DEF Contract!ContractNext
<1> QED
  BY <1>1, <1>2, <1>3, <1>4, <1>5, <1>6
  DEF Step, CheckFinal, CreateTmp, Copy, Verify, Recheck, Rename, Unlink, Goto,
      Finish, CleanUp, Leave

\* Concurrent calls on local files implement the atomic two-state contract of
\* the trait NamedDataStoreBackend.
THEOREM BackendImplementsContract == BackendSpec => ImplementsContract
<1>1. BackendInit => Contract!ContractInit
  BY DEF BackendInit, Contract!ContractInit, Contract!Idle, Idle
<1>2. BackendInv /\ [BackendNext]_backendVars => [Contract!ContractNext]_(Contract!contractVars)
  <2> SUFFICES ASSUME BackendInv, [BackendNext]_backendVars
               PROVE  [Contract!ContractNext]_(Contract!contractVars)
    OBVIOUS
  <2>1. ASSUME NEW p \in Proc, NEW j \in Job, Call(p, j)
        PROVE  Contract!Call(p, j)
    BY <2>1 DEF Call, Contract!Call, Contract!Idle, Idle, BackendInv, CallInv
  <2>2. CASE Crash
    BY <2>2 DEF Crash, Contract!ContractNext, Contract!Crash, Contract!Idle, Idle
  <2>3. CASE UNCHANGED backendVars
    BY <2>3 DEF backendVars, Contract!contractVars
  <2>4. Job = Contract!Job
    BY DEF Job, WriteJob, RemoveJob, Contract!Job, Contract!WriteJob, Contract!RemoveJob
  <2>5. ASSUME NEW p \in Proc, NEW j \in Job, Call(p, j)
        PROVE  Contract!ContractNext
    BY <2>1, <2>4, <2>5 DEF Contract!ContractNext
  <2> QED BY <2>2, <2>3, <2>5, StepContract DEF BackendNext
<1> QED
  BY <1>1, <1>2, BackendInvariant, PTL DEF BackendSpec, ImplementsContract, Contract!ContractSpec

=============================================================================
