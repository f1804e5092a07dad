---------------------------- MODULE CallsProofs ----------------------------
(***************************************************************************)
(* Proofs about Calls.tla, for any number of threads, conversions and      *)
(* replaced files.  What an adapter mode runs under was shown by a probe   *)
(* of another spawn, perhaps of another thread, so the invariant carries   *)
(* it from the probe's layers through the cache to the adapter's spawn:    *)
(* the build each digest names, and what every caller has seen of it.      *)
(* What an engine was verified as is carried along the rest of its chain.  *)
(***************************************************************************)
EXTENDS Calls, SequenceTheorems, TLAPS

Digests == [worker : Build, exec : SUBSET Role, read : SUBSET Role,
            class : {"plain", "accelerator", "provider"}]

\* What a chain has left, step by step.
Op == {"verify", "version", "run"} \X Role
Left(mode) == {SubSeq(Chain(mode), k, Len(Chain(mode))) : k \in 1..Len(Chain(mode)) + 1}

PC == {"idle", "locate", "digest"} \cup Measured

CallOf == [mode : Mode, pc : PC, stage : {"none", "net", "filter", "adapter"},
           digest : Digests \cup {<<>>}, build : Build, layers : SUBSET {"net", "filter"},
           todo : Seq(Op), doubt : BOOLEAN, swapped : SUBSET Role, unexcused : SUBSET Role]

\* The verdicts of the probes: a clean one ran on a build that engages every
\* layer, and a digest enters the cache with the verdict on its worker.
CacheInv ==
  /\ \A p \in passed : platform = "linux" => p[2] = "good"
  /\ \A d \in cache \ doubtful : <<d.class, d.worker>> \in passed

\* What a caller knows of the worker its digest names.  A swap meanwhile
\* leaves a doubt; without one the spawned build is the measured one, and
\* each stage that was passed tells of a layer it engages.
JailInv(c) ==
  /\ call[c].pc \in Measured => call[c].digest \in Digests /\ call[c].digest.class = Class(call[c].mode)
  /\ call[c].pc \in Measured /\ ~Working(c) /\ ~call[c].doubt => worker = call[c].digest.worker
  /\ call[c].pc \in {"helper", "mode", "insert"} /\ ~call[c].doubt =>
       call[c].build = call[c].digest.worker
  /\ call[c].pc \in {"grants", "spawn", "helper", "mode"} =>
       /\ call[c].stage # "none"
       /\ call[c].stage = "adapter" => call[c].digest \in cache
       /\ call[c].stage = "filter" => platform = "linux"
       /\ call[c].stage = "filter" /\ ~call[c].doubt => call[c].digest.worker # "noNet"
  /\ call[c].pc = "mode" => call[c].layers = Layers(call[c].build, call[c].stage)
  /\ call[c].pc = "insert" /\ ~call[c].doubt /\ platform = "linux" => call[c].build = "good"

\* The operations that execute an engine.
Runs == {"version", "run"}

\* The engines that run in what is left of a chain and were verified before:
\* as pinned, or replaced since the last point from which a swap excuses.
Owed(todo) ==
  {r \in Role : \E i \in 1..Len(todo) :
     /\ todo[i][1] \in Runs /\ r \in Uses(todo[i][2])
     /\ \A j \in 1..i - 1 : todo[j] # <<"verify", r>>}

EngineInv(c) ==
  /\ call[c].unexcused = {}
  /\ Working(c) => /\ call[c].todo \in Left(call[c].mode)
                   /\ \A r \in Owed(call[c].todo) : Pinned(r) \/ r \in call[c].swapped

CallsInv == call \in [Caller -> CallOf] /\ \A c \in Caller : JailInv(c) /\ EngineInv(c)

\* The types of what the callers share.
SharedType ==
  /\ platform \in {"linux", "macos"} /\ worker \in Build \cup {"absent"}
  /\ engine \in [Role -> {"pinned", "drifted", "absent"}]
  /\ located \in [Mode -> {"unset", "ready", "failed"}]
  /\ begun \in 0..MaxCalls /\ swaps \in 0..MaxSwaps
  /\ cache \subseteq Digests /\ doubtful \subseteq cache
  /\ passed \subseteq {"plain", "accelerator", "provider"} \X Build

IInv == SharedType /\ CacheInv /\ CallsInv

-----------------------------------------------------------------------------
(* The chains *)

\* The chains, and that each entry is an operation on a granted engine.
LEMMA ChainType ==
  ASSUME NEW m \in Mode
  PROVE  Chain(m) \in Seq({"verify", "version", "run"} \X Grants(m))
  <1>1. CASE m = "asr"
    <2>1. Grants(m) = {"cli", "weights", "probe"}
      BY <1>1 DEF Grants, ExecGrants, ReadGrants
    <2>2. Chain(m) = <<<<"verify", "cli">>, <<"verify", "weights">>, <<"verify", "probe">>,
                       <<"run", "probe">>, <<"run", "cli">>>>
      BY <1>1 DEF Chain
    <2> QED BY <2>1, <2>2
  <1>2. CASE m = "svg-raster"
    <2>1. Grants(m) = {"raster", "encoder"}
      BY <1>2 DEF Grants, ExecGrants, ReadGrants
    <2>2. Chain(m) = <<<<"verify", "raster">>, <<"version", "raster">>, <<"run", "raster">>,
                       <<"verify", "encoder">>, <<"version", "encoder">>, <<"run", "encoder">>>>
      BY <1>2 DEF Chain
    <2> QED BY <2>1, <2>2
  <1>3. CASE m \notin {"asr", "svg-raster"}
    <2>1. Chain(m) = <<>>
      BY <1>3 DEF Chain
    <2> QED BY <2>1
  <1> QED BY <1>1, <1>2, <1>3

\* What is left of a chain has its type.
LEMMA LeftIsSeq ==
  ASSUME NEW m \in Mode, NEW s \in Left(m)
  PROVE  s \in Seq({"verify", "version", "run"} \X Grants(m))
  <1> DEFINE ch == Chain(m)
             Ops == {"verify", "version", "run"} \X Grants(m)
  <1>1. PICK k \in 1..Len(ch) + 1 : s = SubSeq(ch, k, Len(ch))
    BY DEF Left
  <1>2. ch \in Seq(Ops)
    BY ChainType
  <1> HIDE DEF ch, Ops
  <1>3. Len(ch) \in Nat /\ \A i \in k..Len(ch) : ch[i] \in Ops
    BY <1>2
  <1>4. s \in Seq(Ops)
    BY <1>1, <1>3, SubSeqProperties
  <1> QED BY <1>4 DEF Ops

\* A step of what is left leaves the rest of it.
LEMMA LeftTail ==
  ASSUME NEW m \in Mode, NEW s \in Left(m), s # <<>>
  PROVE  Tail(s) \in Left(m)
  <1> DEFINE ch == Chain(m)
  <1>1. ch \in Seq({"verify", "version", "run"} \X Grants(m))
    BY ChainType
  <1>2. PICK k \in 1..Len(ch) + 1 : s = SubSeq(ch, k, Len(ch))
    BY DEF Left
  <1>3. k # Len(ch) + 1
    BY <1>1, <1>2
  <1>4. Tail(s) = SubSeq(ch, k + 1, Len(ch))
    BY <1>1, <1>2, <1>3
  <1>5. k + 1 \in 1..Len(ch) + 1
    BY <1>1, <1>3
  <1> QED BY <1>4, <1>5 DEF Left

\* A chain begins with nothing behind it.
LEMMA ChainOwesNothing ==
  ASSUME NEW m \in Mode
  PROVE  Chain(m) \in Left(m) /\ Owed(Chain(m)) = {}
  <1>1. Chain(m) \in Left(m)
    <2> DEFINE Ops == {"verify", "version", "run"} \X Grants(m)
    <2>0. Chain(m) \in Seq(Ops)
      BY ChainType
    <2> HIDE DEF Ops
    <2>1. Chain(m) = SubSeq(Chain(m), 1, Len(Chain(m))) /\ Len(Chain(m)) \in Nat
      BY <2>0, SubSeqFull
    <2> QED BY <2>1 DEF Left
  <1>2. CASE m = "asr"
    BY <1>1, <1>2 DEF Chain, Owed, Runs, Uses
  <1>3. CASE m = "svg-raster"
    BY <1>1, <1>3 DEF Chain, Owed, Runs, Uses
  <1>4. CASE m \notin {"asr", "svg-raster"}
    BY <1>1, <1>4 DEF Chain, Owed
  <1> QED BY <1>2, <1>3, <1>4

\* One step of a chain adds at most what it verified to what is owed.
LEMMA OwedTail ==
  ASSUME NEW m \in Mode, NEW s \in Left(m), s # <<>>, NEW r \in Owed(Tail(s))
  PROVE  Head(s) = <<"verify", r>> \/ r \in Owed(s)
  <1> s \in Seq({"verify", "version", "run"} \X Grants(m))
    BY LeftIsSeq
  <1>1. PICK i \in 1..Len(Tail(s)) :
          /\ Tail(s)[i][1] \in Runs /\ r \in Uses(Tail(s)[i][2])
          /\ \A j \in 1..i - 1 : Tail(s)[j] # <<"verify", r>>
    BY DEF Owed
  <1>2. /\ i + 1 \in 1..Len(s) /\ s[i + 1] = Tail(s)[i]
        /\ \A j \in 2..i : s[j] = Tail(s)[j - 1]
    OBVIOUS
  <1>3. ASSUME Head(s) # <<"verify", r>>
        PROVE  \A j \in 1..i : s[j] # <<"verify", r>>
    <2> TAKE j \in 1..i
    <2>1. CASE j = 1
      BY <1>3, <2>1
    <2>2. CASE j # 1
      <3>1. j - 1 \in 1..i - 1 /\ s[j] = Tail(s)[j - 1]
        BY <1>2, <2>2
      <3> QED BY <1>1, <3>1
    <2> QED BY <2>1, <2>2
  <1>4. CASE Head(s) # <<"verify", r>>
    <2>1. i + 1 \in 1..Len(s) /\ s[i + 1][1] \in Runs /\ r \in Uses(s[i + 1][2])
      BY <1>1, <1>2
    <2>2. \A j \in 1..(i + 1) - 1 : s[j] # <<"verify", r>>
      BY <1>3, <1>4
    <2>3. r \in Role
      BY DEF Owed
    <2> QED BY <2>1, <2>2, <2>3 DEF Owed
  <1> QED BY <1>4

\* What a step runs was owed, and it is among what the jail was asked for.
LEMMA OwedHead ==
  ASSUME NEW m \in Mode, NEW s \in Left(m), s # <<>>, Head(s)[1] \in Runs
  PROVE  Uses(Head(s)[2]) \subseteq Owed(s)
  <1> s \in Seq({"verify", "version", "run"} \X Grants(m))
    BY LeftIsSeq
  <1> QED BY DEF Owed, Runs, Uses, Grants, ExecGrants, ReadGrants, Role

\* What is owed was granted.
LEMMA OwedGranted ==
  ASSUME NEW m \in Mode, NEW s \in Left(m)
  PROVE  Owed(s) \subseteq Grants(m)
  <1>1. ASSUME NEW i \in 1..Len(s) PROVE s[i][2] \in Grants(m)
    <2>1. s[i] \in {"verify", "version", "run"} \X Grants(m)
      BY LeftIsSeq, ElementOfSeq
    <2> QED BY <2>1
  <1>2. ASSUME NEW r \in Grants(m) PROVE Uses(r) \subseteq Grants(m)
    BY DEF Uses, Grants, ExecGrants, ReadGrants
  <1> QED BY <1>1, <1>2 DEF Owed

\* The last three of six.
LEMMA SecondHalf ==
  ASSUME NEW a, NEW b, NEW c, NEW d, NEW e, NEW f
  PROVE  SubSeq(<<a, b, c, d, e, f>>, 4, 6) = <<d, e, f>>
  <1> DEFINE S == {a, b, c, d, e, f}
             s == <<a, b, c, d, e, f>>
             t == <<d, e, f>>
  <1>1. \A i \in 4..6 : s[i] \in S
    OBVIOUS
  <1>2. /\ s[4] = d /\ s[5] = e /\ s[6] = f
        /\ t \in Seq(S) /\ Len(t) = 3 /\ t[1] = d /\ t[2] = e /\ t[3] = f
    OBVIOUS
  <1> HIDE DEF s, S, t
  <1>3. /\ SubSeq(s, 4, 6) \in Seq(S) /\ Len(SubSeq(s, 4, 6)) = 3
        /\ \A i \in 1..3 : SubSeq(s, 4, 6)[i] = s[i + 3]
    BY <1>1, SubSeqProperties
  <1>4. \A i \in 1..3 : SubSeq(s, 4, 6)[i] = t[i]
    <2> TAKE i \in 1..3
    <2>1. SubSeq(s, 4, 6)[i] = s[i + 3]
      BY <1>3
    <2> QED BY <1>2, <2>1
  <1>5. SubSeq(s, 4, 6) = t
    BY <1>2, <1>3, <1>4, SeqEqual
  <1> QED BY <1>5 DEF s, t

\* After an execution of the provider chain nothing verified is left to run.
LEMMA ProviderOwesNothing ==
  ASSUME NEW s \in Left("svg-raster"), s # <<>>, Head(s)[1] = "run"
  PROVE  Owed(Tail(s)) = {}
  <1> DEFINE ch == Chain("svg-raster")
  <1>1. ch = <<<<"verify", "raster">>, <<"version", "raster">>, <<"run", "raster">>,
               <<"verify", "encoder">>, <<"version", "encoder">>, <<"run", "encoder">>>>
    BY DEF Chain
  <1>2. PICK k \in 1..Len(ch) + 1 : s = SubSeq(ch, k, Len(ch))
    BY DEF Left
  <1>3. Len(ch) = 6
    BY <1>1
  <1>4. Head(s) = ch[k] /\ Tail(s) = SubSeq(ch, k + 1, 6) /\ k # 7
    <2>1. ch \in Seq({"verify", "version", "run"} \X Grants("svg-raster"))
      BY ChainType DEF Mode
    <2>2. k # Len(ch) + 1
      BY <1>2, <2>1
    <2> QED BY <1>2, <1>3, <2>1, <2>2
  <1>5. k \in {3, 6}
    <2>1. ch[1][1] # "run" /\ ch[2][1] # "run" /\ ch[4][1] # "run" /\ ch[5][1] # "run"
      BY <1>1
    <2>2. k \in {1, 2, 3, 4, 5, 6}
      BY <1>2, <1>3, <1>4
    <2>3. ch[k][1] = "run"
      BY <1>4
    <2> QED BY <2>1, <2>2, <2>3
  <1>6. Owed(<<>>) = {}
    BY DEF Owed
  <1>7. Owed(<<<<"verify", "encoder">>, <<"version", "encoder">>, <<"run", "encoder">>>>) = {}
    BY DEF Owed, Runs, Uses
  <1>8. SubSeq(ch, 7, 6) = <<>>
    BY SubSeqEmpty
  <1>9. SubSeq(ch, 4, 6) =
          <<<<"verify", "encoder">>, <<"version", "encoder">>, <<"run", "encoder">>>>
    BY <1>1, SecondHalf
  <1>10. Tail(s) \in {SubSeq(ch, 4, 6), SubSeq(ch, 7, 6)}
    BY <1>4, <1>5
  <1> QED BY <1>6, <1>7, <1>8, <1>9, <1>10

-----------------------------------------------------------------------------
(* The steps *)

\* A step of one caller leaves the others as they are: what they know of
\* their workers and engines does not depend on it, and the cache only grows.
LEMMA OneCaller ==
  ASSUME IInv, NEW c \in Caller, NEW k \in CallOf, call' = [call EXCEPT ![c] = k],
         UNCHANGED <<platform, worker, engine>>, cache \subseteq cache',
         SharedType', CacheInv', JailInv(c)', EngineInv(c)'
  PROVE  IInv'
  <1> USE DEF IInv, CallsInv
  <1>1. call' \in [Caller -> CallOf] /\ \A d \in Caller \ {c} : call'[d] = call[d]
    OBVIOUS
  <1>2. ASSUME NEW d \in Caller \ {c} PROVE JailInv(d)' /\ EngineInv(d)'
    <2>1. call'[d] = call[d]
      BY <1>1
    <2>2. JailInv(d)'
      BY <2>1 DEF JailInv, Working, Layers
    <2>3. EngineInv(d)'
      BY <2>1 DEF EngineInv, Working, Pinned
    <2> QED BY <2>2, <2>3
  <1> QED BY <1>1, <1>2

\* A call that is over, or that only begins, knows nothing and owes nothing.
LEMMA FreshCall ==
  ASSUME IInv, NEW c \in Caller, NEW k \in CallOf, call' = [call EXCEPT ![c] = k],
         k.pc \in {"idle", "locate", "digest"}, k.unexcused = {},
         UNCHANGED <<platform, worker, engine, cache, passed, doubtful>>, SharedType'
  PROVE  IInv'
  <1>1. call'[c] = k
    BY DEF IInv, CallsInv
  <1>2. JailInv(c)' /\ EngineInv(c)'
    BY <1>1 DEF JailInv, EngineInv, Working, Measured
  <1>3. CacheInv'
    BY DEF IInv, CacheInv
  <1> QED BY <1>2, <1>3, OneCaller

\* The record of a caller without a call is one of a call's records.
LEMMA IdleIsCall == Idle \in CallOf /\ Idle.pc = "idle" /\ Idle.unexcused = {}
  BY DEF Idle, CallOf, Mode, PC, Build

\* A refusal, or an answer, ends the call.
LEMMA ReturnKeeps ==
  ASSUME IInv, NEW c \in Caller, Return(c),
         UNCHANGED <<platform, worker, engine, cache, passed, doubtful>>, SharedType'
  PROVE  IInv'
  BY IdleIsCall, FreshCall DEF Return

\* Types of the operators a call is built from.
LEMMA OperatorTypes ==
  /\ \A m \in Mode, b \in Build : Digest(m, b) \in Digests /\ Digest(m, b).class = Class(m)
                                  /\ Digest(m, b).worker = b
  /\ \A b \in Build, st \in {"none", "net", "filter", "adapter"} :
       Layers(b, st) \in SUBSET {"net", "filter"}
  /\ \A m \in Mode : Class(m) \in {"plain", "accelerator", "provider"} /\ Grants(m) \subseteq Role
  BY DEF Digest, Digests, Class, ExecGrants, ReadGrants, Grants, Layers, Mode, Role, Build

\* A conversion begins, takes its runner and measures the worker.
LEMMA BeginKeeps ==
  ASSUME IInv, NEW c \in Caller, NEW j \in Job, Begin(c, j)
  PROVE  IInv'
  <1> DEFINE m == CASE j = "pdf" -> "pdf" [] j = "audio" -> "asr" [] j = "svg" -> "svg-raster"
             k == [Idle EXCEPT !.mode = m, !.pc = "locate"]
  <1>1. m \in Mode
    BY DEF Job, Mode
  <1>2. call' = [call EXCEPT ![c] = k]
    BY DEF Begin
  <1> HIDE DEF m
  <1>3. k \in CallOf /\ k.pc = "locate" /\ k.unexcused = {}
    BY <1>1, IdleIsCall DEF CallOf, PC, Idle
  <1>4. SharedType' /\ UNCHANGED <<platform, worker, engine, cache, passed, doubtful>>
    BY CallsAssumption DEF Begin, IInv, SharedType, deployed, history
  <1> HIDE DEF k
  <1> QED BY <1>2, <1>3, <1>4, FreshCall

\* The converter's runner is taken, or the call ends without a worker.
LEMMA TakeRunnerKeeps ==
  ASSUME IInv, NEW c \in Caller, TakeRunner(c)
  PROVE  IInv'
  <1>1. call[c] \in CallOf /\ JailInv(c) /\ EngineInv(c)
    BY DEF IInv, CallsInv
  <1>2. SharedType' /\ UNCHANGED <<platform, worker, engine, cache, passed, doubtful>>
    BY <1>1 DEF TakeRunner, IInv, SharedType, deployed, history, CallOf
  <1>3. CASE Return(c)
    BY <1>2, <1>3, ReturnKeeps
  <1>4. CASE Go(c, "digest")
    <2> DEFINE k == [call[c] EXCEPT !.pc = "digest"]
    <2>1. call' = [call EXCEPT ![c] = k]
      BY <1>4 DEF Go, IInv, CallsInv
    <2>2. k \in CallOf /\ k.pc = "digest" /\ k.unexcused = {}
      BY <1>1 DEF CallOf, PC, EngineInv
    <2> HIDE DEF k
    <2> QED BY <1>2, <2>1, <2>2, FreshCall
  <1> QED BY <1>3, <1>4 DEF TakeRunner

\* The digest names the build that is at the worker's path right now.
LEMMA PolicyDigestKeeps ==
  ASSUME IInv, NEW c \in Caller, PolicyDigest(c)
  PROVE  IInv'
  <1>1. call[c] \in CallOf /\ JailInv(c) /\ EngineInv(c)
    BY DEF IInv, CallsInv
  <1>2. SharedType' /\ CacheInv' /\ UNCHANGED <<platform, worker, engine, cache, passed, doubtful>>
    BY DEF PolicyDigest, IInv, SharedType, CacheInv, deployed, history, fixed
  <1>3. CASE worker = "absent"
    BY <1>2, <1>3, ReturnKeeps DEF PolicyDigest
  <1>4. CASE worker # "absent"
    <2> DEFINE k == [call[c] EXCEPT !.digest = Digest(call[c].mode, worker), !.doubt = FALSE,
                                    !.pc = "lookup"]
    <2>1. call' = [call EXCEPT ![c] = k]
      BY <1>4 DEF PolicyDigest, IInv, CallsInv
    <2>2. worker \in Build /\ call[c].mode \in Mode
      BY <1>1, <1>4 DEF IInv, SharedType, CallOf
    <2>3. k \in CallOf
      BY <1>1, <2>2, OperatorTypes DEF CallOf, PC, Measured
    <2>4. call'[c] = k
      BY <2>1 DEF IInv, CallsInv
    <2>5. JailInv(c)' /\ EngineInv(c)'
      BY <1>1, <1>2, <2>2, <2>4, OperatorTypes DEF JailInv, EngineInv, Working, CallOf
    <2> HIDE DEF k
    <2> QED BY <1>2, <2>1, <2>3, <2>5, OneCaller
  <1> QED BY <1>3, <1>4

\* The steps up to the spawn change one caller and nothing that is shared.
Quiet == UNCHANGED <<platform, worker, engine, located, cache, begun, swaps, passed, doubtful>>

\* Such a step keeps what is shared and the cache's verdicts.
LEMMA QuietShared ==
  ASSUME IInv, Quiet
  PROVE  SharedType' /\ CacheInv'
  BY DEF IInv, SharedType, CacheInv, Quiet

\* The cache is looked up: a digest in it goes to the adapter's spawn.
LEMMA EnsureProbedKeeps ==
  ASSUME IInv, NEW c \in Caller, EnsureProbed(c)
  PROVE  IInv'
  <1> DEFINE k == [call[c] EXCEPT !.pc = "grants",
                     !.stage = IF call[c].digest \in cache THEN "adapter" ELSE Stages[1]]
  <1>1. call[c] \in CallOf /\ JailInv(c) /\ EngineInv(c)
    BY DEF IInv, CallsInv
  <1>2. Quiet
    BY DEF EnsureProbed, Quiet, fixed, deployed, history
  <1>3. call' = [call EXCEPT ![c] = k] /\ call'[c] = k
    BY DEF EnsureProbed, IInv, CallsInv
  <1>4. Stages[1] = "net"
    BY DEF Stages
  <1>5. k \in CallOf
    BY <1>1, <1>4 DEF CallOf, PC, Measured
  <1>6. JailInv(c)' /\ EngineInv(c)'
    BY <1>1, <1>2, <1>3, <1>4 DEF EnsureProbed, Quiet, JailInv, EngineInv, Working, Measured, CallOf
  <1> HIDE DEF k
  <1> QED BY <1>2, <1>3, <1>5, <1>6, QuietShared, OneCaller DEF Quiet

\* The grants are looked at, which says nothing of the worker.
LEMMA CheckGrantsKeeps ==
  ASSUME IInv, NEW c \in Caller, CheckGrants(c)
  PROVE  IInv'
  <1>1. call[c] \in CallOf /\ JailInv(c) /\ EngineInv(c)
    BY DEF IInv, CallsInv
  <1>2. Quiet
    BY DEF CheckGrants, Quiet, fixed, deployed, history
  <1>3. CASE Return(c)
    BY <1>2, <1>3, QuietShared, ReturnKeeps DEF Quiet
  <1>4. CASE Go(c, "spawn")
    <2> DEFINE k == [call[c] EXCEPT !.pc = "spawn"]
    <2>1. call' = [call EXCEPT ![c] = k] /\ call'[c] = k
      BY <1>4 DEF Go, IInv, CallsInv
    <2>2. k \in CallOf
      BY <1>1 DEF CallOf, PC, Measured
    <2>3. JailInv(c)' /\ EngineInv(c)'
      BY <1>1, <1>2, <2>1 DEF CheckGrants, Quiet, JailInv, EngineInv, Working, Measured, CallOf
    <2> HIDE DEF k
    <2> QED BY <1>2, <2>1, <2>2, <2>3, QuietShared, OneCaller DEF Quiet
  <1> QED BY <1>3, <1>4 DEF CheckGrants

\* The spawn takes the build at the worker's path: without a doubt, the
\* measured one.
LEMMA SpawnKeeps ==
  ASSUME IInv, NEW c \in Caller, Spawn(c)
  PROVE  IInv'
  <1>1. call[c] \in CallOf /\ JailInv(c) /\ EngineInv(c)
    BY DEF IInv, CallsInv
  <1>2. Quiet
    BY DEF Spawn, Quiet, fixed, deployed, history
  <1>3. CASE Return(c)
    BY <1>2, <1>3, QuietShared, ReturnKeeps DEF Quiet
  <1>4. CASE worker # "absent" /\ call' = [call EXCEPT ![c].build = worker, ![c].pc = "helper"]
    <2> DEFINE k == [call[c] EXCEPT !.build = worker, !.pc = "helper"]
    <2>1. call' = [call EXCEPT ![c] = k] /\ call'[c] = k
      BY <1>4 DEF IInv, CallsInv
    <2>2. worker \in Build
      BY <1>4 DEF IInv, SharedType
    <2>3. k \in CallOf
      BY <1>1, <2>2 DEF CallOf, PC, Measured
    <2>4. JailInv(c)' /\ EngineInv(c)'
      BY <1>1, <1>2, <2>1 DEF Spawn, Quiet, JailInv, EngineInv, Working, Measured, CallOf
    <2> HIDE DEF k
    <2> QED BY <1>2, <2>1, <2>3, <2>4, QuietShared, OneCaller DEF Quiet
  <1> QED BY <1>3, <1>4 DEF Spawn

\* The helper engages what its build engages, and a chain starts with
\* nothing behind it.
LEMMA HelperKeeps ==
  ASSUME IInv, NEW c \in Caller, Helper(c)
  PROVE  IInv'
  <1> DEFINE todo == IF call[c].stage = "adapter" THEN Chain(call[c].mode) ELSE <<>>
             k == [call[c] EXCEPT !.layers = Layers(call[c].build, call[c].stage), !.pc = "mode",
                                  !.todo = todo, !.swapped = {}]
  <1>1. call[c] \in CallOf /\ JailInv(c) /\ EngineInv(c)
    BY DEF IInv, CallsInv
  <1>2. Quiet
    BY DEF Helper, Quiet, fixed, deployed, history
  <1>3. call' = [call EXCEPT ![c] = k] /\ call'[c] = k
    BY DEF Helper, IInv, CallsInv
  <1>4. todo \in Seq(Op)
    <2>1. call[c].mode \in Mode
      BY <1>1 DEF CallOf
    <2>2. Chain(call[c].mode) \in Seq(Op)
      <3> DEFINE G == {"verify", "version", "run"} \X Grants(call[c].mode)
      <3>1. Chain(call[c].mode) \in Seq(G) /\ G \subseteq Op
        BY <2>1, ChainType, OperatorTypes DEF Op
      <3> HIDE DEF G
      <3> QED BY <3>1
    <2> QED BY <2>2
  <1>5. Layers(call[c].build, call[c].stage) \in SUBSET {"net", "filter"}
    BY <1>1, OperatorTypes DEF CallOf
  <1>6. call[c].stage = "adapter" => todo \in Left(call[c].mode) /\ Owed(todo) = {}
    BY <1>1, ChainOwesNothing DEF CallOf
  <1> HIDE DEF todo
  <1>7. k \in CallOf
    BY <1>1, <1>4, <1>5 DEF CallOf, PC, Measured
  <1>8. EngineInv(c)'
    <2>1. /\ k.stage = call[c].stage /\ k.mode = call[c].mode
          /\ k.todo = todo /\ k.unexcused = call[c].unexcused
      BY <1>1 DEF CallOf
    <2> HIDE DEF k
    <2> QED BY <1>1, <1>3, <1>6, <2>1 DEF EngineInv, Working
  <1>9. JailInv(c)'
    <2>1. /\ k.pc = "mode" /\ k.layers = Layers(call[c].build, call[c].stage)
          /\ k.stage = call[c].stage /\ k.mode = call[c].mode /\ k.digest = call[c].digest
          /\ k.doubt = call[c].doubt /\ k.build = call[c].build
      BY <1>1 DEF CallOf
    <2> HIDE DEF k
    <2> QED BY <1>1, <1>2, <1>3, <2>1 DEF Helper, Quiet, JailInv, Working, Measured, Layers
  <1> HIDE DEF k
  <1> QED BY <1>2, <1>3, <1>7, <1>8, <1>9, QuietShared, OneCaller DEF Quiet

\* A helper that refuses ends the call.
LEMMA HelperRefusesKeeps ==
  ASSUME IInv, NEW c \in Caller, HelperRefuses(c)
  PROVE  IInv'
  <1>1. Quiet
    BY DEF HelperRefuses, Quiet, fixed, deployed, history
  <1> QED BY <1>1, QuietShared, ReturnKeeps DEF Quiet, HelperRefuses

\* The network stage passes only under the network layer.
LEMMA NetProbeKeeps ==
  ASSUME IInv, NEW c \in Caller, NetProbe(c)
  PROVE  IInv'
  <1>1. call[c] \in CallOf /\ JailInv(c) /\ EngineInv(c)
    BY DEF IInv, CallsInv
  <1>2. Quiet
    BY DEF NetProbe, Quiet, fixed, deployed, history
  <1>3. CASE Return(c)
    BY <1>2, <1>3, QuietShared, ReturnKeeps DEF Quiet
  <1>4. CASE ~Return(c)
    <2> DEFINE k == IF platform = "linux" THEN [call[c] EXCEPT !.stage = "filter", !.pc = "grants"]
                    ELSE [call[c] EXCEPT !.pc = "insert"]
    <2>1. (Len(Stages) = 2) <=> (platform = "linux")
      BY DEF Stages
    <2>2. call' = [call EXCEPT ![c] = k] /\ call'[c] = k /\ "net" \in call[c].layers
      BY <1>4, <2>1 DEF NetProbe, IInv, CallsInv
    <2>3. k \in CallOf
      BY <1>1 DEF CallOf, PC, Measured
    <2>4. platform = "linux" => call[c].build # "noNet"
      BY <1>1, <2>2 DEF NetProbe, JailInv, Layers
    <2>5. /\ k.unexcused = call[c].unexcused /\ k.digest = call[c].digest
          /\ k.mode = call[c].mode /\ k.doubt = call[c].doubt /\ k.build = call[c].build
          /\ platform = "linux" => k.pc = "grants" /\ k.stage = "filter"
          /\ platform # "linux" => k.pc = "insert"
      BY <1>1 DEF CallOf
    <2> HIDE DEF k
    <2>6. JailInv(c)' /\ EngineInv(c)'
      <3>1. EngineInv(c)'
        BY <1>1, <2>2, <2>5 DEF EngineInv, Working
      <3>2. JailInv(c)'
        BY <1>1, <1>2, <2>2, <2>4, <2>5 DEF NetProbe, Quiet, JailInv, Working, Measured
      <3> QED BY <3>1, <3>2
    <2> QED BY <1>2, <2>2, <2>3, <2>6, QuietShared, OneCaller DEF Quiet
  <1> QED BY <1>3, <1>4

\* The filter stage passes under the filter, or with a doubt.
LEMMA FilterProbeKeeps ==
  ASSUME IInv, NEW c \in Caller, FilterProbe(c)
  PROVE  IInv'
  <1>1. call[c] \in CallOf /\ JailInv(c) /\ EngineInv(c)
    BY DEF IInv, CallsInv
  <1>2. Quiet
    BY DEF FilterProbe, Quiet, fixed, deployed, history
  <1>3. CASE Return(c)
    BY <1>2, <1>3, QuietShared, ReturnKeeps DEF Quiet
  <1>4. CASE ~Return(c)
    <2>1. PICK doubt \in BOOLEAN :
            /\ call' = [call EXCEPT ![c] = [call[c] EXCEPT !.pc = "insert", !.doubt = doubt]]
            /\ ~doubt => "filter" \in call[c].layers /\ ~call[c].doubt
      <3>1. CASE "filter" \in call[c].layers /\ Go(c, "insert")
        <4>1. call[c].doubt \in BOOLEAN
          BY <1>1 DEF CallOf
        <4>2. [call[c] EXCEPT !.pc = "insert"]
                = [call[c] EXCEPT !.pc = "insert", !.doubt = call[c].doubt]
          BY <1>1 DEF CallOf
        <4>3. call' = [call EXCEPT ![c] = [call[c] EXCEPT !.pc = "insert", !.doubt = call[c].doubt]]
          BY <3>1, <4>2 DEF Go
        <4> QED BY <3>1, <4>1, <4>3
      <3>2. CASE call' = [call EXCEPT ![c].pc = "insert", ![c].doubt = TRUE]
        <4>1. call' = [call EXCEPT ![c] = [call[c] EXCEPT !.pc = "insert", !.doubt = TRUE]]
          BY <1>1, <3>2 DEF IInv, CallsInv
        <4> QED BY <4>1
      <3> QED BY <1>4, <3>1, <3>2 DEF FilterProbe
    <2> DEFINE k == [call[c] EXCEPT !.pc = "insert", !.doubt = doubt]
    <2>2. call' = [call EXCEPT ![c] = k] /\ call'[c] = k
      BY <2>1 DEF IInv, CallsInv
    <2>3. k \in CallOf
      BY <1>1 DEF CallOf, PC, Measured
    <2>4. ~doubt /\ platform = "linux" => call[c].build = "good"
      <3> HAVE ~doubt /\ platform = "linux"
      <3>1. call[c].build \notin {"noNet", "noFilter"} /\ call[c].build \in Build
        BY <1>1, <2>1 DEF FilterProbe, JailInv, Layers, CallOf, Measured
      <3> QED BY <3>1 DEF Build
    <2>5. EngineInv(c)'
      <3>1. k.unexcused = call[c].unexcused /\ k.pc = "insert"
        BY <1>1 DEF CallOf
      <3> HIDE DEF k
      <3> QED BY <1>1, <2>2, <3>1 DEF EngineInv, Working
    <2>6. JailInv(c)'
      BY <1>1, <1>2, <2>1, <2>2, <2>4 DEF FilterProbe, Quiet, JailInv, Working, Measured, CallOf
    <2> HIDE DEF k
    <2> QED BY <1>2, <2>2, <2>3, <2>5, <2>6, QuietShared, OneCaller DEF Quiet
  <1> QED BY <1>3, <1>4

\* The verdict of a probe enters the cache: clean, with the build it was
\* spawned from, or doubtful.
LEMMA InsertKeeps ==
  ASSUME IInv, NEW c \in Caller, Insert(c)
  PROVE  IInv'
  <1> DEFINE k == [call[c] EXCEPT !.stage = "adapter", !.pc = "grants"]
             d == call[c].digest
  <1>1. call[c] \in CallOf /\ JailInv(c) /\ EngineInv(c)
    BY DEF IInv, CallsInv
  <1>2. UNCHANGED <<platform, worker, engine, located, begun, swaps>> /\ cache' = cache \cup {d}
    BY DEF Insert, fixed, deployed
  <1>3. call' = [call EXCEPT ![c] = k] /\ call'[c] = k
    BY DEF Insert, IInv, CallsInv
  <1>4. k \in CallOf
    BY <1>1 DEF CallOf, PC, Measured
  <1>5. /\ d \in Digests /\ d.class = Class(call[c].mode)
        /\ ~call[c].doubt => call[c].build = d.worker
        /\ ~call[c].doubt /\ platform = "linux" => call[c].build = "good"
    BY <1>1 DEF Insert, JailInv, Measured
  <1>6. SharedType' /\ CacheInv'
    <2>1. CASE call[c].doubt
      BY <1>2, <1>5, <2>1 DEF Insert, IInv, SharedType, CacheInv
    <2>2. CASE ~call[c].doubt
      <3>1. passed' = passed \cup {<<d.class, d.worker>>} /\ doubtful' = doubtful
        BY <1>5, <2>2 DEF Insert
      <3>2. d.class \in {"plain", "accelerator", "provider"} /\ d.worker \in Build
        BY <1>5 DEF Digests
      <3>3. SharedType'
        BY <1>2, <1>5, <3>1, <3>2 DEF IInv, SharedType
      <3>4. CacheInv'
        BY <1>2, <1>5, <2>2, <3>1 DEF IInv, CacheInv
      <3> QED BY <3>3, <3>4
    <2> QED BY <2>1, <2>2
  <1>7. /\ k.unexcused = call[c].unexcused /\ k.digest = d /\ k.mode = call[c].mode
        /\ k.doubt = call[c].doubt /\ k.pc = "grants" /\ k.stage = "adapter"
    BY <1>1 DEF CallOf
  <1> HIDE DEF k
  <1>8. JailInv(c)'
    BY <1>1, <1>2, <1>3, <1>7 DEF Insert, JailInv, Working, Measured
  <1>9. EngineInv(c)'
    BY <1>1, <1>3, <1>7 DEF EngineInv, Working
  <1> HIDE DEF d
  <1> QED BY <1>2, <1>3, <1>4, <1>6, <1>8, <1>9, OneCaller

\* What a working mode has left is a suffix of its chain.
LEMMA WorkingTodo ==
  ASSUME IInv, NEW c \in Caller, Working(c), call[c].todo # <<>>
  PROVE  /\ call[c].mode \in Mode /\ call[c].todo \in Left(call[c].mode)
         /\ Tail(call[c].todo) \in Left(call[c].mode) /\ Tail(call[c].todo) \in Seq(Op)
         /\ Head(call[c].todo) \in {"verify", "version", "run"} \X Role
  <1> DEFINE m == call[c].mode
             s == call[c].todo
             G == {"verify", "version", "run"} \X Grants(m)
  <1>1. m \in Mode /\ s \in Left(m) /\ s # <<>>
    BY DEF IInv, CallsInv, CallOf, EngineInv
  <1>2. G \subseteq Op /\ Op = {"verify", "version", "run"} \X Role
    BY <1>1, OperatorTypes DEF Op
  <1>3. s \in Seq(G)
    BY <1>1, LeftIsSeq
  <1>4. Tail(s) \in Left(m)
    BY <1>1, LeftTail
  <1> HIDE DEF m, s, G
  <1>5. Tail(s) \in Seq(Op) /\ Head(s) \in Op
    BY <1>1, <1>2, <1>3
  <1> QED BY <1>1, <1>2, <1>4, <1>5 DEF m, s

\* A verification adds to what is owed only what it found as pinned.
LEMMA VerifyKeeps ==
  ASSUME IInv, NEW c \in Caller, Verify(c)
  PROVE  IInv'
  <1>1. call[c] \in CallOf /\ JailInv(c) /\ EngineInv(c)
    BY DEF IInv, CallsInv
  <1>2. Quiet
    BY DEF Verify, Quiet, fixed, deployed, history
  <1>3. CASE Return(c)
    BY <1>2, <1>3, QuietShared, ReturnKeeps DEF Quiet
  <1>4. CASE ~Return(c)
    <2> DEFINE s == call[c].todo
               k == [call[c] EXCEPT !.todo = Tail(s)]
    <2>1. Working(c) /\ s # <<>> /\ Head(s)[1] = "verify" /\ Pinned(Head(s)[2])
      BY <1>4 DEF Verify, NextIs
    <2>2. /\ call[c].mode \in Mode /\ s \in Left(call[c].mode)
          /\ Tail(s) \in Left(call[c].mode) /\ Tail(s) \in Seq(Op)
      BY <2>1, WorkingTodo
    <2>3. call' = [call EXCEPT ![c] = k] /\ call'[c] = k
      BY <1>4 DEF Verify, IInv, CallsInv
    <2>4. \A r \in Owed(Tail(s)) : Pinned(r) \/ r \in call[c].swapped
      <3> TAKE r \in Owed(Tail(s))
      <3>1. CASE Head(s) = <<"verify", r>>
        BY <2>1, <3>1
      <3>2. CASE r \in Owed(s)
        BY <1>1, <2>1, <3>2 DEF EngineInv
      <3> QED BY <2>1, <2>2, <3>1, <3>2, OwedTail
    <2> HIDE DEF s
    <2>5. k \in CallOf
      BY <1>1, <2>2 DEF CallOf
    <2>6. call'[c].todo = Tail(s)
      BY <1>1, <2>3 DEF CallOf
    <2>7. /\ UNCHANGED <<call[c].pc, call[c].stage, call[c].mode, call[c].swapped, call[c].unexcused>>
          /\ UNCHANGED <<call[c].digest, call[c].doubt, call[c].build, call[c].layers>>
      BY <1>1, <2>3 DEF CallOf
    <2>8. JailInv(c)'
      BY <1>1, <1>2, <2>7 DEF Quiet, JailInv, Working, Layers
    <2>9. EngineInv(c)'
      BY <1>1, <1>2, <2>2, <2>4, <2>6, <2>7 DEF Quiet, EngineInv, Working, Pinned
    <2> HIDE DEF k
    <2> QED BY <1>2, <2>3, <2>5, <2>8, <2>9, QuietShared, OneCaller DEF Quiet
  <1> QED BY <1>3, <1>4

\* An execution uses only what is owed, so nothing unexcused runs.
LEMMA NothingUnexcused ==
  ASSUME IInv, NEW c \in Caller, Working(c), call[c].todo # <<>>,
         Head(call[c].todo)[1] \in Runs
  PROVE  Unexcused(c, Head(call[c].todo)[2]) = {}
  <1> DEFINE s == call[c].todo
  <1>1. call[c].mode \in Mode /\ s \in Left(call[c].mode)
    BY WorkingTodo
  <1>2. \A r \in Owed(s) : Pinned(r) \/ r \in call[c].swapped
    BY DEF IInv, CallsInv, EngineInv
  <1>3. Uses(Head(s)[2]) \subseteq Owed(s)
    BY <1>1, OwedHead
  <1> QED BY <1>2, <1>3 DEF Unexcused

\* The version check executes an engine and leaves the rest of the chain as
\* owed as it was.
LEMMA AssertVersionKeeps ==
  ASSUME IInv, NEW c \in Caller, AssertVersion(c)
  PROVE  IInv'
  <1>1. call[c] \in CallOf /\ JailInv(c) /\ EngineInv(c)
    BY DEF IInv, CallsInv
  <1>2. Quiet
    BY DEF AssertVersion, Quiet, fixed, deployed, history
  <1>3. CASE Return(c)
    BY <1>2, <1>3, QuietShared, ReturnKeeps DEF Quiet
  <1>4. CASE ~Return(c)
    <2> DEFINE s == call[c].todo
               bad == Unexcused(c, Head(s)[2])
               k == [call[c] EXCEPT !.todo = Tail(s), !.unexcused = call[c].unexcused \cup bad]
    <2>1. Working(c) /\ s # <<>> /\ Head(s)[1] = "version"
      BY <1>4 DEF AssertVersion, NextIs
    <2>2. /\ call[c].mode \in Mode /\ s \in Left(call[c].mode)
          /\ Tail(s) \in Left(call[c].mode) /\ Tail(s) \in Seq(Op)
      BY <2>1, WorkingTodo
    <2>3. call' = [call EXCEPT ![c] = k] /\ call'[c] = k
      BY <1>4 DEF AssertVersion, IInv, CallsInv
    <2>4. bad = {}
      BY <2>1, NothingUnexcused DEF Runs
    <2>5. \A r \in Owed(Tail(s)) : Pinned(r) \/ r \in call[c].swapped
      <3>1. \A r : Head(s) # <<"verify", r>>
        BY <2>1
      <3>2. Owed(Tail(s)) \subseteq Owed(s)
        BY <2>1, <2>2, <3>1, OwedTail
      <3> QED BY <1>1, <2>1, <3>2 DEF EngineInv
    <2> HIDE DEF s, bad
    <2>6. call[c].unexcused = {}
      BY <1>1 DEF EngineInv
    <2>7. k \in CallOf
      BY <1>1, <2>2, <2>4 DEF CallOf
    <2>8. /\ k.todo = Tail(s) /\ k.unexcused = {} /\ k.swapped = call[c].swapped
          /\ k.pc = call[c].pc /\ k.stage = call[c].stage /\ k.mode = call[c].mode
          /\ k.digest = call[c].digest /\ k.doubt = call[c].doubt
          /\ k.build = call[c].build /\ k.layers = call[c].layers
      BY <1>1, <2>4, <2>6 DEF CallOf
    <2> HIDE DEF k
    <2>9. JailInv(c)'
      <3>1. UNCHANGED <<call[c].pc, call[c].stage, call[c].mode, call[c].digest,
                        call[c].doubt, call[c].build, call[c].layers>>
        BY <2>3, <2>8
      <3> QED BY <1>1, <1>2, <3>1 DEF Quiet, JailInv, Working, Layers
    <2>10. EngineInv(c)'
      BY <1>2, <2>2, <2>3, <2>5, <2>8 DEF Quiet, EngineInv, Working, Pinned
    <2> QED BY <1>2, <2>3, <2>7, <2>9, <2>10, QuietShared, OneCaller DEF Quiet
  <1> QED BY <1>3, <1>4

\* What an execution leaves owed is excused by what was replaced since.
LEMMA ExecuteKeeps ==
  ASSUME IInv, NEW c \in Caller, Execute(c)
  PROVE  IInv'
  <1>1. call[c] \in CallOf /\ JailInv(c) /\ EngineInv(c)
    BY DEF IInv, CallsInv
  <1>2. Quiet
    BY DEF Execute, Quiet, fixed, deployed, history
  <1>3. CASE Return(c)
    BY <1>2, <1>3, QuietShared, ReturnKeeps DEF Quiet
  <1>4. CASE ~Return(c)
    <2> DEFINE s == call[c].todo
               bad == Unexcused(c, Head(s)[2])
               swapped == IF call[c].mode = "svg-raster" THEN {} ELSE call[c].swapped
               k == [call[c] EXCEPT !.todo = Tail(s), !.unexcused = call[c].unexcused \cup bad,
                                    !.swapped = swapped]
    <2>1. Working(c) /\ s # <<>> /\ Head(s)[1] = "run"
      BY <1>4 DEF Execute, NextIs
    <2>2. /\ call[c].mode \in Mode /\ s \in Left(call[c].mode)
          /\ Tail(s) \in Left(call[c].mode) /\ Tail(s) \in Seq(Op)
      BY <2>1, WorkingTodo
    <2>3. call' = [call EXCEPT ![c] = k] /\ call'[c] = k
      BY <1>4 DEF Execute, IInv, CallsInv
    <2>4. \A r \in Owed(s) : Pinned(r) \/ r \in call[c].swapped
      BY <1>1, <2>1 DEF EngineInv
    <2>5. bad = {}
      BY <2>1, NothingUnexcused DEF Runs
    <2>6. \A r \in Owed(Tail(s)) : Pinned(r) \/ r \in swapped
      <3>1. CASE call[c].mode = "svg-raster"
        BY <2>1, <2>2, <3>1, ProviderOwesNothing
      <3>2. CASE call[c].mode # "svg-raster"
        <4>1. \A r : Head(s) # <<"verify", r>>
          BY <2>1
        <4>2. Owed(Tail(s)) \subseteq Owed(s)
          BY <2>1, <2>2, <4>1, OwedTail
        <4> QED BY <2>4, <3>2, <4>2
      <3> QED BY <3>1, <3>2
    <2> HIDE DEF s, bad
    <2>7. /\ call[c].swapped \in SUBSET Role /\ call[c].unexcused = {}
      BY <1>1 DEF CallOf, EngineInv
    <2>8. swapped \in SUBSET Role
      BY <2>7
    <2> HIDE DEF swapped
    <2>9. k \in CallOf
      BY <1>1, <2>2, <2>5, <2>8 DEF CallOf
    <2>10. /\ k.todo = Tail(s) /\ k.unexcused = {} /\ k.swapped = swapped
           /\ k.pc = call[c].pc /\ k.stage = call[c].stage /\ k.mode = call[c].mode
           /\ k.digest = call[c].digest /\ k.doubt = call[c].doubt
           /\ k.build = call[c].build /\ k.layers = call[c].layers
      BY <1>1, <2>5, <2>7 DEF CallOf
    <2> HIDE DEF k
    <2>11. JailInv(c)'
      <3>1. UNCHANGED <<call[c].pc, call[c].stage, call[c].mode, call[c].digest,
                        call[c].doubt, call[c].build, call[c].layers>>
        BY <2>3, <2>10
      <3> QED BY <1>1, <1>2, <3>1 DEF Quiet, JailInv, Working, Layers
    <2>12. EngineInv(c)'
      BY <1>2, <2>2, <2>3, <2>6, <2>10 DEF Quiet, EngineInv, Working, Pinned
    <2> QED BY <1>2, <2>3, <2>9, <2>11, <2>12, QuietShared, OneCaller DEF Quiet
  <1> QED BY <1>3, <1>4

\* The provider's raster is read by a recognition call, which begins afresh.
LEMMA AnswerKeeps ==
  ASSUME IInv, NEW c \in Caller, Answer(c)
  PROVE  IInv'
  <1>1. Quiet
    BY DEF Answer, Quiet, fixed, deployed, history
  <1>2. CASE Return(c)
    BY <1>1, <1>2, QuietShared, ReturnKeeps DEF Quiet
  <1>3. CASE ~Return(c)
    <2> DEFINE k == [Idle EXCEPT !.mode = "image-ocr", !.pc = "locate"]
    <2>1. call' = [call EXCEPT ![c] = k]
      BY <1>3 DEF Answer
    <2>2. k \in CallOf /\ k.pc = "locate" /\ k.unexcused = {}
      BY IdleIsCall DEF CallOf, PC, Idle, Mode
    <2> HIDE DEF k
    <2> QED BY <1>1, <2>1, <2>2, QuietShared, FreshCall DEF Quiet
  <1> QED BY <1>2, <1>3

\* A replaced worker leaves a doubt with every call that has measured it and
\* is not at work yet.
LEMMA ReplaceWorkerKeeps ==
  ASSUME IInv, ReplaceWorker
  PROVE  IInv'
  <1>1. /\ worker' \in Build \cup {"absent"} /\ swaps' = swaps + 1 /\ swaps < MaxSwaps
        /\ UNCHANGED <<platform, located, begun, engine, cache, passed, doubtful>>
    BY DEF ReplaceWorker, fixed, history
  <1>2. SharedType' /\ CacheInv'
    BY <1>1, CallsAssumption DEF IInv, SharedType, CacheInv
  <1>3. ASSUME NEW c \in Caller
        PROVE  call'[c] \in CallOf /\ JailInv(c)' /\ EngineInv(c)'
    <2>1. call[c] \in CallOf /\ JailInv(c) /\ EngineInv(c)
      BY DEF IInv, CallsInv
    <2>2. CASE call[c].pc \in Measured /\ ~Working(c)
      <3> DEFINE k == [call[c] EXCEPT !.doubt = TRUE]
      <3>1. call'[c] = k
        BY <2>2 DEF ReplaceWorker
      <3>2. k \in CallOf
        BY <2>1 DEF CallOf
      <3>3. /\ k.pc = call[c].pc /\ k.stage = call[c].stage /\ k.mode = call[c].mode
            /\ k.digest = call[c].digest /\ k.doubt = TRUE /\ k.build = call[c].build
            /\ k.layers = call[c].layers /\ k.unexcused = call[c].unexcused
        BY <2>1 DEF CallOf
      <3> HIDE DEF k
      <3>4. JailInv(c)'
        BY <1>1, <2>1, <3>1, <3>3 DEF JailInv, Working, Layers
      <3>5. EngineInv(c)'
        BY <2>1, <2>2, <3>1, <3>3 DEF EngineInv, Working
      <3> QED BY <3>1, <3>2, <3>4, <3>5
    <2>3. CASE ~(call[c].pc \in Measured /\ ~Working(c))
      <3>1. call'[c] = call[c]
        BY <2>3 DEF ReplaceWorker
      <3>2. JailInv(c)'
        BY <1>1, <2>1, <2>3, <3>1 DEF JailInv, Working, Layers
      <3>3. EngineInv(c)'
        BY <1>1, <2>1, <3>1 DEF EngineInv, Working, Pinned
      <3> QED BY <2>1, <3>1, <3>2, <3>3
    <2> QED BY <2>2, <2>3
  <1>4. call' \in [Caller -> CallOf]
    <2>1. call' = [c \in Caller |-> call'[c]]
      BY DEF ReplaceWorker
    <2> QED BY <1>3, <2>1
  <1> QED BY <1>2, <1>3, <1>4 DEF IInv, CallsInv

\* A replaced engine is noted by every mode at work that was granted it.
LEMMA ReplaceEngineKeeps ==
  ASSUME IInv, NEW r \in Role, ReplaceEngine(r)
  PROVE  IInv'
  <1>1. /\ swaps' = swaps + 1 /\ swaps < MaxSwaps
        /\ UNCHANGED <<platform, located, begun, worker, cache, passed, doubtful>>
        /\ \E x \in {"pinned", "drifted", "absent"} : engine' = [engine EXCEPT ![r] = x]
    BY DEF ReplaceEngine, fixed, history
  <1>2. engine' \in [Role -> {"pinned", "drifted", "absent"}]
        /\ \A u \in Role \ {r} : engine'[u] = engine[u]
    BY <1>1 DEF IInv, SharedType
  <1>3. SharedType' /\ CacheInv'
    BY <1>1, <1>2, CallsAssumption DEF IInv, SharedType, CacheInv
  <1>4. ASSUME NEW c \in Caller
        PROVE  call'[c] \in CallOf /\ JailInv(c)' /\ EngineInv(c)'
    <2>1. call[c] \in CallOf /\ JailInv(c) /\ EngineInv(c) /\ call[c].mode \in Mode
      BY DEF IInv, CallsInv, CallOf
    <2>2. CASE Working(c) /\ r \in Grants(call[c].mode)
      <3> DEFINE k == [call[c] EXCEPT !.swapped = call[c].swapped \cup {r}]
      <3>1. call'[c] = k
        BY <2>2 DEF ReplaceEngine
      <3>2. k \in CallOf
        BY <2>1 DEF CallOf
      <3>3. /\ k.pc = call[c].pc /\ k.stage = call[c].stage /\ k.mode = call[c].mode
            /\ k.digest = call[c].digest /\ k.doubt = call[c].doubt /\ k.build = call[c].build
            /\ k.layers = call[c].layers /\ k.unexcused = call[c].unexcused
            /\ k.todo = call[c].todo /\ k.swapped = call[c].swapped \cup {r}
        BY <2>1 DEF CallOf
      <3> HIDE DEF k
      <3>4. JailInv(c)'
        BY <1>1, <2>1, <3>1, <3>3 DEF JailInv, Working, Layers
      <3>5. \A u \in Owed(call[c].todo) : u \in Role
        BY DEF Owed
      <3>6. EngineInv(c)'
        BY <1>2, <2>1, <2>2, <3>1, <3>3, <3>5 DEF EngineInv, Working, Pinned
      <3> QED BY <3>1, <3>2, <3>4, <3>6
    <2>3. CASE ~(Working(c) /\ r \in Grants(call[c].mode))
      <3>1. call'[c] = call[c]
        BY <2>3 DEF ReplaceEngine
      <3>2. JailInv(c)'
        BY <1>1, <2>1, <3>1 DEF JailInv, Working, Layers
      <3>3. EngineInv(c)'
        <4>1. CASE ~Working(c)
          BY <2>1, <3>1, <4>1 DEF EngineInv, Working
        <4>2. CASE Working(c)
          <5>1. Owed(call[c].todo) \subseteq Role \ {r}
            BY <2>1, <2>3, <4>2, OwedGranted DEF EngineInv, Owed
          <5> QED BY <1>2, <2>1, <3>1, <5>1 DEF EngineInv, Working, Pinned
        <4> QED BY <4>1, <4>2
      <3> QED BY <2>1, <3>1, <3>2, <3>3
    <2> QED BY <2>2, <2>3
  <1>5. call' \in [Caller -> CallOf]
    <2>1. call' = [c \in Caller |-> call'[c]]
      BY DEF ReplaceEngine
    <2> QED BY <1>4, <2>1
  <1> QED BY <1>3, <1>4, <1>5 DEF IInv, CallsInv

-----------------------------------------------------------------------------
(* The theorems *)

\* Nothing is cached and nobody has begun.
LEMMA InitIInv == Init => IInv
  <1> SUFFICES ASSUME Init PROVE IInv
    OBVIOUS
  <1>1. located \in [Mode -> {"unset", "ready", "failed"}]
    BY DEF Init, Constructed
  <1>2. SharedType /\ CacheInv
    BY <1>1, CallsAssumption DEF Init, SharedType, CacheInv
  <1>3. CallsInv
    BY IdleIsCall DEF Init, CallsInv, JailInv, EngineInv, Working, Measured
  <1> QED BY <1>2, <1>3 DEF IInv

\* Every step keeps the invariant.
LEMMA NextIInv == IInv /\ [Next]_vars => IInv'
  <1> SUFFICES ASSUME IInv, [Next]_vars PROVE IInv'
    OBVIOUS
  <1>1. CASE ReplaceWorker
    BY <1>1, ReplaceWorkerKeeps
  <1>2. CASE \E r \in Role : ReplaceEngine(r)
    BY <1>2, ReplaceEngineKeeps
  <1>3. ASSUME NEW c \in Caller, NEW j \in Job, Begin(c, j) PROVE IInv'
    BY <1>3, BeginKeeps
  <1>4. ASSUME NEW c \in Caller, Step(c) PROVE IInv'
    BY <1>4, TakeRunnerKeeps, PolicyDigestKeeps, EnsureProbedKeeps, CheckGrantsKeeps, SpawnKeeps,
       HelperKeeps, HelperRefusesKeeps, NetProbeKeeps, FilterProbeKeeps, InsertKeeps,
       VerifyKeeps, AssertVersionKeeps, ExecuteKeeps, AnswerKeeps
    DEF Step
  <1>5. CASE UNCHANGED vars
    BY <1>5 DEF vars, IInv, SharedType, CacheInv, CallsInv, JailInv, EngineInv, Working, Layers, Pinned
  <1> QED BY <1>1, <1>2, <1>3, <1>4, <1>5 DEF Next

\* What the cache, the callers and the chains know holds in every reachable
\* state.
THEOREM InvariantHolds == Spec => []IInv
  BY InitIInv, NextIInv, PTL DEF Spec

\* Every variable of the calls keeps its type.
THEOREM TypeCorrect == Spec => []TypeOK
  <1>1. IInv => TypeOK
    BY DEF IInv, SharedType, CallsInv, JailInv, CallOf, Digests, TypeOK
  <1> QED BY <1>1, InvariantHolds, PTL

\* Whoever probed, whatever failed and whatever was replaced in between, an
\* adapter mode works under the jail a clean probe of its class showed for
\* the build it was spawned from.
THEOREM JailWasShown == Spec => []ProbedAsSpawned
  <1>1. IInv => ProbedAsSpawned
    <2> SUFFICES ASSUME IInv, NEW c \in Caller, Working(c), ~call[c].doubt,
                        call[c].digest \notin doubtful
                 PROVE  /\ call[c].layers = Required
                        /\ <<Class(call[c].mode), call[c].build>> \in passed
      BY DEF ProbedAsSpawned
    <2>1. /\ call[c].digest \in cache /\ call[c].digest.class = Class(call[c].mode)
          /\ call[c].build = call[c].digest.worker
          /\ call[c].layers = Layers(call[c].build, "adapter")
      BY DEF IInv, CallsInv, JailInv, Working, Measured
    <2>2. <<Class(call[c].mode), call[c].build>> \in passed
      BY <2>1 DEF IInv, CacheInv
    <2>3. platform = "linux" => call[c].build = "good"
      BY <2>2 DEF IInv, CacheInv
    <2>4. call[c].layers = Required
      BY <2>1, <2>3 DEF Layers, Required, IInv, SharedType
    <2> QED BY <2>2, <2>4
  <1> QED BY <1>1, InvariantHolds, PTL

\* No engine runs that is not as pinned, unless it was replaced after its
\* own verification.
THEOREM EnginesAreAsVerified == Spec => []EnginesRunVerified
  <1>1. IInv => EnginesRunVerified
    BY DEF IInv, CallsInv, EngineInv, EnginesRunVerified
  <1> QED BY <1>1, InvariantHolds, PTL
=============================================================================
