----------------------------- MODULE AgentProofs -----------------------------
(***************************************************************************)
(* Proofs about the agent's boot, for any number of JVMs and threads, and  *)
(* about the attach requests that lead to it, for any number of requests.  *)
(*                                                                         *)
(* The argument for the boot.  BootsOnce cannot be proved by itself: it    *)
(* needs to know that a thread about to install or to connect is the first *)
(* to do so.  Three facts give that, and Inductive is their conjunction:   *)
(* the thread inside main owns the monitor (Exclusion); the property is    *)
(* set from the first step that can fail on (BootingIsStarted); and how    *)
(* much of the boot is done is determined by where the booting thread is   *)
(* (Progress).                                                             *)
(*                                                                         *)
(* The argument for the requests.  Whatever the boot does, it leaves the   *)
(* variables of the requests alone, so that AttachInductive speaks of      *)
(* these only: a request past getInstance has seen an instance or made     *)
(* one, and a handle is open only between attach and the end of its        *)
(* request.  For LoadedMeansBootOver the boot counts: every step of a      *)
(* request or of a JVM keeps Inductive, and that gives that the entry      *)
(* point returns to the listener only from a boot that is over, and stays  *)
(* over (Loading).                                                         *)
(***************************************************************************)
EXTENDS Attach, TLAPS

\* The thread inside main is the owner of the monitor, and the owner of the
\* monitor is inside main; likewise for AgentApplication.
Exclusion ==
  \A j \in Jvm, t \in Thread :
    /\ pc[j][t] \in Inside <=> monitor[j] = t
    /\ pc[j][t] \in InApplication <=> appMonitor[j] = t

BootingIsStarted ==
  \A j \in Jvm, t \in Thread :
    /\ pc[j][t] \in Booting => started[j]
    /\ pc[j][t] = "set" => ~started[j]

NothingDone(j) == transformers[j] = 0 /\ ~client[j] /\ connectors[j] = 0

\* What the boot has done so far, by where the booting thread is.
Progress ==
  \A j \in Jvm :
    /\ ~started[j] => NothingDone(j)
    /\ \A t \in Thread :
         /\ pc[j][t] \in {"load", "construct", "install"} => NothingDone(j)
         /\ pc[j][t] = "client" => transformers[j] = 1 /\ connectors[j] = 0
         /\ pc[j][t] = "connect" =>
              transformers[j] = 1 /\ client[j] /\ connectors[j] = 0

\* What the boot has done by the time it is over.
Outcome ==
  \A j \in Jvm :
    /\ transformers[j] \in {0, 1}
    /\ connectors[j] \in {0, 1}
    /\ connectors[j] = 1 => client[j] /\ transformers[j] = 1

Inductive == TypeOK /\ Exclusion /\ BootingIsStarted /\ Progress /\ Outcome

-----------------------------------------------------------------------------
LEMMA InitInductive == Init => Inductive
  BY NoThreadAssumption
  DEF Init, Inductive, TypeOK, Exclusion, BootingIsStarted, Progress, Outcome,
      NothingDone, Locations, Inside, Booting, InApplication, Applications

LEMMA StutterInductive == Inductive /\ UNCHANGED vars => Inductive'
  BY DEF vars, Inductive, TypeOK, Exclusion, BootingIsStarted, Progress,
         Outcome, NothingDone

\* Giving up: a booting thread leaves main with nothing else changed.
LEMMA LeaveInductive ==
  ASSUME NEW j \in Jvm, NEW t \in Thread, Inductive,
         pc[j][t] \in Booting, Leave(j, t),
         UNCHANGED <<inst, started, transformers, client, connectors>>,
         application' \in [Jvm -> Applications]
  PROVE  Inductive'
<1> USE NoThreadAssumption DEF Inductive
<1>1. TypeOK'
  BY DEF Leave, Goto,
      TypeOK, Applications, Locations, Inside, Booting, InApplication
<1>2. Exclusion'
  BY DEF Leave, Goto,
      TypeOK, Exclusion, Locations, Inside, Booting, InApplication
<1>3. BootingIsStarted'
  BY DEF Leave, Goto,
      TypeOK, BootingIsStarted, Exclusion, Locations, Inside, Booting, InApplication
<1>4. Progress'
  BY DEF Leave, Goto,
      TypeOK, Exclusion, BootingIsStarted, Progress, NothingDone,
      Outcome, Locations, Inside, Booting, InApplication
<1>5. Outcome'
  BY DEF Leave, Goto,
      TypeOK, Progress, NothingDone, Outcome
<1> QED
  BY <1>1, <1>2, <1>3, <1>4, <1>5 DEF Inductive

\* Every step of the boot keeps the invariant, one action at a time.
LEMMA StepInductive == Inductive /\ Next => Inductive'
<1> SUFFICES ASSUME Inductive, Next PROVE Inductive'
  OBVIOUS
<1> USE NoThreadAssumption, EntryAssumption DEF Inductive
<1>1. ASSUME NEW j \in Jvm, NEW t \in Thread, NEW i \in Entry, Call(j, t, i)
      PROVE  Inductive'
  <2>1. TypeOK'
    BY <1>1
    DEF Call, GoOn, Goto,
        TypeOK, Applications, Locations, Inside, Booting, InApplication
  <2>2. Exclusion'
    BY <1>1
    DEF Call, GoOn, Goto,
        TypeOK, Exclusion, Locations, Inside, Booting, InApplication
  <2>3. BootingIsStarted'
    BY <1>1
    DEF Call, GoOn, Goto,
        TypeOK, BootingIsStarted, Exclusion, Locations, Inside, Booting, InApplication
  <2>4. Progress'
    BY <1>1
    DEF Call, GoOn, Goto,
        TypeOK, Exclusion, BootingIsStarted, Progress, NothingDone,
        Outcome, Locations, Inside, Booting, InApplication
  <2>5. Outcome'
    BY <1>1
    DEF Call, GoOn, Goto,
        TypeOK, Progress, NothingDone, Outcome
  <2> QED
    BY <2>1, <2>2, <2>3, <2>4, <2>5 DEF Inductive
<1>2. ASSUME NEW j \in Jvm, NEW t \in Thread, Acquire(j, t)
      PROVE  Inductive'
  <2>1. TypeOK'
    BY <1>2
    DEF Acquire, Goto,
        TypeOK, Applications, Locations, Inside, Booting, InApplication
  <2>2. Exclusion'
    BY <1>2
    DEF Acquire, Goto,
        TypeOK, Exclusion, Locations, Inside, Booting, InApplication
  <2>3. BootingIsStarted'
    BY <1>2
    DEF Acquire, Goto,
        TypeOK, BootingIsStarted, Exclusion, Locations, Inside, Booting, InApplication
  <2>4. Progress'
    BY <1>2
    DEF Acquire, Goto,
        TypeOK, Exclusion, BootingIsStarted, Progress, NothingDone,
        Outcome, Locations, Inside, Booting, InApplication
  <2>5. Outcome'
    BY <1>2
    DEF Acquire, Goto,
        TypeOK, Progress, NothingDone, Outcome
  <2> QED
    BY <2>1, <2>2, <2>3, <2>4, <2>5 DEF Inductive
<1>3. ASSUME NEW j \in Jvm, NEW t \in Thread, AlreadyStarted(j, t)
      PROVE  Inductive'
  <2>1. TypeOK'
    BY <1>3
    DEF AlreadyStarted, Leave, Goto,
        TypeOK, Applications, Locations, Inside, Booting, InApplication
  <2>2. Exclusion'
    BY <1>3
    DEF AlreadyStarted, Leave, Goto,
        TypeOK, Exclusion, Locations, Inside, Booting, InApplication
  <2>3. BootingIsStarted'
    BY <1>3
    DEF AlreadyStarted, Leave, Goto,
        TypeOK, BootingIsStarted, Exclusion, Locations, Inside, Booting, InApplication
  <2>4. Progress'
    BY <1>3
    DEF AlreadyStarted, Leave, Goto,
        TypeOK, Exclusion, BootingIsStarted, Progress, NothingDone,
        Outcome, Locations, Inside, Booting, InApplication
  <2>5. Outcome'
    BY <1>3
    DEF AlreadyStarted, Leave, Goto,
        TypeOK, Progress, NothingDone, Outcome
  <2> QED
    BY <2>1, <2>2, <2>3, <2>4, <2>5 DEF Inductive
<1>4. ASSUME NEW j \in Jvm, NEW t \in Thread, NotStarted(j, t)
      PROVE  Inductive'
  <2>1. TypeOK'
    BY <1>4
    DEF NotStarted, GoOn, Goto,
        TypeOK, Applications, Locations, Inside, Booting, InApplication
  <2>2. Exclusion'
    BY <1>4
    DEF NotStarted, GoOn, Goto,
        TypeOK, Exclusion, Locations, Inside, Booting, InApplication
  <2>3. BootingIsStarted'
    BY <1>4
    DEF NotStarted, GoOn, Goto,
        TypeOK, BootingIsStarted, Exclusion, Locations, Inside, Booting, InApplication
  <2>4. Progress'
    BY <1>4
    DEF NotStarted, GoOn, Goto,
        TypeOK, Exclusion, BootingIsStarted, Progress, NothingDone,
        Outcome, Locations, Inside, Booting, InApplication
  <2>5. Outcome'
    BY <1>4
    DEF NotStarted, GoOn, Goto,
        TypeOK, Progress, NothingDone, Outcome
  <2> QED
    BY <2>1, <2>2, <2>3, <2>4, <2>5 DEF Inductive
<1>5. ASSUME NEW j \in Jvm, NEW t \in Thread, SetProperty(j, t)
      PROVE  Inductive'
  <2>1. TypeOK'
    BY <1>5
    DEF SetProperty, GoOn, Goto,
        TypeOK, Applications, Locations, Inside, Booting, InApplication
  <2>2. Exclusion'
    BY <1>5
    DEF SetProperty, GoOn, Goto,
        TypeOK, Exclusion, Locations, Inside, Booting, InApplication
  <2>3. BootingIsStarted'
    BY <1>5
    DEF SetProperty, GoOn, Goto,
        TypeOK, BootingIsStarted, Exclusion, Locations, Inside, Booting, InApplication
  <2>4. Progress'
    BY <1>5
    DEF SetProperty, GoOn, Goto,
        TypeOK, Exclusion, BootingIsStarted, Progress, NothingDone,
        Outcome, Locations, Inside, Booting, InApplication
  <2>5. Outcome'
    BY <1>5
    DEF SetProperty, GoOn, Goto,
        TypeOK, Progress, NothingDone, Outcome
  <2> QED
    BY <2>1, <2>2, <2>3, <2>4, <2>5 DEF Inductive
<1>6. ASSUME NEW j \in Jvm, NEW t \in Thread, LoadApplication(j, t)
      PROVE  Inductive'
  <2>1. CASE GoOn(j, t, "construct")
    <3>1. TypeOK'
      BY <1>6, <2>1
      DEF LoadApplication, GoOn, Goto,
          TypeOK, Applications, Locations, Inside, Booting, InApplication
    <3>2. Exclusion'
      BY <1>6, <2>1
      DEF LoadApplication, GoOn, Goto,
          TypeOK, Exclusion, Locations, Inside, Booting, InApplication
    <3>3. BootingIsStarted'
      BY <1>6, <2>1
      DEF LoadApplication, GoOn, Goto,
          TypeOK, BootingIsStarted, Exclusion, Locations, Inside, Booting, InApplication
    <3>4. Progress'
      BY <1>6, <2>1
      DEF LoadApplication, GoOn, Goto,
          TypeOK, Exclusion, BootingIsStarted, Progress, NothingDone,
          Outcome, Locations, Inside, Booting, InApplication
    <3>5. Outcome'
      BY <1>6, <2>1
      DEF LoadApplication, GoOn, Goto,
          TypeOK, Progress, NothingDone, Outcome
    <3> QED
      BY <3>1, <3>2, <3>3, <3>4, <3>5 DEF Inductive
  <2>2. CASE Leave(j, t) /\ UNCHANGED <<transformers, client>>
    <3>1. application' \in [Jvm -> Applications]
      BY <1>6 DEF LoadApplication, TypeOK, Applications
    <3> QED
      BY <1>6, <2>2, <3>1, LeaveInductive DEF LoadApplication, Booting, InApplication
  <2> QED
    BY <1>6, <2>1, <2>2 DEF LoadApplication
<1>7. ASSUME NEW j \in Jvm, NEW t \in Thread, Construct(j, t)
      PROVE  Inductive'
  <2>1. CASE /\ UNCHANGED monitor /\ Goto(j, t, "install")
              /\ appMonitor' = [appMonitor EXCEPT ![j] = t]
    <3>1. TypeOK'
      BY <1>7, <2>1
      DEF Construct, Goto,
          TypeOK, Applications, Locations, Inside, Booting, InApplication
    <3>2. Exclusion'
      BY <1>7, <2>1
      DEF Construct, Goto,
          TypeOK, Exclusion, Locations, Inside, Booting, InApplication
    <3>3. BootingIsStarted'
      BY <1>7, <2>1
      DEF Construct, Goto,
          TypeOK, BootingIsStarted, Exclusion, Locations, Inside, Booting, InApplication
    <3>4. Progress'
      BY <1>7, <2>1
      DEF Construct, Goto,
          TypeOK, Exclusion, BootingIsStarted, Progress, NothingDone,
          Outcome, Locations, Inside, Booting, InApplication
    <3>5. Outcome'
      BY <1>7, <2>1
      DEF Construct, Goto,
          TypeOK, Progress, NothingDone, Outcome
    <3> QED
      BY <3>1, <3>2, <3>3, <3>4, <3>5 DEF Inductive
  <2>2. CASE Leave(j, t) /\ UNCHANGED <<transformers, client>>
    <3>1. application' \in [Jvm -> Applications]
      BY <1>7 DEF Construct, TypeOK, Applications
    <3> QED
      BY <1>7, <2>2, <3>1, LeaveInductive DEF Construct, Booting, InApplication
  <2> QED
    BY <1>7, <2>1, <2>2 DEF Construct
<1>8. ASSUME NEW j \in Jvm, NEW t \in Thread, InstallOn(j, t)
      PROVE  Inductive'
  <2>1. CASE /\ GoOn(j, t, "client")
              /\ transformers' = [transformers EXCEPT ![j] = @ + 1]
    <3>1. TypeOK'
      BY <1>8, <2>1
      DEF InstallOn, GoOn, Goto,
          TypeOK, Applications, Locations, Inside, Booting, InApplication
    <3>2. Exclusion'
      BY <1>8, <2>1
      DEF InstallOn, GoOn, Goto,
          TypeOK, Exclusion, Locations, Inside, Booting, InApplication
    <3>3. BootingIsStarted'
      BY <1>8, <2>1
      DEF InstallOn, GoOn, Goto,
          TypeOK, BootingIsStarted, Exclusion, Locations, Inside, Booting, InApplication
    <3>4. Progress'
      BY <1>8, <2>1
      DEF InstallOn, GoOn, Goto,
          TypeOK, Exclusion, BootingIsStarted, Progress, NothingDone,
          Outcome, Locations, Inside, Booting, InApplication
    <3>5. Outcome'
      BY <1>8, <2>1
      DEF InstallOn, GoOn, Goto,
          TypeOK, Progress, NothingDone, Outcome
    <3> QED
      BY <3>1, <3>2, <3>3, <3>4, <3>5 DEF Inductive
  <2>2. CASE Leave(j, t) /\ UNCHANGED <<transformers, client>>
    <3>1. application' \in [Jvm -> Applications]
      BY <1>8 DEF InstallOn, TypeOK, Applications
    <3> QED
      BY <1>8, <2>2, <3>1, LeaveInductive DEF InstallOn, Booting, InApplication
  <2> QED
    BY <1>8, <2>1, <2>2 DEF InstallOn
<1>9. ASSUME NEW j \in Jvm, NEW t \in Thread, GetClient(j, t)
      PROVE  Inductive'
  <2>1. CASE /\ GoOn(j, t, "connect")
              /\ client' = [client EXCEPT ![j] = TRUE]
    <3>1. TypeOK'
      BY <1>9, <2>1
      DEF GetClient, GoOn, Goto,
          TypeOK, Applications, Locations, Inside, Booting, InApplication
    <3>2. Exclusion'
      BY <1>9, <2>1
      DEF GetClient, GoOn, Goto,
          TypeOK, Exclusion, Locations, Inside, Booting, InApplication
    <3>3. BootingIsStarted'
      BY <1>9, <2>1
      DEF GetClient, GoOn, Goto,
          TypeOK, BootingIsStarted, Exclusion, Locations, Inside, Booting, InApplication
    <3>4. Progress'
      BY <1>9, <2>1
      DEF GetClient, GoOn, Goto,
          TypeOK, Exclusion, BootingIsStarted, Progress, NothingDone,
          Outcome, Locations, Inside, Booting, InApplication
    <3>5. Outcome'
      BY <1>9, <2>1
      DEF GetClient, GoOn, Goto,
          TypeOK, Progress, NothingDone, Outcome
    <3> QED
      BY <3>1, <3>2, <3>3, <3>4, <3>5 DEF Inductive
  <2>2. CASE Leave(j, t) /\ UNCHANGED <<transformers, client>>
    <3>1. application' \in [Jvm -> Applications]
      BY <1>9 DEF GetClient, TypeOK, Applications
    <3> QED
      BY <1>9, <2>2, <3>1, LeaveInductive DEF GetClient, Booting, InApplication
  <2> QED
    BY <1>9, <2>1, <2>2 DEF GetClient
<1>10. ASSUME NEW j \in Jvm, NEW t \in Thread, StartConnect(j, t)
      PROVE  Inductive'
  <2>1. TypeOK'
    <3>1. connectors' \in [Jvm -> Nat]
      BY <1>10 DEF StartConnect, TypeOK
    <3>2. Leave(j, t) /\ UNCHANGED <<inst, started, application, transformers, client>>
      BY <1>10 DEF StartConnect
    <3> QED
      BY <3>1, <3>2
      DEF Leave, Goto,
          TypeOK, Applications, Locations, Inside, Booting, InApplication
  <2>2. Exclusion'
    <3>1. pc[j][t] = "connect" /\ Leave(j, t)
      BY <1>10 DEF StartConnect
    <3> QED
      BY <3>1
      DEF Leave, Goto,
          TypeOK, Exclusion, Locations, Inside, Booting, InApplication
  <2>3. BootingIsStarted'
    BY <1>10
    DEF StartConnect, Leave, Goto,
        TypeOK, BootingIsStarted, Exclusion, Locations, Inside, Booting, InApplication
  <2>4. Progress'
    BY <1>10
    DEF StartConnect, Leave, Goto,
        TypeOK, Exclusion, BootingIsStarted, Progress, NothingDone,
        Outcome, Locations, Inside, Booting, InApplication
  <2>5. Outcome'
    BY <1>10
    DEF StartConnect, Leave, Goto,
        TypeOK, Progress, NothingDone, Outcome
  <2> QED
    BY <2>1, <2>2, <2>3, <2>4, <2>5 DEF Inductive
<1>11. ASSUME NEW j \in Jvm, Exit(j)
      PROVE  Inductive'
  <2>1. TypeOK'
    BY <1>11
    DEF Exit,
        TypeOK, Applications, Locations, Inside, Booting, InApplication
  <2>2. Exclusion'
    BY <1>11
    DEF Exit,
        TypeOK, Exclusion, Locations, Inside, Booting, InApplication
  <2>3. BootingIsStarted'
    BY <1>11
    DEF Exit,
        TypeOK, BootingIsStarted, Exclusion, Locations, Inside, Booting, InApplication
  <2>4. Progress'
    BY <1>11
    DEF Exit,
        TypeOK, Exclusion, BootingIsStarted, Progress, NothingDone,
        Outcome, Locations, Inside, Booting, InApplication
  <2>5. Outcome'
    BY <1>11
    DEF Exit,
        TypeOK, Progress, NothingDone, Outcome
  <2> QED
    BY <2>1, <2>2, <2>3, <2>4, <2>5 DEF Inductive
<1> QED
  BY <1>1, <1>2, <1>3, <1>4, <1>5, <1>6, <1>7, <1>8, <1>9, <1>10, <1>11
  DEF Next, JvmNext, ThreadNext, Step

\* The inductive invariant holds in every behaviour of the entry point,
\* whatever the fairness.
THEOREM Invariance == SafetySpec => []Inductive
  BY InitInductive, StutterInductive, StepInductive, PTL DEF SafetySpec

-----------------------------------------------------------------------------
\* Every variable of the entry point keeps its type.
THEOREM TypeCorrect == SafetySpec => []TypeOK
<1>1. Inductive => TypeOK
  BY DEF Inductive
<1> QED
  BY <1>1, Invariance, PTL

\* A JVM gets at most one transformer and one connecting thread, for any
\* number of calls and threads and wherever earlier calls failed
\* (TomasAgentBoot.main, AgentApplication.init).
THEOREM BootedAtMostOnce == SafetySpec => []BootsOnce
<1>1. Inductive => BootsOnce
  <2> SUFFICES ASSUME Inductive, NEW j \in Jvm
               PROVE  transformers[j] <= 1 /\ connectors[j] <= 1
    BY DEF BootsOnce
  <2>1. transformers[j] \in {0, 1} /\ connectors[j] \in {0, 1}
    BY DEF Inductive, Outcome
  <2> QED
    BY <2>1
<1> QED
  BY <1>1, Invariance, PTL

\* A JVM whose connecting thread was started is instrumented
\* (AgentApplication.init: installOn comes before startConnect).
THEOREM ConnectedIsInstrumented == SafetySpec => []ConnectsOnlyInstrumented
<1>1. Inductive => ConnectsOnlyInstrumented
  BY DEF Inductive, Outcome, ConnectsOnlyInstrumented
<1> QED
  BY <1>1, Invariance, PTL

-----------------------------------------------------------------------------
\* The JVMs are independent: a step of one leaves the others alone.
LEMMA Independent ==
  ASSUME Inductive, NEW j \in Jvm, JvmNext(j), NEW k \in Jvm, k # j
  PROVE  /\ pc'[k] = pc[k]
         /\ started'[k] = started[k]
         /\ transformers'[k] = transformers[k]
         /\ connectors'[k] = connectors[k]
  BY DEF Inductive, TypeOK, JvmNext, ThreadNext, Call, Acquire, Step,
         AlreadyStarted, NotStarted, SetProperty, LoadApplication, Construct,
         InstallOn,
         GetClient, StartConnect, Exit, Leave, GoOn, Goto

\* A thread inside main speaks for its JVM: no other thread can be booting it.
LEMMA OwnerDecides ==
  ASSUME Inductive, NEW j \in Jvm, NEW t \in Thread, pc[j][t] \in Inside
  PROVE  /\ IsBooting(j) <=> pc[j][t] \in Booting
         /\ \A u \in Thread : pc[j][u] \in Booting => u = t
<1>1. \A u \in Thread : pc[j][u] \in Booting => u = t
  BY DEF Inductive, Exclusion, Inside
<1> QED
  BY <1>1 DEF IsBooting

\* Leaving main ends the boot, if there was one.
LEMMA LeaveEnds ==
  ASSUME Inductive, NEW j \in Jvm, NEW t \in Thread, pc[j][t] \in Inside,
         Leave(j, t)
  PROVE  ~IsBooting(j)'
<1>1. \A u \in Thread : pc[j][u] \in Booting => u = t
  BY OwnerDecides
<1>2. \A u \in Thread : pc'[j][u] = IF u = t THEN "idle" ELSE pc[j][u]
  BY DEF Leave, Goto, Inductive, TypeOK
<1>3. "idle" \notin Booting
  BY DEF Booting, InApplication
<1> QED
  BY <1>1, <1>2, <1>3 DEF IsBooting

Bystander(j, t) ==
  \/ \E i \in Entry : Call(j, t, i)
  \/ Acquire(j, t)
  \/ AlreadyStarted(j, t)
  \/ NotStarted(j, t)

\* Calling, waiting and looking at the property neither begin nor end a boot.
LEMMA BystanderStep ==
  ASSUME Inductive, NEW j \in Jvm, NEW t \in Thread,
         Bystander(j, t)
  PROVE  /\ IsBooting(j)' <=> IsBooting(j)
         /\ UNCHANGED <<started, transformers, connectors>>
<1>1. /\ pc[j][t] \in {"idle", "waiting", "check"}
      /\ \E l \in {"waiting", "check", "set", "idle"} : Goto(j, t, l)
      /\ UNCHANGED <<started, transformers, connectors>>
  BY DEF Bystander, Call, Acquire, AlreadyStarted, NotStarted, Leave, GoOn
<1>2. \A u \in Thread : pc'[j][u] \in Booting <=> pc[j][u] \in Booting
  BY <1>1 DEF Goto, Booting, InApplication, Inductive, TypeOK
<1> QED
  BY <1>1, <1>2 DEF IsBooting

\* A step of one JVM leaves every boot that is over as it is.
LEMMA StepStaysOver ==
  ASSUME Inductive, NEW j \in Jvm, JvmNext(j), NEW k \in Jvm
  PROVE  StaysOver(k)
<1>1. CASE k # j
  BY <1>1, Independent DEF StaysOver, IsBooting
<1>2. CASE k = j
  <2> USE DEF StaysOver
  <2> SUFFICES ASSUME started[j], ~IsBooting(j), started'[j]
               PROVE  StaysOver(j)
    BY <1>2
  <2>1. CASE Exit(j)
    BY <2>1 DEF Exit, Inductive, TypeOK
  <2>2. ASSUME NEW t \in Thread, ThreadNext(j, t)
        PROVE  StaysOver(j)
    <3>1. pc[j][t] \notin Booting
      BY DEF IsBooting
    <3>2. Bystander(j, t)
      BY <2>2, <3>1
      DEF ThreadNext, Step, Bystander, SetProperty, LoadApplication,
          Construct, InstallOn, GetClient, StartConnect, Booting,
          InApplication, Inductive, BootingIsStarted
    <3> QED
      BY <3>2, BystanderStep
  <2> QED
    BY <1>2, <2>1, <2>2 DEF JvmNext
<1> QED
  BY <1>1, <1>2

\* A boot that is over stays over, for any number of waiting calls
\* (TomasAgentBoot.main sets the property before the first step that can fail).
THEOREM BootStaysOver == SafetySpec => BootIsFinal
<1>1. Inductive /\ [Next]_vars => [\A j \in Jvm : StaysOver(j)]_vars
  BY StepStaysOver DEF Next
<1> QED
  BY <1>1, Invariance, PTL DEF SafetySpec, BootIsFinal

\* An entry point that returns leaves a boot that is over, its own or another's.
LEMMA ReturnMeansOver ==
  ASSUME Inductive, NEW j \in Jvm, NEW t \in Thread, ThreadNext(j, t),
         NEW u \in Thread, pc[j][u] # "idle", pc'[j][u] = "idle"
  PROVE  started'[j] /\ ~IsBooting(j)'
<1>1. /\ u = t /\ Leave(j, t) /\ pc[j][t] \in Inside
      /\ UNCHANGED started
      /\ pc[j][t] = "check" => started[j]
      /\ pc[j][t] # "set"
  BY DEF ThreadNext, Call, Acquire, Step, AlreadyStarted, NotStarted, SetProperty,
         LoadApplication, Construct, InstallOn, GetClient, StartConnect, GoOn, Goto,
         Leave, Inside, Booting, InApplication, Inductive, TypeOK
<1>2. started'[j]
  BY <1>1 DEF Inductive, BootingIsStarted, Inside
<1> QED
  BY <1>1, <1>2, LeaveEnds

-----------------------------------------------------------------------------
\* What a step of JVM j does to the phases of all JVMs is what it does to j's.
LEMMA PhaseOfOne ==
  ASSUME Inductive, NEW j \in Jvm, JvmNext(j)
  PROVE  Phase' = [Phase EXCEPT ![j] = PhaseOf(j)']
<1>1. ASSUME NEW k \in Jvm, k # j
      PROVE  PhaseOf(k)' = PhaseOf(k)
  BY <1>1, Independent DEF PhaseOf, IsBooting
<1> QED
  BY <1>1 DEF Phase

\* A thread in the middle of the boot makes the phase "booting".
LEMMA BootingPhase ==
  ASSUME Inductive, NEW j \in Jvm, NEW t \in Thread, pc[j][t] \in Booting
  PROVE  PhaseOf(j) = "booting"
<1>1. started[j] /\ connectors[j] = 0
  BY DEF Inductive, BootingIsStarted, Progress, NothingDone, Booting,
             InApplication
<1>2. IsBooting(j)
  BY DEF IsBooting
<1> QED
  BY <1>1, <1>2 DEF PhaseOf

\* One step of the boot, as a step of the phase of its JVM.
LEMMA PhaseStep ==
  ASSUME Inductive, Inductive', NEW j \in Jvm, NEW t \in Thread, ThreadNext(j, t)
  PROVE  \/ PhaseOf(j)' = PhaseOf(j)
         \/ PhaseOf(j) = "fresh" /\ PhaseOf(j)' = "booting"
         \/ PhaseOf(j) = "booting" /\ PhaseOf(j)' \in {"booted", "failed"}
<1>1. CASE Bystander(j, t)
  BY <1>1, BystanderStep DEF PhaseOf
<1>2. CASE SetProperty(j, t)
  <2>1. pc'[j][t] \in Booting
    BY <1>2 DEF SetProperty, GoOn, Goto, Booting, Inductive, TypeOK
  <2>2. PhaseOf(j)' = "booting"
    <3>1. started'[j] /\ connectors'[j] = 0
      BY <2>1 DEF Inductive, BootingIsStarted, Progress, NothingDone, Booting,
             InApplication
    <3>2. IsBooting(j)'
      BY <2>1 DEF IsBooting
    <3> QED
      BY <3>1, <3>2 DEF PhaseOf
  <2>3. PhaseOf(j) = "fresh"
    BY <1>2 DEF SetProperty, PhaseOf, Inductive, BootingIsStarted
  <2> QED
    BY <2>2, <2>3
<1>3. CASE LoadApplication(j, t) \/ Construct(j, t) \/ InstallOn(j, t)
           \/ GetClient(j, t) \/ StartConnect(j, t)
  <2>1. pc[j][t] \in Booting
    BY <1>3 DEF LoadApplication, Construct, InstallOn, GetClient, StartConnect,
                Booting, InApplication
  <2>2. started[j] /\ started' = started
    BY <1>3, <2>1
    DEF LoadApplication, Construct, InstallOn, GetClient, StartConnect,
        Inductive, BootingIsStarted
  <2>3. CASE Leave(j, t)
    <3>1. ~IsBooting(j)'
      BY <2>1, <2>3, LeaveEnds DEF Inside
    <3>2. PhaseOf(j)' \in {"booted", "failed"}
      BY <2>2, <3>1 DEF PhaseOf
    <3> QED
      BY <2>1, <3>2, BootingPhase
  <2>4. CASE \E l \in Booting : Goto(j, t, l)
    <3>1. pc'[j][t] \in Booting
      BY <2>4 DEF Goto, Inductive, TypeOK
    <3>2. started'[j] /\ connectors'[j] = 0
      BY <3>1 DEF Inductive, BootingIsStarted, Progress, NothingDone, Booting,
             InApplication
    <3>3. IsBooting(j)'
      BY <3>1 DEF IsBooting
    <3>4. PhaseOf(j)' = "booting"
      BY <3>2, <3>3 DEF PhaseOf
    <3> QED
      BY <2>1, <3>4, BootingPhase
  <2> QED
    BY <1>3, <2>3, <2>4
    DEF LoadApplication, Construct, InstallOn, GetClient, StartConnect, GoOn,
        Booting, InApplication
<1> QED
  BY <1>1, <1>2, <1>3 DEF ThreadNext, Step, Bystander

\* The agent's entry point implements BootOnce: every step of a behaviour of
\* TomasAgentBoot is a step of the abstract boot, or leaves its phases alone
\* (TomasAgentBoot.main and AgentApplication.init against "at most once").
THEOREM Refinement == SafetySpec => Abstract!SafetySpec
<1>1. Init => Abstract!Init
  BY DEF Init, Abstract!Init, Phase, PhaseOf
<1>2. ASSUME Inductive, Inductive', NEW j \in Jvm, JvmNext(j)
      PROVE  [Abstract!Next]_Phase
  <2>1. Phase[j] = PhaseOf(j) /\ Phase' = [Phase EXCEPT ![j] = PhaseOf(j)']
    BY <1>2, PhaseOfOne DEF Phase
  <2>2. CASE Exit(j)
    <3>1. PhaseOf(j)' = "fresh"
      <4>1. ~started'[j]
        BY <1>2, <2>2 DEF Exit, Inductive, TypeOK
      <4> QED
        BY <4>1 DEF PhaseOf
    <3> QED
      BY <2>1, <3>1 DEF Abstract!Next, Abstract!Exit
  <2>3. ASSUME NEW t \in Thread, ThreadNext(j, t)
        PROVE  [Abstract!Next]_Phase
    <3>1. CASE PhaseOf(j)' = PhaseOf(j)
      BY <2>1, <3>1 DEF Phase
    <3>2. CASE PhaseOf(j) = "fresh" /\ PhaseOf(j)' = "booting"
      BY <2>1, <3>2 DEF Abstract!Next, Abstract!Begin, Abstract!Move
    <3>3. CASE PhaseOf(j) = "booting" /\ PhaseOf(j)' \in {"booted", "failed"}
      BY <2>1, <3>3
      DEF Abstract!Next, Abstract!Succeed, Abstract!Fail, Abstract!Move
    <3> QED
      BY <1>2, <2>3, <3>1, <3>2, <3>3, PhaseStep
  <2> QED
    BY <1>2, <2>2, <2>3 DEF JvmNext
<1>3. UNCHANGED vars => UNCHANGED Phase
  BY DEF vars, Phase, PhaseOf, IsBooting
<1>4. Inductive /\ Inductive' /\ [Next]_vars => [Abstract!Next]_Phase
  BY <1>2, <1>3 DEF Next
<1> QED
  BY <1>1, <1>4, Invariance, PTL DEF SafetySpec, Abstract!SafetySpec

-----------------------------------------------------------------------------
RequestLocations == {"idle"} \cup Working \cup Answered

RequestTypes ==
  /\ instances \in Nat
  /\ lock \in Request \cup {NoRequest}
  /\ at \in [Request -> RequestLocations]
  /\ target \in [Request -> Jvm \cup {NoJvm}]
  /\ handle \in [Request -> {"none", "open", "detached"}]
  /\ serving \in [Jvm -> Request \cup {NoRequest}]

\* The monitor is that of the request inside.
CreationMonitor == \A r \in Request : at[r] = "second" <=> lock = r

AttachInductive == RequestTypes /\ CreationMonitor /\ OneInstance /\ HandlesAreDetached

-----------------------------------------------------------------------------
LEMMA AttachInitInductive == AttachInit => AttachInductive
  BY AttachAssumption
  DEF AttachInit, AttachInductive, RequestTypes, CreationMonitor, OneInstance, HandlesAreDetached,
      RequestLocations, Working, Answered

LEMMA AttachStutterInductive == AttachInductive /\ UNCHANGED requestVars => AttachInductive'
  BY DEF requestVars, AttachInductive, RequestTypes, CreationMonitor, OneInstance, HandlesAreDetached

\* A step of a request's thread.
LEMMA RequestInductive ==
  ASSUME NEW r \in Request, AttachInductive, RequestNext(r)
  PROVE  AttachInductive'
<1> USE AttachAssumption DEF AttachInductive, RequestLocations, Working, Answered, Advance
<1>1. CASE FirstCheck(r)
  BY <1>1 DEF FirstCheck, RequestTypes, CreationMonitor, OneInstance, HandlesAreDetached
<1>2. CASE Enter(r)
  BY <1>2 DEF Enter, RequestTypes, CreationMonitor, OneInstance, HandlesAreDetached
<1>3. CASE CreateOnce(r)
  BY <1>3 DEF CreateOnce, RequestTypes, CreationMonitor, OneInstance, HandlesAreDetached
<1>4. CASE AttachTo(r)
  BY <1>4 DEF AttachTo, RequestTypes, CreationMonitor, OneInstance, HandlesAreDetached
<1>5. CASE LoadAgent(r)
  BY <1>5 DEF LoadAgent, RequestTypes, CreationMonitor, OneInstance, HandlesAreDetached
<1>6. CASE LoadThrows(r)
  BY <1>6 DEF LoadThrows, RequestTypes, CreationMonitor, OneInstance, HandlesAreDetached
<1>7. CASE LoadReturns(r)
  BY <1>7 DEF LoadReturns, RequestTypes, CreationMonitor, OneInstance, HandlesAreDetached
<1>8. CASE Detach(r)
  BY <1>8 DEF Detach, RequestTypes, CreationMonitor, OneInstance, HandlesAreDetached
<1> QED
  BY <1>1, <1>2, <1>3, <1>4, <1>5, <1>6, <1>7, <1>8 DEF RequestNext

\* Every step keeps the invariant.
LEMMA AttachStepInductive == AttachInductive /\ [AttachNext]_attachVars => AttachInductive'
<1> SUFFICES ASSUME AttachInductive, [AttachNext]_attachVars PROVE AttachInductive'
  OBVIOUS
<1>1. CASE \E r \in Request : RequestNext(r)
  BY <1>1, RequestInductive
<1>2. ASSUME NEW r \in Request, NEW j \in Jvm \cup {NoJvm}, attachJvm(r, j)
      PROVE  AttachInductive'
  BY <1>2, AttachAssumption
  DEF attachJvm, Advance, AttachInductive, RequestTypes, CreationMonitor, OneInstance, HandlesAreDetached,
      RequestLocations, Working, Answered
<1>3. ASSUME NEW j \in Jvm, Premain(j) PROVE AttachInductive'
  BY <1>3, AttachStutterInductive DEF Premain, requestVars
<1>4. ASSUME NEW j \in Jvm, JvmExit(j) PROVE AttachInductive'
  <2>1. RequestTypes'
    BY <1>4 DEF JvmExit, AttachInductive, RequestTypes, RequestLocations, Working, Answered
  <2>2. \A r \in Request :
          at'[r] = at[r] \/ (at[r] \in {"load", "loading"} /\ at'[r] = "broken")
    BY <1>4 DEF JvmExit, AttachInductive, RequestTypes
  <2>3. UNCHANGED <<instances, lock, handle>>
    BY <1>4 DEF JvmExit
  <2> QED
    BY <2>1, <2>2, <2>3 DEF AttachInductive, CreationMonitor, OneInstance, HandlesAreDetached, Working
<1>5. ASSUME NEW j \in Jvm, NEW t \in Thread, BootStep(j, t) PROVE AttachInductive'
  BY <1>5, AttachStutterInductive DEF BootStep, requestVars
<1>6. CASE UNCHANGED attachVars
  BY <1>6, AttachStutterInductive DEF attachVars, requestVars
<1> QED
  BY <1>1, <1>2, <1>3, <1>4, <1>5, <1>6 DEF AttachNext

LEMMA AttachInvariance == AttachSpec => []AttachInductive
  BY AttachInitInductive, AttachStepInductive, PTL DEF AttachSpec, AttachSafetySpec

-----------------------------------------------------------------------------
\* However many requests race for getInstance, at most one AttachVirtualMachine is
\* made, and no request goes on without one.
THEOREM OneAttachVirtualMachine == AttachSpec => []OneInstance
  BY AttachInvariance, PTL DEF AttachInductive

\* However many requests attach to however many JVMs, a request that returned has
\* detached its handle, and an answered one leaves it open only if its load threw.
THEOREM HandlesDetached == AttachSpec => []HandlesAreDetached
  BY AttachInvariance, PTL DEF AttachInductive

-----------------------------------------------------------------------------
\* The boot of the JVM is over.
Over(j) == started[j] /\ ~IsBooting(j)

\* While a request loads the agent, the listener of its JVM is in the entry point,
\* or has left it when the boot was over.
Loading ==
  \A r \in Request :
    /\ at[r] \in {"load", "loading"} => target[r] \in Jvm
    /\ at[r] = "loading" => pc[target[r]][Listener] # "idle" \/ Over(target[r])

\* Whatever a thread of a JVM does in the entry point, it keeps the boot's invariant,
\* and the listener of each JVM stays within, or leaves when the boot is over.
LEMMA BootThreadStep ==
  ASSUME Inductive, NEW j \in Jvm, NEW t \in Thread, ThreadNext(j, t)
  PROVE  /\ Inductive'
         /\ \A k \in Jvm : pc[k][Listener] # "idle" \/ Over(k) =>
                           pc'[k][Listener] # "idle" \/ Over(k)'
<1>1. JvmNext(j)
  BY DEF JvmNext
<1>2. Inductive'
  BY <1>1, StepInductive DEF Next
<1>3. ASSUME NEW k \in Jvm, Over(k)
      PROVE  Over(k)'
  <2>1. started'[k]
    BY <1>3
    DEF Over, Inductive, TypeOK, ThreadNext, Call,
        Acquire, Step, AlreadyStarted, NotStarted,
        SetProperty, LoadApplication, Construct,
        InstallOn, GetClient, StartConnect
  <2>2. StaysOver(k)
    BY <1>1, StepStaysOver
  <2> QED
    BY <1>3, <2>1, <2>2 DEF Over, StaysOver
<1>4. ASSUME NEW k \in Jvm, pc[k][Listener] # "idle", pc'[k][Listener] = "idle"
      PROVE  Over(k)'
  <2>1. k = j
    BY <1>1, <1>4, Independent
  <2> QED
    BY <1>4, <2>1, ReturnMeansOver, AttachAssumption DEF Over
<1> QED
  BY <1>2, <1>3, <1>4

\* Requests and JVMs together keep the invariant of the boot, and Loading with it.
LEMMA LoadingStep ==
  AttachInductive /\ Inductive /\ Loading /\ [AttachNext]_attachVars
    => Inductive' /\ Loading'
<1> SUFFICES ASSUME AttachInductive, Inductive, Loading, [AttachNext]_attachVars
             PROVE  Inductive' /\ Loading'
  OBVIOUS
<1> USE DEF AttachInductive, RequestTypes
\* A step outside the boot begins no load, except that a request gets ready for one.
<1>1. ASSUME UNCHANGED vars,
             \A r \in Request : at'[r] \in {"load", "loading"} =>
               /\ target'[r] = target[r] /\ target[r] \in Jvm
               /\ at'[r] = "loading" => at[r] = "loading"
      PROVE  Inductive' /\ Loading'
  <2>1. Inductive'
    BY <1>1, StutterInductive DEF vars
  <2>2. \A j \in Jvm : Over(j)' <=> Over(j)
    BY <1>1 DEF vars, Over, IsBooting
  <2> QED
    BY <1>1, <2>1, <2>2 DEF Loading, vars
<1>2. ASSUME NEW r \in Request, LoadAgent(r)
      PROVE  Inductive' /\ Loading'
  <2>1. target[r] \in Jvm
    BY <1>2 DEF LoadAgent, Loading
  <2>2. ThreadNext(target[r], Listener)
    BY <1>2, <2>1, AttachAssumption DEF LoadAgent, ThreadNext
  <2>3. pc'[target[r]][Listener] # "idle"
    BY <1>2, <2>1, AttachAssumption
    DEF LoadAgent, Call, GoOn, Goto, Inductive, TypeOK
  <2>4. Loading'
    BY <1>2, <2>1, <2>2, <2>3, BootThreadStep, AttachAssumption DEF LoadAgent, Advance, Loading
  <2> QED
    BY <2>1, <2>2, <2>4, BootThreadStep, AttachAssumption
<1>3. ASSUME NEW j \in Jvm, NEW t \in Thread, ThreadNext(j, t),
             UNCHANGED <<at, target>>
      PROVE  Inductive' /\ Loading'
  <2>1. Loading'
    BY <1>3, BootThreadStep DEF Loading
  <2> QED
    BY <1>3, <2>1, BootThreadStep
<1>4. ASSUME NEW j \in Jvm, Premain(j)
      PROVE  Inductive' /\ Loading'
  BY <1>3, <1>4 DEF Premain, ThreadNext, requestVars
<1>5. ASSUME NEW j \in Jvm, NEW t \in Thread, BootStep(j, t)
      PROVE  Inductive' /\ Loading'
  BY <1>3, <1>5 DEF BootStep, ThreadNext, requestVars
\* A JVM that ends takes its loads with it, and leaves those of the others alone.
<1>6. ASSUME NEW j \in Jvm, JvmExit(j)
      PROVE  Inductive' /\ Loading'
  <2>1. JvmNext(j)
    BY <1>6 DEF JvmExit, JvmNext
  <2>2. Inductive'
    BY <2>1, StepInductive DEF Next
  <2>3. ASSUME NEW k \in Jvm, k # j
        PROVE  pc'[k] = pc[k] /\ (Over(k)' <=> Over(k))
    BY <2>1, <2>3, Independent DEF Over, IsBooting
  <2>4. Loading'
    BY <1>6, <2>3 DEF JvmExit, Loading
  <2> QED
    BY <2>2, <2>4
<1>7. CASE UNCHANGED attachVars
  BY <1>1, <1>7 DEF attachVars, requestVars, Loading
<1>8. ASSUME NEW r \in Request, NEW j \in Jvm \cup {NoJvm}, attachJvm(r, j)
      PROVE  Inductive' /\ Loading'
  BY <1>1, <1>8 DEF attachJvm, Advance, Loading
<1>9. ASSUME NEW r \in Request, RequestNext(r), ~LoadAgent(r)
      PROVE  Inductive' /\ Loading'
  <2>1. /\ UNCHANGED <<vars, target>>
        /\ \E l \in (Working \cup Answered) \ {"loading"} :
             Advance(r, l) /\ (l = "load" => target[r] \in Jvm)
    BY <1>9 DEF RequestNext, FirstCheck, Enter, CreateOnce, AttachTo, LoadThrows,
                LoadReturns, Detach, Working, Answered
  <2> QED
    BY <1>1, <2>1 DEF Advance, Loading
<1> QED
  BY <1>2, <1>4, <1>5, <1>6, <1>7, <1>8, <1>9 DEF AttachNext

LEMMA LoadingInvariant == AttachSpec => [](Inductive /\ Loading)
<1>1. AttachInit => Inductive
  BY InitInductive DEF AttachInit
<1>2. AttachInit => Loading
  BY DEF AttachInit, Loading
<1> QED
  BY <1>1, <1>2, LoadingStep, AttachInvariance, PTL DEF AttachSpec, AttachSafetySpec

\* Whatever requests, listeners and JVMs that come and go do to the boot of a JVM is a
\* step of TomasAgentBoot or leaves it alone, so that each theorem about its
\* behaviours holds of JVMs that are attached to (AttachVirtualMachine and
\* IndexController above TomasAgentBoot.main).
THEOREM AttachIsBoot == AttachSpec => SafetySpec
<1>1. AttachInit => Init
  BY DEF AttachInit
<1>2. ASSUME Loading, NEW r \in Request, RequestNext(r)
      PROVE  [Next]_vars
  <2>1. CASE LoadAgent(r)
    <3>1. target[r] \in Jvm
      BY <1>2, <2>1 DEF LoadAgent, Loading
    <3>2. ThreadNext(target[r], Listener)
      BY <2>1, <3>1, AttachAssumption DEF LoadAgent, ThreadNext
    <3> QED
      BY <3>1, <3>2, AttachAssumption DEF Next, JvmNext
  <2>2. CASE ~LoadAgent(r)
    BY <1>2, <2>2
    DEF RequestNext, FirstCheck, Enter, CreateOnce, AttachTo, LoadThrows, LoadReturns, Detach
  <2> QED
    BY <2>1, <2>2
<1>3. ASSUME NEW j \in Jvm, Premain(j) \/ JvmExit(j) \/ \E t \in Thread : BootStep(j, t)
      PROVE  [Next]_vars
  BY <1>3 DEF Premain, JvmExit, BootStep, ThreadNext, JvmNext, Next
<1>4. ASSUME NEW r \in Request, NEW j \in Jvm \cup {NoJvm}, attachJvm(r, j)
      PROVE  [Next]_vars
  BY <1>4 DEF attachJvm
<1>5. Loading /\ [AttachNext]_attachVars => [Next]_vars
  BY <1>2, <1>3, <1>4 DEF AttachNext, attachVars
<1> QED
  BY <1>1, <1>5, LoadingInvariant, PTL DEF AttachSpec, AttachSafetySpec, SafetySpec

\* When loadAgent returns, the boot of the JVM is over, be it this call's or one that
\* another thread had in progress: for any number of requests, JVMs and threads.
THEOREM LoadReturnsAfterBoot == AttachSpec => LoadedMeansBootOver
<1> DEFINE ReturnsAfterBoot ==
      \A r \in Request : at[r] = "loading" /\ at'[r] = "detach" =>
        started[target[r]] /\ ~IsBooting(target[r])
<1>1. ASSUME AttachInductive, Loading, [AttachNext]_attachVars, NEW r \in Request,
             at[r] = "loading", at'[r] = "detach"
      PROVE  started[target[r]] /\ ~IsBooting(target[r])
  <2>1. target[r] \in Jvm
    BY <1>1 DEF Loading
  <2>2. LoadReturns(r)
    <3>1. PICK q \in Request : RequestNext(q)
      BY <1>1
      DEF AttachNext, attachVars, requestVars, attachJvm, Advance, Premain, BootStep,
          JvmExit, AttachInductive, RequestTypes
    <3> QED
      BY <1>1, <3>1
      DEF RequestNext, FirstCheck, Enter, CreateOnce, AttachTo, LoadAgent, LoadThrows,
          LoadReturns, Detach, Advance, AttachInductive, RequestTypes
  <2>3. pc[target[r]][Listener] = "idle"
    BY <2>2 DEF LoadReturns
  <2> QED
    BY <1>1, <2>1, <2>3 DEF Loading, Over
<1>2. AttachInductive /\ Loading /\ [AttachNext]_attachVars => [ReturnsAfterBoot]_attachVars
  BY <1>1
<1> QED
  BY <1>2, AttachInvariance, LoadingInvariant, PTL
  DEF AttachSpec, AttachSafetySpec, LoadedMeansBootOver
=============================================================================
