------------------------ MODULE ProviderFetcherProofs ------------------------
(***************************************************************************)
(* Proofs about ProviderFetcher for any contents, requests, setups and     *)
(* kinds of behaviour: types, the agreement of the file with what the      *)
(* provider has loaded, that a provider in use goes on, that one out of    *)
(* use stays so, and the two locks.                                        *)
(***************************************************************************)
EXTENDS ProviderFetcher, TLAPS

Active(t) == at[t] \notin {"unused", "over"}

\* A task at work works on a provider of a setup, with what its label needs.
TaskInv ==
    /\ current <= setups /\ listed <= setups
    /\ \A p \in Providers : on[p] = p
    /\ \A p \in Providers : p > setups => at[p] = "unused" /\ hash[p] = None
    /\ \A t \in Tasks : Active(t) => on[t] \in 1..setups
    /\ \A t \in Tasks : at[t] = "writing" => buf[t] \in Parsable
    /\ \A t \in Tasks : at[t] = "body" => buf[t] \in Contents
    /\ \A t \in Tasks : at[t] \in {"initial", "local", "loop", "still"} => t \in Providers

\* A loop is that of a provider whose Initial has returned, and exactly those
\* without an interval have none.
LoopInv ==
    \A p \in Providers :
        /\ at[p] \in {"loop", "still"} => at[p] = Resting /\ p \in started
        /\ p \in started => at[p] \notin {"unused", "over", "initial", "local"}

\* In a calm behaviour everybody works on the provider in force, requests only
\* after its Initial, and whoever writes the file is alone.
CalmInv ==
    world.calm =>
        /\ closed = {}
        /\ listed \in {0, current}
        /\ \A t \in Tasks : Active(t) => on[t] = current
        /\ \A t \in Requests : Active(t) => current \in started
        /\ \A p \in Providers : at[p] \in {"initial", "local"} => hash[p] = None
        /\ \A p \in Providers : at[p] = "local" => buf[p] \in {None, file, "partial"}
        /\ \A t \in Tasks : at[t] = "writing" => file = "partial"
        /\ \A t, u \in Tasks : at[t] = "writing" /\ at[u] = "writing" => t = u
        /\ (current # 0 /\ Writing = {} /\ hash[current] \in Contents) =>
               file \in {hash[current], "partial"}

Inv == TypeOK /\ TaskInv /\ LoopInv /\ CalmInv

-----------------------------------------------------------------------------
(* Initial states and the steps.                                             *)

\* Providers are positive numbers, requests are no numbers.
LEMMA Identities ==
    /\ Providers \subseteq Nat \ {0}
    /\ Providers \cap Requests = {}
    /\ Providers \subseteq 0..MaxSetups /\ 0 \in 0..MaxSetups
BY ConstantsAssumption DEF Providers

\* Where the update of a provider ends is fixed by its world.
LEMMA Rests == Resting \in {"loop", "still"} /\ (world' = world => Resting' = Resting)
BY DEF Resting

\* Before the first setup nobody works.
LEMMA InitInv == Init => Inv
<1> SUFFICES ASSUME Init PROVE Inv
  OBVIOUS
<1> USE ConstantsAssumption, Identities DEF Init
<1>1. TypeOK
  BY DEF TypeOK, Labels, Tasks
<1>2. TaskInv
  BY DEF TaskInv, Active, Tasks
<1>3. LoopInv /\ CalmInv
  BY DEF LoopInv, CalmInv, Active, Tasks, Writing
<1> QED
  BY <1>1, <1>2, <1>3 DEF Inv

\* A setup puts a new provider into force.
LEMMA SetupInv == ASSUME Inv, world' = world, NEW p \in Providers, Setup(p) PROVE Inv'
<1> USE ConstantsAssumption, Identities, Rests DEF Inv, Setup, Goto, coreVars, envVars
<1>1. at' = [at EXCEPT ![p] = "initial"] /\ at[p] = "unused" /\ hash[p] = None /\ p \in Tasks
  BY DEF TaskInv, TypeOK, Tasks
<1>2. TypeOK'
  BY <1>1 DEF TypeOK, Labels
<1>3. TaskInv'
  BY <1>1 DEF TaskInv, TypeOK, Active
<1>4. LoopInv'
  BY <1>1 DEF LoopInv, TypeOK
<1>5. CalmInv'
  BY <1>1 DEF CalmInv, TypeOK, TaskInv, Active, Writing, Tasks
<1> QED
  BY <1>2, <1>3, <1>4, <1>5

\* The handlers that list and that request.
LEMMA HandlerInv ==
    ASSUME Inv, world' = world,
           GetExternalProviders \/ \E r \in Requests : UpdateExternalProvider(r)
                                                      \/ SideLoadExternalProvider(r)
    PROVE  Inv'
<1> USE ConstantsAssumption, Identities, Rests DEF Inv, coreVars, envVars, taskVars
<1>1. CASE GetExternalProviders
  <2>1. TypeOK' /\ TaskInv' /\ LoopInv'
    BY <1>1 DEF GetExternalProviders, TypeOK, TaskInv, LoopInv, Active
  <2>2. CalmInv'
    BY <1>1 DEF GetExternalProviders, CalmInv, Active, Writing
  <2> QED
    BY <2>1, <2>2
<1>2. ASSUME NEW r \in Requests, UpdateExternalProvider(r) \/ SideLoadExternalProvider(r)
      PROVE  Inv'
  <2>1. \E label \in {"over", "update", "fetched"} :
           /\ at' = [at EXCEPT ![r] = label]
           /\ label # "over" => listed # 0 /\ on' = [on EXCEPT ![r] = listed]
    BY <1>2 DEF UpdateExternalProvider, SideLoadExternalProvider, Goto
  <2>2. PICK label \in {"over", "update", "fetched"} :
           /\ at' = [at EXCEPT ![r] = label]
           /\ label # "over" => listed # 0 /\ on' = [on EXCEPT ![r] = listed]
    BY <2>1
  <2>3. /\ at[r] = "unused" /\ r \in Tasks /\ r \notin Providers
        /\ world.calm /\ listed # 0 => at[listed] = Resting
        /\ UNCHANGED <<coreVars, hash, closed, started, file, etag, sent, envVars>>
        /\ buf' = buf \/ \E c \in Contents : buf' = [buf EXCEPT ![r] = c]
        /\ on' = on \/ on' = [on EXCEPT ![r] = listed]
        /\ side' \in {side, side \cup {r}}
    BY <1>2 DEF UpdateExternalProvider, SideLoadExternalProvider, CanRequest, Resting, Tasks, TypeOK
  <2>4. TypeOK'
    BY <2>2, <2>3 DEF TypeOK, Labels
  <2>5. TaskInv'
    BY <2>2, <2>3 DEF TaskInv, TypeOK, Active, Tasks
  <2>6. LoopInv'
    BY <2>2, <2>3 DEF LoopInv, TypeOK, Tasks
  <2>7. listed # 0 => listed \in Providers
    BY DEF TypeOK, Providers
  <2>8. CalmInv'
    BY <2>2, <2>3, <2>7 DEF CalmInv, TypeOK, TaskInv, LoopInv, Active, Writing, Tasks
  <2> QED
    BY <2>4, <2>5, <2>6, <2>8
<1> QED
  BY <1>1, <1>2

\* Steps of t that touch neither the file nor what is loaded: t goes on with a
\* download, or gives up.
LEMMA QuietInv ==
    ASSUME Inv, world' = world, NEW t \in Tasks,
           \/ StartRead(t) \/ Answered(t) \/ ReadFails(t) \/ SetETag(t) \/ LoadNothing(t)
           \/ t \in Providers /\ Pull(t)
    PROVE  Inv'
<1> USE ConstantsAssumption, Identities, Rests DEF Inv, coreVars, envVars
<1>1. /\ UNCHANGED <<coreVars, hash, closed, on, file, envVars>>
      /\ Active(t) /\ at[t] \notin {"initial", "local", "writing"}
    BY DEF StartRead, Answered, ReadFails, SetETag, LoadNothing, Pull, Active
<1>2. \E label \in {"update", "reading", "body", "fetched", Resting, "over"} :
         /\ at' = [at EXCEPT ![t] = label]
         /\ label = "body" => buf' = [buf EXCEPT ![t] = remote]
         /\ label \in {Resting, "over"} =>
               /\ t \in Providers <=> label = Resting
               /\ started' = started \cup ({t} \cap Providers)
         /\ label \notin {Resting, "over"} => started' = started
  BY DEF StartRead, Answered, ReadFails, SetETag, LoadNothing, Pull, Finish, Goto
<1>3. PICK label \in {"update", "reading", "body", "fetched", Resting, "over"} :
         /\ at' = [at EXCEPT ![t] = label]
         /\ label = "body" => buf' = [buf EXCEPT ![t] = remote]
         /\ label \in {Resting, "over"} =>
               /\ t \in Providers <=> label = Resting
               /\ started' = started \cup ({t} \cap Providers)
         /\ label \notin {Resting, "over"} => started' = started
  BY <1>2
<1>4. /\ \E c \in {None, remote} : buf' = buf \/ buf' = [buf EXCEPT ![t] = c]
      /\ \E c \in {None, etag} : sent' = sent \/ sent' = [sent EXCEPT ![t] = c]
      /\ side' \subseteq side
      /\ etag' \in {etag} \cup Contents
  BY DEF StartRead, Answered, ReadFails, SetETag, LoadNothing, Pull, Finish, Goto, TaskInv
<1>5. TypeOK'
  BY <1>1, <1>3, <1>4 DEF TypeOK, Labels
<1>6. TaskInv'
  BY <1>1, <1>3, <1>4 DEF TaskInv, TypeOK, Active, Tasks
<1>7. LoopInv'
  BY <1>1, <1>3 DEF LoopInv, TypeOK, Tasks
<1>8. CalmInv'
  BY <1>1, <1>3, <1>4 DEF CalmInv, TypeOK, Active, Writing, Tasks
<1> QED
  BY <1>5, <1>6, <1>7, <1>8

\* Initial looks at the local file and loads it.
LEMMA InitialInv ==
    ASSUME Inv, world' = world, NEW p \in Providers, InitialRead(p) \/ LoadLocal(p)
    PROVE  Inv'
<1> USE ConstantsAssumption, Identities, Rests DEF Inv, coreVars, envVars, Goto
<1>0. p \in Tasks
  BY DEF Tasks
<1>1. CASE InitialRead(p)
  <2>1. \E label \in {"local", "update"}, c \in {file, None, "partial", buf[p]} :
           /\ at' = [at EXCEPT ![p] = label] /\ buf' = [buf EXCEPT ![p] = c]
           /\ label = "local" => c # buf[p] \/ c \in {file, None, "partial"}
    BY <1>0, <1>1 DEF InitialRead, TypeOK
  <2>2. PICK label \in {"local", "update"}, c \in {file, None, "partial", buf[p]} :
           /\ at' = [at EXCEPT ![p] = label] /\ buf' = [buf EXCEPT ![p] = c]
           /\ label = "local" => c # buf[p] \/ c \in {file, None, "partial"}
    BY <2>1
  <2>3. /\ UNCHANGED <<coreVars, hash, closed, started, on, sent, side, file, etag, envVars>>
        /\ at[p] = "initial"
    BY <1>1 DEF InitialRead
  <2>4. TypeOK'
    BY <1>0, <2>2, <2>3 DEF TypeOK, Labels, Broken
  <2>5. TaskInv' /\ LoopInv'
    BY <1>0, <2>2, <2>3 DEF TaskInv, LoopInv, TypeOK, Active, Tasks
  <2>6. CalmInv'
    BY <1>0, <2>2, <2>3 DEF CalmInv, TypeOK, Active, Writing, Tasks
  <2> QED
    BY <2>4, <2>5, <2>6
<1>2. CASE LoadLocal(p)
  <2>1. \E label \in {Resting, "update"}, c \in {hash[p], buf[p]} :
           /\ at' = [at EXCEPT ![p] = label] /\ hash' = [hash EXCEPT ![p] = c]
           /\ c \in {hash[p]} \cup Parsable \cup Broken
           /\ \/ started' = started \cup {p}
              \/ started' = started /\ label = "update"
    <3>1. hash = [hash EXCEPT ![p] = hash[p]] /\ hash[p] \in {hash[p], buf[p]}
      BY DEF TypeOK
    <3>2. CASE UNCHANGED <<hash, started>> /\ Goto(p, "update")
      BY <3>1, <3>2
    <3>3. CASE /\ buf[p] \in {None, hash[p]} \cup Parsable \cup Broken
               /\ hash' = [hash EXCEPT ![p] = IF buf[p] = None THEN @ ELSE buf[p]]
               /\ started' = started \cup {p}
               /\ Goto(p, Resting) \/ (world.pulls /\ Goto(p, "update"))
      BY <3>1, <3>3
    <3> QED
      BY <1>2, <3>2, <3>3 DEF LoadLocal
  <2>2. PICK label \in {Resting, "update"}, c \in {hash[p], buf[p]} :
           /\ at' = [at EXCEPT ![p] = label] /\ hash' = [hash EXCEPT ![p] = c]
           /\ c \in {hash[p]} \cup Parsable \cup Broken
           /\ \/ started' = started \cup {p}
              \/ started' = started /\ label = "update"
    BY <2>1
  <2>3. /\ at[p] = "local" /\ buf' = [buf EXCEPT ![p] = None]
        /\ UNCHANGED <<coreVars, closed, on, sent, side, file, etag, envVars>>
    BY <1>2 DEF LoadLocal
  <2>4. hash[p] \in {None} \cup Parsable \cup Broken
    BY DEF TypeOK
  <2>5. TypeOK'
    <3>1. /\ hash' \in [Providers -> {None} \cup Parsable \cup Broken]
          /\ started' \subseteq Providers
      BY <2>2, <2>4 DEF TypeOK
    <3>2. /\ at' \in [Tasks -> Labels]
          /\ buf' \in [Tasks -> {None} \cup Contents \cup Broken]
      BY <1>0, <2>2, <2>3 DEF TypeOK, Labels
    <3> QED
      BY <2>3, <3>1, <3>2 DEF TypeOK
  <2>6. TaskInv' /\ LoopInv'
    BY <1>0, <2>2, <2>3 DEF TaskInv, LoopInv, TypeOK, Active, Tasks
  <2>7. world.calm => /\ hash[p] = None /\ buf[p] \in {None, file, "partial"}
                      /\ p = current
                      /\ \A q \in Providers : Active(q) => q = p
                      /\ \A r \in Requests : ~Active(r)
    BY <1>0, <2>3 DEF CalmInv, LoopInv, TaskInv, Active, Tasks
  <2>8. "partial" \notin Contents /\ None \notin Contents
    BY DEF Broken
  <2>9. CalmInv'
    BY <1>0, <2>2, <2>3, <2>7, <2>8 DEF CalmInv, TypeOK, Active, Writing, Tasks
  <2> QED
    BY <2>5, <2>6, <2>9
<1> QED
  BY <1>1, <1>2

\* The file is truncated by a task that has the mutex of its provider.
LEMMA LoadInv == ASSUME Inv, world' = world, NEW t \in Tasks, Load(t) PROVE Inv'
<1> USE ConstantsAssumption, Identities, Rests DEF Inv, coreVars, envVars, Goto, Load
<1>1. TypeOK'
  BY DEF TypeOK, Labels, Broken
<1>2. TaskInv' /\ LoopInv'
  BY DEF TaskInv, LoopInv, TypeOK, Active, Tasks
<1>3. CalmInv'
  <2>1. world.calm => Writing = {}
    BY DEF CalmInv, Writing, Writers, Active
  <2>2. world.calm /\ t \notin Providers => \A p \in Providers : at[p] # "local"
    BY DEF CalmInv, LoopInv, TaskInv, Active, Tasks
  <2>3. ASSUME world.calm, t \in Providers, NEW p \in Providers, at[p] = "local"
        PROVE  FALSE
    <3>1. on[t] = t /\ on[p] = p /\ Active(t) /\ Active(p) /\ p \in Tasks
      BY <2>3 DEF TaskInv, Active, Tasks
    <3>2. t = current /\ p = current
      BY <2>3, <3>1 DEF CalmInv
    <3> QED
      BY <2>3, <3>2
  <2> QED
    BY <2>1, <2>2, <2>3 DEF CalmInv, TypeOK, Active, Writing, Tasks
<1> QED
  BY <1>1, <1>2, <1>3

\* The content is written and put into force, or the write fails.
LEMMA WriteInv ==
    ASSUME Inv, world' = world, NEW t \in Tasks, Written(t) \/ WriteFails(t)
    PROVE  Inv'
<1> USE ConstantsAssumption, Identities, Rests DEF Inv, coreVars, envVars
<1> DEFINE label == IF t \in Providers THEN Resting ELSE "over"
<1>1. /\ UNCHANGED <<coreVars, closed, on, etag, envVars>>
      /\ at[t] = "writing"
      /\ at' = [at EXCEPT ![t] = label]
      /\ started' = started \cup ({t} \cap Providers)
      /\ buf' = [buf EXCEPT ![t] = None] /\ sent' = [sent EXCEPT ![t] = None]
      /\ side' = side \ {t}
  BY DEF Written, WriteFails, Finish, Goto
<1>2. \/ hash' = [hash EXCEPT ![on[t]] = buf[t]]
         /\ file' \in {buf[t]} \cup (IF file = "partial" THEN {} ELSE {"mixed"})
      \/ hash' = hash /\ file' = IF file = "partial" THEN "partial" ELSE "mixed"
  BY DEF Written, WriteFails
<1>3. on[t] \in Providers /\ on[t] <= setups /\ buf[t] \in Parsable
  <2>1. on[t] \in 1..setups /\ buf[t] \in Parsable
    BY <1>1 DEF TaskInv, Active
  <2>2. setups \in 0..MaxSetups
    BY DEF TypeOK
  <2> QED
    BY <2>1, <2>2 DEF Providers
<1>4. TypeOK'
  <2>1. /\ hash' \in [Providers -> {None} \cup Parsable \cup Broken]
        /\ file' \in {None} \cup Contents \cup Broken
    BY <1>2, <1>3 DEF TypeOK, Broken
  <2>2. at' \in [Tasks -> Labels] /\ started' \subseteq Providers
    BY <1>1 DEF TypeOK, Labels
  <2>3. /\ buf' \in [Tasks -> {None} \cup Contents \cup Broken]
        /\ sent' \in [Tasks -> {None} \cup Contents]
        /\ side' \subseteq Requests
    BY <1>1 DEF TypeOK
  <2> QED
    BY <1>1, <2>1, <2>2, <2>3 DEF TypeOK
<1>5. TaskInv' /\ LoopInv'
  BY <1>1, <1>2, <1>3 DEF TaskInv, LoopInv, TypeOK, Active, Tasks
<1>6. CalmInv'
  <2>1. world.calm => /\ \A p \in Providers : at[p] \notin {"initial", "local"}
                      /\ on[t] = current /\ file = "partial"
                      /\ \A u \in Tasks : at[u] = "writing" => u = t
    BY <1>1 DEF CalmInv, LoopInv, TaskInv, Active, Tasks
  <2> QED
    BY <1>1, <1>2, <1>3, <2>1 DEF CalmInv, TypeOK, Active, Writing, Tasks
<1> QED
  BY <1>4, <1>5, <1>6

\* A provider that is no longer referred to is closed, and its loop ends.
LEMMA EndInv ==
    ASSUME Inv, world' = world, NEW p \in Providers, LoopEnds(p) \/ Finalize(p)
    PROVE  Inv'
<1> USE ConstantsAssumption, Identities, Rests DEF Inv, coreVars, envVars, taskVars, Goto
<1>0. p \in Tasks
  BY DEF Tasks
<1>1. ~world.calm
  BY DEF LoopEnds, Finalize, CalmInv, LoopInv, TaskInv, Active, Tasks
<1>2. TypeOK'
  <2>1. CASE LoopEnds(p)
    <3>1. at' \in [Tasks -> Labels] /\ started' \subseteq Providers
      BY <1>0, <2>1 DEF LoopEnds, TypeOK, Labels
    <3> QED
      BY <2>1, <3>1 DEF LoopEnds, TypeOK
  <2>2. CASE Finalize(p)
    BY <2>2 DEF Finalize, TypeOK
  <2> QED
    BY <2>1, <2>2
<1>3. TaskInv' /\ LoopInv'
  BY <1>0 DEF LoopEnds, Finalize, TaskInv, LoopInv, TypeOK, Active, Tasks
<1> QED
  BY <1>1, <1>2, <1>3 DEF CalmInv

\* The environment.
LEMMA EnvironmentInv ==
    ASSUME Inv, world' = world, RemoteChanges \/ Outage \/ Crash
    PROVE  Inv'
<1> USE ConstantsAssumption, Identities, Rests DEF Inv, coreVars, envVars, taskVars, Event
<1>1. CASE RemoteChanges \/ Outage
  <2>1. UNCHANGED <<coreVars, hash, closed, taskVars, file, etag>>
    BY <1>1 DEF RemoteChanges, Outage
  <2>2. TypeOK'
    <3>1. remote \in Contents /\ healthy \in BOOLEAN /\ events \in Nat
      BY DEF TypeOK
    <3>2. CASE RemoteChanges
      BY <2>1, <3>1, <3>2 DEF RemoteChanges, TypeOK
    <3>3. CASE Outage
      <4>1. healthy' \in BOOLEAN /\ remote' = remote /\ events' \in Nat
        BY <3>1, <3>3 DEF Outage
      <4> QED
        BY <2>1, <3>1, <4>1 DEF TypeOK
    <3> QED
      BY <1>1, <3>2, <3>3
  <2>3. TaskInv' /\ LoopInv'
    BY <2>1 DEF TaskInv, LoopInv, Active
  <2>4. CalmInv'
    BY <2>1 DEF CalmInv, Active, Writing
  <2> QED
    BY <2>2, <2>3, <2>4
<1>2. CASE Crash
  <2>1. TypeOK'
    BY <1>2 DEF Crash, TypeOK, Labels, Broken
  <2>2. TaskInv' /\ LoopInv' /\ CalmInv'
    BY <1>2 DEF Crash, TaskInv, LoopInv, CalmInv, TypeOK, Active, Writing, Tasks
  <2> QED
    BY <2>1, <2>2
<1> QED
  BY <1>1, <1>2

\* Every step keeps the invariant.
LEMMA NextInv == Inv /\ [Next]_vars => Inv'
<1> SUFFICES ASSUME Inv, [Next]_vars PROVE Inv'
  OBVIOUS
<1>1. CASE UNCHANGED vars
  <2>1. TypeOK' /\ TaskInv'
    BY <1>1 DEF Inv, vars, coreVars, taskVars, envVars, TypeOK, TaskInv, Active
  <2>2. LoopInv' /\ CalmInv'
    BY <1>1, Rests
       DEF Inv, vars, coreVars, taskVars, envVars, LoopInv, CalmInv, Active, Writing
  <2> QED
    BY <2>1, <2>2 DEF Inv
<1>2. ASSUME world' = world, NEW t \in Tasks, Step(t) \/ Loading(t) PROVE Inv'
  BY <1>2, QuietInv, InitialInv, LoadInv, WriteInv DEF Step, Loading
<1> QED
  BY <1>1, <1>2, SetupInv, HandlerInv, EndInv, EnvironmentInv DEF Next

\* The inductive invariant holds in every reachable state.
LEMMA Invariance == Spec => []Inv
BY InitInv, NextInv, PTL DEF Spec

\* Type correctness: whatever was downloaded, side-loaded or found in the file,
\* a provider never loads what the parser refuses.
THEOREM TypeCorrect == Spec => []TypeOK
<1>1. Inv => TypeOK
  BY DEF Inv
<1> QED
  BY <1>1, Invariance, PTL

\* The file of a provider that is alone agrees with what it has loaded.
THEOREM FileAgreement == Spec => []FileAgrees
<1>1. Inv => FileAgrees
  <2> SUFFICES ASSUME Inv, NEW p \in Providers, world.calm, p = current,
                      Writers(p) = {}, hash[p] \in Contents
               PROVE  file \in {hash[p], "partial"}
    BY DEF FileAgrees
  <2>1. Writing = {}
    BY DEF Inv, CalmInv, Writers, Writing, Active
  <2>2. current # 0
    BY Identities
  <2> QED
    BY <2>1, <2>2 DEF Inv, CalmInv
<1> QED
  BY <1>1, Invariance, PTL

-----------------------------------------------------------------------------
(* The providers that are used.                                              *)

Used == {current, listed} \ {0}

\* Only a provider of a setup was finalized, and none that is used.
UseInv ==
    /\ closed \subseteq 1..setups
    /\ listed # 0 => current # 0
    /\ \A p \in Used : p \notin closed /\ Active(p)

\* A step of a task keeps the providers at work: the update of a loop, failed
\* or not, leads back to the loop.
LEMMA StepKeepsWork ==
    ASSUME TypeOK, NEW t \in Tasks, Step(t) \/ Loading(t), NEW p \in Providers, Active(p)
    PROVE  Active(p)'
<1>1. ASSUME NEW label, Goto(t, label), label \notin {"unused", "over"} PROVE Active(p)'
  BY <1>1 DEF Goto, TypeOK, Active, Tasks
<1>2. ASSUME Finish(t) PROVE Active(p)'
  <2>1. at' = [at EXCEPT ![t] = IF t \in Providers THEN Resting ELSE "over"]
    BY <1>2 DEF Finish, Goto
  <2>2. QED BY <2>1 DEF TypeOK, Active, Tasks, Resting
<1>3. CASE StartRead(t) \/ Answered(t) \/ ReadFails(t) \/ SetETag(t)
  BY <1>1, <1>2, <1>3 DEF StartRead, Answered, ReadFails, SetETag
<1>4. CASE Written(t) \/ WriteFails(t) \/ LoadNothing(t) \/ Load(t)
  BY <1>1, <1>2, <1>4 DEF Written, WriteFails, LoadNothing, Load
<1>5. CASE InitialRead(t) \/ Pull(t) \/ LoadLocal(t)
  BY <1>1, <1>5 DEF InitialRead, Pull, LoadLocal, Resting
<1>6. QED BY <1>3, <1>4, <1>5 DEF Step, Loading

\* A provider comes into use with its setup, and a finalizer spares those used.
LEMMA UseKept ==
    ASSUME Inv, UseInv, [Next]_vars
    PROVE  UseInv'
<1> USE DEF coreVars, taskVars, envVars
<1>0. /\ TypeOK /\ Used \subseteq Providers
      /\ {current, listed} \subseteq 0..setups /\ setups \in Nat
  BY Identities, ConstantsAssumption DEF Inv, TypeOK, TaskInv, Used, Providers
<1>1. ASSUME UNCHANGED coreVars, closed' = closed,
             \A p \in Providers : Active(p) => Active(p)'
      PROVE  UseInv'
  BY <1>0, <1>1 DEF UseInv, Used
<1>2. CASE UNCHANGED vars
  BY <1>1, <1>2 DEF vars, Active
<1>3. CASE GetExternalProviders
  BY <1>0, <1>3 DEF GetExternalProviders, UseInv, Used, Active
<1>4. ASSUME NEW r \in Requests, UpdateExternalProvider(r) \/ SideLoadExternalProvider(r)
      PROVE  UseInv'
  <2>1. UNCHANGED coreVars /\ closed' = closed /\ \E label : at' = [at EXCEPT ![r] = label]
    BY <1>4 DEF UpdateExternalProvider, SideLoadExternalProvider, Goto
  <2>2. \A p \in Providers : at'[p] = at[p]
    BY <1>0, <2>1, Identities DEF TypeOK, Tasks
  <2>3. QED BY <1>1, <2>1, <2>2 DEF Active
<1>5. ASSUME NEW t \in Tasks, Step(t) \/ Loading(t) PROVE UseInv'
  <2>1. UNCHANGED coreVars /\ closed' = closed
    BY <1>5
       DEF Step, Loading, StartRead, Answered, ReadFails, SetETag, Written, WriteFails,
           InitialRead, Pull, LoadNothing, Load, LoadLocal
  <2>2. QED BY <1>0, <1>1, <1>5, <2>1, StepKeepsWork
<1>6. ASSUME NEW p \in Providers, Setup(p) PROVE UseInv'
  <2>1. /\ p = setups + 1 /\ setups' = p /\ current' = p /\ UNCHANGED <<listed, closed>>
        /\ at' = [at EXCEPT ![p] = "initial"]
    BY <1>6 DEF Setup, Goto
  <2>2. p \notin closed /\ p # 0 /\ closed \subseteq 1..setups'
    BY <1>0, <2>1 DEF UseInv
  <2>3. \A q \in Providers : Active(q) \/ q = p => Active(q)'
    BY <1>0, <2>1 DEF TypeOK, Active, Tasks
  <2>4. Used' \subseteq Used \cup {p}
    BY <2>1 DEF Used
  <2>5. QED BY <1>0, <2>1, <2>2, <2>3, <2>4 DEF UseInv
<1>7. ASSUME NEW p \in Providers, LoopEnds(p) PROVE UseInv'
  <2>1. /\ UNCHANGED coreVars /\ closed' = closed /\ p \in closed
        /\ at' = [at EXCEPT ![p] = "over"]
    BY <1>7 DEF LoopEnds, Goto
  <2>2. \A q \in Used : q # p /\ at'[q] = at[q]
    BY <1>0, <2>1 DEF UseInv, TypeOK, Tasks
  <2>3. QED BY <2>1, <2>2 DEF UseInv, Used, Active
<1>8. ASSUME NEW p \in Providers, Finalize(p) PROVE UseInv'
  <2>1. UNCHANGED <<coreVars, taskVars>> /\ closed' = closed \cup {p} /\ p \notin Used
    BY <1>8 DEF Finalize, Used
  <2>2. p \in 1..setups
    BY <1>0, <1>8, Identities DEF Finalize, Inv, TaskInv, LoopInv, Providers
  <2>3. QED BY <2>1, <2>2 DEF UseInv, Used, Active
<1>9. CASE RemoteChanges \/ Outage
  BY <1>1, <1>9 DEF RemoteChanges, Outage, Active
<1>10. CASE Crash
  <2>1. current' = 0 /\ listed' = 0 /\ closed' = {}
    BY <1>10 DEF Crash
  <2>2. QED BY <2>1 DEF UseInv, Used
<1>11. QED
  BY <1>2, <1>3, <1>4, <1>5, <1>6, <1>7, <1>8, <1>9, <1>10 DEF Next

\* A provider that is in force or listed goes on as the profile says: whatever
\* setups, listings and finalizers overlap, its context is never cancelled, and
\* with an interval its Initial or its loop is at work, after any error too
\* (fetcher.go:72, 195 and 205, adapter/provider/provider.go:220).
THEOREM UsedGoesOn ==
    Spec => [](\A p \in {current, listed} \ {0} :
                  /\ p \notin closed
                  /\ world.pulls => at[p] \notin {"unused", "still", "over"})
<1>1. Init => UseInv
  BY DEF Init, UseInv, Used
<1>2. Inv /\ UseInv => \A p \in {current, listed} \ {0} :
                          /\ p \notin closed
                          /\ world.pulls => at[p] \notin {"unused", "still", "over"}
  BY DEF UseInv, Used, Active, Inv, LoopInv, Resting, TypeOK, Providers
<1>3. Inv /\ UseInv /\ [Next]_vars => UseInv'
  BY UseKept
<1> QED
  BY <1>1, <1>2, <1>3, Invariance, PTL DEF Spec

-----------------------------------------------------------------------------
(* The two locks, and the providers that are no longer used.                 *)

\* loadBufMutex has one holder per provider; runLock has one holder, which loads.
LocksInv ==
    /\ \A s, t \in Tasks : at[s] = "writing" /\ at[t] = "writing" /\ on[s] = on[t] => s = t
    /\ \A r \in side : at[r] \in {"fetched", "writing"}
    /\ \A q, r \in side : q = r

\* A task that takes the mutex when it is free, and keeps runLock only while it
\* loads, keeps the two locks exclusive.
LEMMA MoveKeepsLocks ==
    ASSUME Inv, LocksInv, NEW t \in Tasks, NEW label,
           at' = [at EXCEPT ![t] = label], label # "writing" \/ Writers(on[t]) = {},
           label = "writing" => at[t] = "fetched",
           UNCHANGED on \/ at[t] # "writing",
           \A s \in Tasks : s # t => on'[s] = on[s],
           label = "writing" => on' = on,
           side' \subseteq side, t \in side' => label \in {"fetched", "writing"}
    PROVE  LocksInv'
<1>1. /\ \A s \in Tasks : s # t => at'[s] = at[s]
      /\ at'[t] = label /\ side \subseteq Tasks
  BY DEF Inv, TypeOK, Tasks
<1>2. ASSUME NEW s \in Tasks, NEW u \in Tasks,
             at'[s] = "writing", at'[u] = "writing", on'[s] = on'[u]
      PROVE  s = u
  <2>1. CASE label # "writing"
    BY <1>1, <1>2, <2>1 DEF LocksInv
  <2>2. CASE label = "writing"
    BY <1>1, <1>2, <2>2 DEF LocksInv, Writers, Writing
  <2>3. QED BY <2>1, <2>2
<1>3. QED BY <1>1, <1>2 DEF LocksInv

\* The mutex is taken when nobody has it, runLock when no side load goes on.
LEMMA LocksKept == ASSUME Inv, LocksInv, [Next]_vars PROVE LocksInv'
<1> USE DEF coreVars, taskVars, envVars
<1>0. /\ TypeOK /\ Requests \subseteq Tasks /\ Providers \subseteq Tasks
      /\ side \subseteq Requests /\ Requests \cap Providers = {}
  BY Identities DEF Inv, TypeOK, Tasks
<1>1. CASE UNCHANGED <<at, on, side>>
  BY <1>1 DEF LocksInv
<1>2. ASSUME NEW r \in Requests, UpdateExternalProvider(r) PROVE LocksInv'
  <2>1. /\ at[r] = "unused" /\ side' = side /\ r \notin side
        /\ at' = [at EXCEPT ![r] = IF listed = 0 THEN "over" ELSE "update"]
        /\ \A s \in Tasks : s # r => on'[s] = on[s]
    BY <1>0, <1>2 DEF UpdateExternalProvider, CanRequest, Goto, LocksInv, TypeOK
  <2>2. QED BY <1>0, <2>1, MoveKeepsLocks
<1>3. ASSUME NEW r \in Requests, SideLoadExternalProvider(r) PROVE LocksInv'
  <2>1. at[r] = "unused" /\ side = {} /\ \A s \in Tasks : s # r => on'[s] = on[s]
    BY <1>0, <1>3 DEF SideLoadExternalProvider, CanRequest, RunLocked, TypeOK
  <2>2. /\ at' = [at EXCEPT ![r] = IF listed = 0 THEN "over" ELSE "fetched"]
        /\ side' \subseteq {r} /\ (listed = 0 => side' = {})
    BY <1>3, <2>1 DEF SideLoadExternalProvider, Goto
  <2>3. at'[r] # "writing" /\ \A s \in Tasks : s # r => at'[s] = at[s]
    BY <1>0, <2>2 DEF TypeOK
  <2>4. r \in side' => at'[r] = "fetched"
    BY <1>0, <2>2 DEF TypeOK
  <2>5. QED BY <1>0, <2>1, <2>2, <2>3, <2>4 DEF LocksInv
<1>4. ASSUME NEW t \in Tasks, Finish(t), on' = on PROVE LocksInv'
  <2>1. PICK label \in {"loop", "still", "over"} : at' = [at EXCEPT ![t] = label]
    BY <1>4 DEF Finish, Goto, Resting
  <2>2. side' \subseteq side /\ t \notin side'
    BY <1>4 DEF Finish
  <2>3. QED BY <1>4, <2>1, <2>2, MoveKeepsLocks
<1>5. ASSUME NEW t \in Tasks, NEW label, Goto(t, label), label # "writing",
             at[t] \notin {"fetched", "writing"}, UNCHANGED <<on, side>>
      PROVE  LocksInv'
  <2>1. t \notin side
    BY <1>5 DEF LocksInv
  <2>2. QED BY <1>5, <2>1, MoveKeepsLocks DEF Goto
<1>6. ASSUME NEW t \in Tasks, Load(t) PROVE LocksInv'
  BY <1>6, MoveKeepsLocks DEF Load, Goto
<1>7. ASSUME NEW t \in Tasks, Step(t) PROVE LocksInv'
  <2>1. CASE StartRead(t)
    BY <1>4, <1>5, <2>1 DEF StartRead
  <2>2. CASE Answered(t)
    BY <1>5, <2>2 DEF Answered
  <2>3. CASE ReadFails(t) \/ Written(t) \/ WriteFails(t)
    BY <1>4, <2>3 DEF ReadFails, Written, WriteFails
  <2>4. CASE SetETag(t) \/ InitialRead(t) \/ Pull(t)
    BY <1>5, <2>4 DEF SetETag, InitialRead, Pull
  <2>5. QED BY <1>7, <2>1, <2>2, <2>3, <2>4 DEF Step
<1>8. ASSUME NEW t \in Tasks, Loading(t) PROVE LocksInv'
  BY <1>4, <1>5, <1>6, <1>8 DEF Loading, LoadNothing, LoadLocal, Resting
<1>9. ASSUME NEW p \in Providers, Setup(p) \/ LoopEnds(p) PROVE LocksInv'
  <2>1. CASE Setup(p)
    <3>1. at[p] = "unused"
      BY <2>1, Identities, ConstantsAssumption DEF Setup, Inv, TaskInv, TypeOK, Providers
    <3>2. QED BY <1>0, <1>5, <2>1, <3>1 DEF Setup
  <2>2. CASE LoopEnds(p)
    BY <1>0, <1>5, <2>2 DEF LoopEnds
  <2>3. QED BY <1>9, <2>1, <2>2
<1>10. CASE Crash
  BY <1>10 DEF Crash, LocksInv
<1>11. QED
  <2>1. CASE \/ GetExternalProviders \/ RemoteChanges \/ Outage
             \/ \E p \in Providers : Finalize(p)
    BY <1>1, <2>1 DEF GetExternalProviders, RemoteChanges, Outage, Finalize
  <2>2. CASE UNCHANGED vars
    BY <1>1, <2>2 DEF vars
  <2>3. QED BY <2>1, <2>2, <1>2, <1>3, <1>7, <1>8, <1>9, <1>10 DEF Next

\* The two locks cannot stop each other: a side load that keeps runLock is alone
\* with it and waits at most for the mutex of its provider (hub.go:412), and
\* whoever has that mutex is alone with it and waits for nothing
\* (fetcher.go, loadBuf).
THEOREM LocksGoOn ==
    Spec => [](/\ \A q, r \in side : q = r
               /\ \A r \in side : at[r] \in {"fetched", "writing"}
               /\ \A p \in Providers : \A s, t \in Writers(p) : s = t)
<1>1. Init => LocksInv
  BY DEF Init, LocksInv
<1>2. LocksInv => /\ \A q, r \in side : q = r
                  /\ \A r \in side : at[r] \in {"fetched", "writing"}
                  /\ \A p \in Providers : \A s, t \in Writers(p) : s = t
  BY DEF LocksInv, Writers, Writing
<1>3. Inv /\ LocksInv /\ [Next]_vars => LocksInv'
  BY LocksKept
<1>4. QED BY <1>1, <1>2, <1>3, Invariance, PTL DEF Spec

\* A provider that is neither in force nor listed never is again, whatever is
\* set up and listed later (hub.go:326): its finalizer, once it may run, can run
\* for good, and it may run once Initial has returned.
THEOREM OldStaysOld ==
    Spec => [][\A p \in 1..setups : p \notin {current, listed} =>
                  /\ p \notin {current', listed'}
                  /\ at'[p] \in {"loop", "still"} => p \in started']_vars
<1>1. ASSUME Inv, Inv', Next, NEW p \in 1..setups, p \notin {current, listed}
      PROVE  p \notin {current', listed'} /\ (at'[p] \in {"loop", "still"} => p \in started')
  <2>0. setups \in Nat /\ p # 0 /\ p \in Providers
    BY <1>1, ConstantsAssumption DEF Inv, TypeOK, Providers
  <2>1. \/ current' = current /\ listed' = listed
        \/ listed' = current /\ current' = current
        \/ current' = setups + 1 /\ listed' = listed
        \/ current' = 0 /\ listed' = 0
    BY <1>1
       DEF Next, Step, Loading, GetExternalProviders, UpdateExternalProvider,
           SideLoadExternalProvider, StartRead, Answered, ReadFails, SetETag, Written, WriteFails,
           InitialRead, Pull, LoadNothing, Load, LoadLocal, Setup, LoopEnds, Finalize,
           RemoteChanges, Outage, Crash, coreVars
  <2>2. p \notin {current', listed'}
    BY <1>1, <2>0, <2>1
  <2>3. QED BY <1>1, <2>0, <2>2 DEF Inv, LoopInv
<1>2. Inv /\ Inv' /\ [Next]_vars =>
         [\A p \in 1..setups : p \notin {current, listed} =>
             /\ p \notin {current', listed'}
             /\ at'[p] \in {"loop", "still"} => p \in started']_vars
  BY <1>1
<1>3. QED BY <1>2, Invariance, PTL DEF Spec
=============================================================================
