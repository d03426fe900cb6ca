--------------------------- MODULE ProviderFetcher ---------------------------
(***************************************************************************)
(* The external providers of a profile: the fetcher of Clash.Meta          *)
(* (component/resource) and the handlers of core/hub.go that list, update  *)
(* and side-load them.                                                     *)
(*                                                                         *)
(* A setup makes a new object for the provider of the profile and spawns   *)
(* its Initial, which is not awaited: it loads the local file or else      *)
(* downloads, then starts the loop that pulls the content at intervals, if *)
(* the profile gives the provider an interval.                             *)
(* The objects of all setups share one url, one file and one entry of the  *)
(* persistent etag cache.  An object nobody refers to is closed by its     *)
(* finalizer, which ends its loop; a listed object is referred to.         *)
(*                                                                         *)
(* A provider is the number of its setup; it also stands for the goroutine *)
(* of its Initial and of its loop, which follow each other.                *)
(***************************************************************************)
EXTENDS Naturals

CONSTANTS
    Contents,    \* what the remote may serve and a client may side-load
    Parsable,    \* those the parser accepts
    Requests,    \* updateExternalProvider and sideLoadExternalProvider requests
    MaxSetups,   \* bound: setups in a behaviour
    Worlds,      \* kinds of behaviour: records of the fields below
    None         \* no content, no file

Providers == 1..MaxSetups
Tasks == Providers \cup Requests

\* A file with the beginning of a content, and one two writers have mixed up.
Broken == {"partial", "mixed"}

ASSUME ConstantsAssumption ==
    /\ Parsable \subseteq Contents
    /\ None \notin Contents \cup Broken
    /\ Contents \cap Broken = {}
    /\ MaxSetups \in Nat
    /\ Requests \cap Nat = {}
    /\ \A w \in Worlds :
          /\ {w.calm, w.pulls} \subseteq BOOLEAN
          /\ w.requests \subseteq Requests /\ w.events \in Nat
          /\ w.file \in {None} \cup Contents /\ w.remote \in Contents

VARIABLES
    current,   \* the provider of the profile in force, 0 for none
    listed,    \* the one in externalProviders, 0 for none
    setups,    \* providers made so far
    hash,      \* provider -> the content it has loaded
    closed,    \* providers whose context is cancelled
    started,   \* providers whose Initial has returned
    at,        \* task -> where it is
    on,        \* task -> the provider it works on
    buf,       \* task -> the content it has read
    sent,      \* task -> the content whose etag it sends, or None
    side,      \* requests that side-load
    file,      \* the local file
    etag,      \* the content whose etag the cache has
    remote,    \* what the remote serves
    healthy,   \* the network and the disk work
    events,    \* how often the environment has changed
    world      \* the kind of this behaviour

coreVars == <<current, listed, setups>>
taskVars == <<at, started, on, buf, sent, side>>
envVars  == <<remote, healthy, events>>
vars == <<coreVars, hash, closed, taskVars, file, etag, envVars, world>>

Init ==
    /\ current = 0 /\ listed = 0 /\ setups = 0
    /\ hash = [p \in Providers |-> None]
    /\ closed = {}
    /\ at = [t \in Tasks |-> "unused"]
    /\ on = [t \in Tasks |-> IF t \in Providers THEN t ELSE 0]
    /\ buf = [t \in Tasks |-> None]
    /\ started = {}
    /\ sent = [t \in Tasks |-> None]
    /\ side = {}
    /\ world \in Worlds
    /\ file = world.file
    /\ etag = None
    /\ remote = world.remote
    /\ healthy = TRUE
    /\ events = 0

-----------------------------------------------------------------------------
(* Who works.                                                                *)

Goto(t, label) == at' = [at EXCEPT ![t] = label]

\* startPullLoop: a provider without an interval has no loop.
Resting == IF world.pulls THEN "loop" ELSE "still"

\* The update of t is over: a request is answered; Initial returns, having
\* started the loop even if its update failed; the loop waits for its timer.
Finish(t) ==
    /\ Goto(t, IF t \in Providers THEN Resting ELSE "over")
    /\ started' = started \cup ({t} \cap Providers)
    /\ buf' = [buf EXCEPT ![t] = None]
    /\ sent' = [sent EXCEPT ![t] = None]
    /\ side' = side \ {t}

\* Who writes the file, who holds the loadBufMutex of p, who holds runLock.
Writing    == {t \in Tasks : at[t] = "writing"}
Writers(p) == {t \in Writing : on[t] = p}
RunLocked  == side # {}

-----------------------------------------------------------------------------
(* The handlers.                                                             *)

\* setupConfig: ApplyConfig puts the new provider into force and spawns its
\* Initial.
Setup(p) ==
    /\ p = setups + 1
    /\ ~RunLocked
    /\ world.calm => current = 0
    /\ setups' = p
    /\ current' = p
    /\ Goto(p, "initial")
    /\ UNCHANGED <<listed, hash, closed, started, on, buf, sent, side, file, etag, envVars>>

\* getExternalProviders replaces the map the requests look into.
GetExternalProviders ==
    /\ ~RunLocked
    /\ listed # current
    /\ listed' = current
    /\ UNCHANGED <<current, setups, hash, closed, taskVars, file, etag, envVars>>

CanRequest(r) ==
    /\ r \in world.requests
    /\ at[r] = "unused"
    /\ world.calm /\ listed # 0 => at[listed] = Resting

\* updateExternalProvider reads the map without runLock.
UpdateExternalProvider(r) ==
    /\ CanRequest(r)
    /\ Goto(r, IF listed = 0 THEN "over" ELSE "update")
    /\ on' = [on EXCEPT ![r] = listed]
    /\ UNCHANGED <<coreVars, hash, closed, started, buf, sent, side, file, etag, envVars>>

\* sideLoadExternalProvider holds runLock until its content is loaded.
SideLoadExternalProvider(r) ==
    /\ CanRequest(r)
    /\ ~RunLocked
    /\ IF listed = 0
       THEN /\ Goto(r, "over")
            /\ UNCHANGED <<side, on, buf>>
       ELSE /\ Goto(r, "fetched")
            /\ side' = side \cup {r}
            /\ on' = [on EXCEPT ![r] = listed]
            /\ \E c \in Contents : buf' = [buf EXCEPT ![r] = c]
    /\ UNCHANGED <<coreVars, hash, closed, started, sent, file, etag, envVars>>

-----------------------------------------------------------------------------
(* Initial.                                                                  *)

\* A local file is used first.  That it could not be read, or not to its end,
\* goes unnoticed.
InitialRead(p) ==
    /\ at[p] = "initial"
    /\ IF file = None
       THEN Goto(p, "update") /\ UNCHANGED buf
       ELSE /\ Goto(p, "local")
            /\ \E c \in {file, None, "partial"} :
                  /\ c # file => ~healthy
                  /\ buf' = [buf EXCEPT ![p] = c]
    /\ UNCHANGED <<coreVars, hash, closed, started, on, sent, side, file, etag, envVars>>

\* loadBuf with the local content; without one it changes nothing and reports no
\* error.  A broken file may be parsable.  If the file is old, the loop updates
\* at once.
LoadLocal(p) ==
    /\ at[p] = "local"
    /\ Writers(p) = {}
    /\ \/ /\ buf[p] \in {None, hash[p]} \cup Parsable \cup Broken
          /\ hash' = [hash EXCEPT ![p] = IF buf[p] = None THEN @ ELSE buf[p]]
          /\ started' = started \cup {p}
          /\ \/ Goto(p, Resting)
             \/ world.pulls /\ Goto(p, "update")
       \/ /\ buf[p] \notin {None, hash[p]} \cup Parsable
          /\ Goto(p, "update")
          /\ UNCHANGED <<hash, started>>
    /\ buf' = [buf EXCEPT ![p] = None]
    /\ UNCHANGED <<coreVars, closed, on, sent, side, file, etag, envVars>>

-----------------------------------------------------------------------------
(* Update.                                                                   *)

\* Mutant: the hash of the etag is not compared with that of the content.
StartReadUnmatched(t) ==
    /\ at[t] = "update"
    /\ IF on[t] \in closed
       THEN Finish(t)
       ELSE /\ sent' = [sent EXCEPT ![t] = etag]
            /\ Goto(t, "reading")
            /\ UNCHANGED <<started, buf, side>>
    /\ UNCHANGED <<coreVars, hash, closed, on, file, etag, envVars>>

\* HTTPVehicle.Read: the etag is sent if it is that of the loaded content; the
\* hash, read without the mutex, may be torn while it is assigned.  With a
\* cancelled context the request fails.
StartRead(t) ==
    /\ at[t] = "update"
    /\ IF on[t] \in closed
       THEN Finish(t)
       ELSE /\ \E torn \in BOOLEAN :
                  /\ torn => Writers(on[t]) # {}
                  /\ sent' = [sent EXCEPT ![t] =
                                 IF etag = hash[on[t]] /\ ~torn THEN etag ELSE None]
            /\ Goto(t, "reading")
            /\ UNCHANGED <<started, buf, side>>
    /\ UNCHANGED <<coreVars, hash, closed, on, file, etag, envVars>>

\* The remote answers with its content, or that it is the one of the etag.
Answered(t) ==
    /\ at[t] = "reading"
    /\ healthy
    /\ IF sent[t] = remote
       THEN Goto(t, "fetched") /\ UNCHANGED buf
       ELSE Goto(t, "body") /\ buf' = [buf EXCEPT ![t] = remote]
    /\ UNCHANGED <<coreVars, hash, closed, started, on, sent, side, file, etag, envVars>>

\* Mutant: a download has no time-out.
ReadFailsIfClosed(t) ==
    /\ at[t] = "reading"
    /\ on[t] \in closed
    /\ Finish(t)
    /\ UNCHANGED <<coreVars, hash, closed, on, file, etag, envVars>>

\* An error, the time-out, or the context is cancelled.
ReadFails(t) ==
    /\ at[t] = "reading"
    /\ ~healthy \/ on[t] \in closed
    /\ Finish(t)
    /\ UNCHANGED <<coreVars, hash, closed, on, file, etag, envVars>>

SetETag(t) ==
    /\ at[t] = "body"
    /\ etag' = buf[t]
    /\ Goto(t, "fetched")
    /\ UNCHANGED <<coreVars, hash, closed, started, on, buf, sent, side, file, envVars>>

-----------------------------------------------------------------------------
(* loadBuf with a downloaded or a side-loaded content.                       *)

\* The content is the same (no content stands for an unchanged one), or it
\* does not parse, or the file cannot be opened.
LoadNothing(t) ==
    /\ at[t] = "fetched"
    /\ Writers(on[t]) = {}
    /\ buf[t] \in Parsable \ {hash[on[t]]} => ~healthy
    /\ Finish(t)
    /\ UNCHANGED <<coreVars, hash, closed, on, file, etag, envVars>>

\* Mutant: whatever was downloaded is loaded.
LoadUnparsed(t) ==
    /\ at[t] = "fetched"
    /\ Writers(on[t]) = {}
    /\ buf[t] \notin {None, hash[on[t]]}
    /\ file' = IF Writing = {} THEN "partial" ELSE "mixed"
    /\ Goto(t, "writing")
    /\ UNCHANGED <<coreVars, hash, closed, started, on, buf, sent, side, etag, envVars>>

\* Mutant: loadBuf takes no mutex.
LoadUnlocked(t) ==
    /\ at[t] = "fetched"
    /\ buf[t] \in Parsable \ {hash[on[t]]}
    /\ file' = IF Writing = {} THEN "partial" ELSE "mixed"
    /\ Goto(t, "writing")
    /\ UNCHANGED <<coreVars, hash, closed, started, on, buf, sent, side, etag, envVars>>

\* The content is new: the file is truncated, under the mutex of the object.
Load(t) ==
    /\ at[t] = "fetched"
    /\ Writers(on[t]) = {}
    /\ buf[t] \in Parsable \ {hash[on[t]]}
    /\ file' = IF Writing = {} THEN "partial" ELSE "mixed"
    /\ Goto(t, "writing")
    /\ UNCHANGED <<coreVars, hash, closed, started, on, buf, sent, side, etag, envVars>>

\* The file is written, then the content put into force.
Written(t) ==
    /\ at[t] = "writing"
    /\ file' \in {buf[t]} \cup (IF file = "partial" THEN {} ELSE {"mixed"})
    /\ hash' = [hash EXCEPT ![on[t]] = buf[t]]
    /\ Finish(t)
    /\ UNCHANGED <<coreVars, closed, on, etag, envVars>>

WriteFails(t) ==
    /\ at[t] = "writing"
    /\ ~healthy
    /\ file' = IF file = "partial" THEN "partial" ELSE "mixed"
    /\ Finish(t)
    /\ UNCHANGED <<coreVars, hash, closed, on, etag, envVars>>

-----------------------------------------------------------------------------
(* The pull loop and its end.                                                *)

Pull(p) ==
    /\ at[p] = "loop"
    /\ Goto(p, "update")
    /\ UNCHANGED <<coreVars, hash, closed, started, on, buf, sent, side, file, etag, envVars>>

LoopEnds(p) ==
    /\ at[p] = "loop"
    /\ p \in closed
    /\ Goto(p, "over")
    /\ started' = started \ {p}
    /\ UNCHANGED <<coreVars, hash, closed, on, buf, sent, side, file, etag, envVars>>

\* Mutant: the loop refers to the object.
FinalizeAfterLoop(p) ==
    /\ p \in Providers
    /\ at[p] \in {"still", "over"}
    /\ p \notin {current, listed} \cup closed
    /\ closed' = closed \cup {p}
    /\ UNCHANGED <<coreVars, hash, taskVars, file, etag, envVars>>

\* The finalizer of an object that is not referred to: its loop refers only to
\* the fetcher inside it, its Initial to the object.  It cancels the context.
Finalize(p) ==
    /\ p \in started
    /\ p \notin {current, listed} \cup closed
    /\ closed' = closed \cup {p}
    /\ UNCHANGED <<coreVars, hash, taskVars, file, etag, envVars>>

-----------------------------------------------------------------------------
(* The environment.                                                          *)

Event == events < world.events /\ events' = events + 1

RemoteChanges ==
    /\ Event
    /\ remote' \in Contents \ {remote}
    /\ UNCHANGED <<coreVars, hash, closed, taskVars, file, etag, healthy>>

\* The network or the disk fails, or works again.
Outage ==
    /\ Event
    /\ healthy' = ~healthy
    /\ UNCHANGED <<coreVars, hash, closed, taskVars, file, etag, remote>>

\* The process of the core ends; the file and the etag cache stay.
Crash ==
    /\ Event
    /\ setups > 0
    /\ current' = 0 /\ listed' = 0
    /\ hash' = [p \in Providers |-> None]
    /\ closed' = {}
    /\ started' = {}
    /\ at' = [t \in Tasks |-> IF at[t] = "unused" THEN "unused" ELSE "over"]
    /\ buf' = [t \in Tasks |-> None]
    /\ sent' = [t \in Tasks |-> None]
    /\ side' = {}
    /\ file' \in {file} \cup (IF Writing = {} THEN {} ELSE {"mixed"})
    /\ UNCHANGED <<setups, on, etag, remote, healthy>>

-----------------------------------------------------------------------------
Loading(t) == LoadNothing(t) \/ Load(t) \/ (t \in Providers /\ LoadLocal(t))

Step(t) ==
    \/ StartRead(t) \/ Answered(t) \/ ReadFails(t) \/ SetETag(t)
    \/ Written(t) \/ WriteFails(t)
    \/ t \in Providers /\ (InitialRead(t) \/ Pull(t))

Next ==
    /\ UNCHANGED world
    /\ \/ GetExternalProviders
       \/ \E r \in Requests : UpdateExternalProvider(r) \/ SideLoadExternalProvider(r)
       \/ \E t \in Tasks : Step(t) \/ Loading(t)
       \/ \E p \in Providers : Setup(p) \/ LoopEnds(p) \/ Finalize(p)
       \/ RemoteChanges \/ Outage \/ Crash

Spec == Init /\ [][Next]_vars

\* Goroutines run, downloads are limited in time, a timer fires, a mutex serves
\* those who wait; the loop looks at its context as often as at its timer; the
\* runtime collects garbage.  Nobody has to send a request or to set up, and
\* the environment does as it likes.
Fairness ==
    /\ \A t \in Tasks : /\ WF_vars(Step(t) /\ UNCHANGED world)
                        /\ SF_vars(Loading(t) /\ UNCHANGED world)
    /\ \A p \in Providers : /\ SF_vars(LoopEnds(p) /\ UNCHANGED world)
                            /\ WF_vars(Finalize(p) /\ UNCHANGED world)

FairSpec == Spec /\ Fairness

-----------------------------------------------------------------------------
Labels == {"unused", "initial", "local", "update", "reading", "body", "fetched",
           "writing", "loop", "still", "over"}

\* Every variable has its type; what a provider has loaded was accepted by the
\* parser, wherever it came from (fetcher.go, loadBuf).
TypeOK ==
    /\ {current, listed, setups} \subseteq 0..MaxSetups
    /\ hash \in [Providers -> {None} \cup Parsable \cup Broken]
    /\ closed \subseteq Providers
    /\ started \subseteq Providers
    /\ at \in [Tasks -> Labels]
    /\ on \in [Tasks -> 0..MaxSetups]
    /\ buf \in [Tasks -> {None} \cup Contents \cup Broken]
    /\ sent \in [Tasks -> {None} \cup Contents]
    /\ side \subseteq Requests
    /\ file \in {None} \cup Contents \cup Broken
    /\ etag \in {None} \cup Contents
    /\ remote \in Contents
    /\ healthy \in BOOLEAN
    /\ events \in Nat
    /\ world \in Worlds

\* With one provider in a process, whose local file was read before the
\* requests began, the file is never another content than the loaded one,
\* whatever the loop and the requests do at once: at worst it is incomplete,
\* after a write that failed (fetcher.go, loadBuf).
FileAgrees ==
    \A p \in Providers :
        (world.calm /\ p = current /\ p \in started /\ Writers(p) = {}
            /\ hash[p] \in Contents)
        => file \in {hash[p], "partial"}

\* A provider with an interval follows its remote: whatever crashes, outages, side loads and
\* updates there were and in whichever order they loaded their contents, once
\* the remote and the network stay good, the provider in force gets what the
\* remote serves, although it asks only for changes (vehicle.go, Read).
Converges ==
    []<>(world.pulls /\ healthy /\ current # 0 /\ remote \in Parsable
            => hash[current] = remote)

\* The loop of a provider that is neither in force nor listed ends; one without
\* a loop is closed.
OldLoopsEnd ==
    \A p \in Providers :
        (p <= setups /\ p \notin {current, listed}) ~>
            (at[p] = "over" \/ (at[p] = "still" /\ p \in closed))

\* Every request is answered, or the process has ended: updates that wait for
\* each other's mutex, with a side load that keeps runLock, get through, and so
\* do those that wait for a remote that does not answer.
RequestsEnd == \A r \in Requests : at[r] # "unused" ~> at[r] = "over"
=============================================================================
