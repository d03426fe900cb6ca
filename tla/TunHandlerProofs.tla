-------------------------- MODULE TunHandlerProofs --------------------------
(***************************************************************************)
(* Proofs about TunHandler for any number of calls and dialling            *)
(* goroutines: types, the life of a callback, the state after a stop, the  *)
(* implementation of TunContract, and the queue of the permits.            *)
(***************************************************************************)
EXTENDS TunHandler, FiniteSetTheorems, SequenceTheorems, TLAPS

-----------------------------------------------------------------------------
(* The inductive invariant.                                                  *)

Locked(c) == pc[c] \in {"acquire", "close", "open"}

\* Exactly the goroutine in a critical section that outlives a step holds
\* tunLock, and the critical section works on the global handler.
LockInv ==
    /\ \A c \in Calls : Locked(c) <=> lock = c
    /\ \A c \in Calls : pc[c] \in {"acquire", "close"} => tunHandler \in Starts
    /\ \A c \in Calls : pc[c] = "open" => c \in Starts /\ tunHandler = c
    /\ \A c \in Calls : pc[c] = "start" => c \in Starts

\* A closing call that holds permits of a handler holds them all, alone; one
\* that waits for them is queued once.
SemInv ==
    /\ \A h \in Starts, c \in Calls : c \in holders[h] =>
          /\ holders[h] = {c}
          /\ pc[c] \in {"acquire", "close"}
          /\ tunHandler = h
    /\ \A h \in Starts : \A i \in 1..Len(waiters[h]) : waiters[h][i] \in Calls =>
          /\ pc[waiters[h][i]] = "acquire"
          /\ tunHandler = h
          /\ waiters[h][i] \notin holders[h]
          /\ \A j \in 1..Len(waiters[h]) : j # i => waiters[h][j] # waiters[h][i]
    /\ \A c \in Calls : pc[c] = "close" => c \in holders[tunHandler]

\* A handler is filled by its own start call and emptied as a whole.
HandlerInv ==
    \A s \in Starts :
        /\ released[s] <= 1
        /\ callback[s] => released[s] = 0
        /\ listener[s] => callback[s]
        /\ listener[s] <=> tun[s] = "open"
        /\ pc[s] \notin {"open", "done"} =>
              tunHandler # s /\ ~callback[s] /\ released[s] = 0 /\ tun[s] = "none"
        /\ pc[s] = "open" => callback[s] /\ tun[s] = "none"
        /\ tunHandler = s => callback[s] \/ released[s] = 1

\* A goroutine in a hook has a handler; one in a native call holds a permit
\* of a handler that has its listener.
DialInv ==
    /\ hook => tunHandler # Nil
    /\ \A d \in Dials :
        /\ dpc[d] = "inhook" => tunHandler # Nil
        /\ dpc[d] \in {"acquire", "using"} => dh[d] \in Starts
        /\ dpc[d] = "using" => d \in holders[dh[d]] /\ listener[dh[d]]

\* The hooks are gone before the handler is emptied.
StopInv ==
    /\ StoppedIsClosed
    /\ \A c \in Calls : pc[c] \in {"acquire", "close"} => ~runTime
    /\ \A c \in Calls : pc[c] = "close" => ~hook
    /\ \A c \in Calls : pc[c] = "open" => runTime

IInv == LockInv /\ SemInv /\ HandlerInv /\ DialInv /\ StopInv

-----------------------------------------------------------------------------
(* The semaphore.                                                            *)

Procs == Calls \cup Dials

\* The positions of a queue of k requests are k.
LEMMA PositionsCardinality ==
    ASSUME NEW k \in Nat
    PROVE  IsFiniteSet(1..k) /\ Cardinality(1..k) = k
<1>1. IsFiniteSet(1..k) /\ Cardinality(1..k) = IF 1 > k THEN 0 ELSE k - 1 + 1
  <2>1. 1 \in Int /\ k \in Int
    OBVIOUS
  <2> QED
    BY <2>1, FS_Interval, ZenonT(30)
<1> QED
  BY <1>1

\* A release admits a prefix of the queue (semaphore.Weighted.notifyWaiters).
LEMMA AdmittedPrefix ==
    ASSUME NEW W \in Seq(Procs), NEW H
    PROVE  LET n == Cardinality(Admitted(W, H))
           IN  n \in 0..Len(W) /\ Admitted(W, H) = 1..n
<1> DEFINE A == Admitted(W, H)
           n == Cardinality(A)
           Ok(j) == Fits(W[j], H \cup {W[k] : k \in 1..(j - 1)})
<1>2. Len(W) \in Nat
  OBVIOUS
<1>1. A \subseteq 1..Len(W) /\ \A i \in A : 1..i \subseteq A
  <2>1. A = {i \in 1..Len(W) : \A j \in 1..i : Ok(j)}
    BY DEF Admitted
  <2> HIDE DEF Ok, A
  <2> QED
    BY <1>2, <2>1
<1> HIDE DEF A
<1>3. IsFiniteSet(1..Len(W)) /\ Cardinality(1..Len(W)) = Len(W)
  BY <1>2, PositionsCardinality
<1>4. IsFiniteSet(A) /\ n <= Len(W) /\ n \in Nat
  <2>1. A \in SUBSET (1..Len(W))
    BY <1>1
  <2>2. IsFiniteSet(A) /\ Cardinality(A) <= Cardinality(1..Len(W))
    BY <1>3, <2>1, FS_Subset
  <2>3. Cardinality(A) \in Nat
    BY <2>2, FS_CardinalityType
  <2> QED
    BY <1>3, <2>2, <2>3
<1>5. ASSUME NEW i \in A PROVE i <= n
  <2>1. i \in Nat /\ 1..i \in SUBSET A
    BY <1>1
  <2>2. Cardinality(1..i) = i
    BY <2>1, PositionsCardinality
  <2>3. Cardinality(1..i) <= Cardinality(A)
    BY <2>1, <1>4, FS_Subset
  <2> QED
    BY <2>2, <2>3
<1>6. A \in SUBSET (1..n)
  BY <1>1, <1>4, <1>5
<1>7. IsFiniteSet(1..n) /\ Cardinality(1..n) = n
  BY <1>4, PositionsCardinality
<1>8. A = 1..n
  BY <1>6, <1>7, FS_Subset
<1> QED
  BY <1>2, <1>4, <1>8 DEF A

\* What a request changes (semaphore.Weighted.Acquire).
LEMMA AcquireFacts ==
    ASSUME VarTypes, NEW p \in Procs, NEW h \in Starts, Acquire(p, h)
    PROVE  /\ holders' \in [Starts -> SUBSET Procs]
           /\ waiters' \in [Starts -> Seq(Procs)]
           /\ \A g \in Starts : g # h => holders'[g] = holders[g] /\ waiters'[g] = waiters[g]
           /\ \/ /\ holders'[h] = holders[h] \cup {p}
                 /\ Fits(p, holders[h])
                 /\ waiters'[h] = waiters[h] /\ waiters[h] = <<>>
              \/ /\ holders'[h] = holders[h]
                 /\ waiters'[h] = Append(waiters[h], p)
<1> USE DEF Procs
<1>0. holders \in [Starts -> SUBSET Procs] /\ waiters \in [Starts -> Seq(Procs)]
  BY DEF VarTypes
<1>1. CASE waiters[h] = <<>> /\ Fits(p, holders[h])
  <2>1. holders' = [holders EXCEPT ![h] = @ \cup {p}] /\ waiters' = waiters
    BY <1>1 DEF Acquire
  <2> HIDE DEF Procs
  <2> QED
    BY <1>0, <1>1, <2>1
<1>2. CASE ~(waiters[h] = <<>> /\ Fits(p, holders[h]))
  <2>1. waiters' = [waiters EXCEPT ![h] = Append(@, p)] /\ holders' = holders
    BY <1>2 DEF Acquire
  <2> HIDE DEF Procs
  <2>2. Append(waiters[h], p) \in Seq(Procs)
    BY <1>0
  <2> QED
    BY <1>0, <2>1, <2>2
<1> QED
  BY <1>1, <1>2

\* What a release changes (semaphore.Weighted.Release).
LEMMA ReleaseFacts ==
    ASSUME VarTypes, NEW p \in Procs, NEW h \in Starts, Release(p, h)
    PROVE  /\ holders' \in [Starts -> SUBSET Procs]
           /\ waiters' \in [Starts -> Seq(Procs)]
           /\ \A g \in Starts : g # h => holders'[g] = holders[g] /\ waiters'[g] = waiters[g]
           /\ \E n \in 0..Len(waiters[h]) :
                 /\ holders'[h] = (holders[h] \ {p}) \cup {waiters[h][i] : i \in 1..n}
                 /\ Len(waiters'[h]) = Len(waiters[h]) - n
                 /\ \A i \in 1..Len(waiters'[h]) : waiters'[h][i] = waiters[h][i + n]
                 /\ \A i \in 1..n :
                       Fits(waiters[h][i],
                            (holders[h] \ {p}) \cup {waiters[h][k] : k \in 1..(i - 1)})
                 /\ n < Len(waiters[h]) =>
                       ~Fits(waiters[h][n + 1],
                             (holders[h] \ {p}) \cup {waiters[h][k] : k \in 1..n})
<1> DEFINE W == waiters[h]
           H == holders[h] \ {p}
           A == Admitted(W, H)
           n == Cardinality(A)
           Ok(j) == Fits(W[j], H \cup {W[k] : k \in 1..(j - 1)})
<1>1. W \in Seq(Procs) /\ H \subseteq Procs
  BY DEF VarTypes, Procs
<1>2. n \in 0..Len(W) /\ A = 1..n
  BY <1>1, AdmittedPrefix
<1>3. /\ holders' = [holders EXCEPT ![h] = H \cup {W[i] : i \in A}]
      /\ waiters' = [waiters EXCEPT ![h] = SubSeq(W, n + 1, Len(W))]
  BY DEF Release
<1>4. (\A i \in A : Ok(i)) /\ (n < Len(W) => ~Ok(n + 1))
  <2>1. A = {i \in 1..Len(W) : \A j \in 1..i : Ok(j)}
    BY DEF Admitted
  <2>2. Len(W) \in Nat /\ n \in Nat
    BY <1>1, <1>2
  <2> HIDE DEF Ok, A, n, W
  <2>3. \A i \in A : Ok(i)
    BY <2>1
  <2>4. ASSUME n < Len(W), Ok(n + 1) PROVE FALSE
    <3>1. \A j \in 1..(n + 1) : Ok(j)
      BY <1>2, <2>2, <2>3, <2>4
    <3>2. n + 1 \in A
      BY <2>1, <2>2, <2>4, <3>1
    <3> QED
      BY <1>2, <2>2, <3>2
  <2> QED
    BY <2>3, <2>4
<1>b. n < Len(W) => ~Fits(W[n + 1], H \cup {W[k] : k \in 1..n})
  <2>1. n \in Nat /\ (n + 1) - 1 = n
    BY <1>1, <1>2
  <2> QED
    BY <1>4, <2>1
<1> HIDE DEF A, n
<1>5. {W[i] : i \in A} \subseteq Procs
  BY <1>1, <1>2
<1>6. /\ SubSeq(W, n + 1, Len(W)) \in Seq(Procs)
      /\ Len(SubSeq(W, n + 1, Len(W))) = Len(W) - n
      /\ \A i \in 1..(Len(W) - n) : SubSeq(W, n + 1, Len(W))[i] = W[i + n]
  <2>1. \A i \in (n + 1)..Len(W) : W[i] \in Procs
    BY <1>1, <1>2
  <2>2. n + 1 \in Int /\ Len(W) \in Int /\ n \in Nat /\ n <= Len(W)
    BY <1>1, <1>2
  <2> HIDE DEF W
  <2>3. /\ SubSeq(W, n + 1, Len(W)) \in Seq(Procs)
        /\ Len(SubSeq(W, n + 1, Len(W))) = IF n + 1 <= Len(W) THEN Len(W) - (n + 1) + 1 ELSE 0
        /\ \A i \in 1..(Len(W) - (n + 1) + 1) : SubSeq(W, n + 1, Len(W))[i] = W[(n + 1) + i - 1]
    BY <2>1, <2>2, SubSeqProperties
  <2> QED
    BY <2>2, <2>3
<1>7. /\ holders'[h] = H \cup {W[i] : i \in 1..n}
      /\ waiters'[h] = SubSeq(W, n + 1, Len(W))
  BY <1>2, <1>3 DEF VarTypes
<1>8. holders' \in [Starts -> SUBSET Procs] /\ waiters' \in [Starts -> Seq(Procs)]
  BY <1>1, <1>3, <1>5, <1>6 DEF VarTypes, Procs
<1>9. \A g \in Starts : g # h => holders'[g] = holders[g] /\ waiters'[g] = waiters[g]
  BY <1>3 DEF VarTypes
<1> QED
  BY <1>2, <1>4, <1>6, <1>7, <1>8, <1>9, <1>b
-----------------------------------------------------------------------------
(* Initial states and the steps.                                             *)

Inv == VarTypes /\ IInv

\* Before any call the core holds no handler, lock, hook or permit.
LEMMA InitInv == Init => Inv
<1> SUFFICES ASSUME Init PROVE Inv
  OBVIOUS
<1> USE ConstantsAssumption DEF Init
<1>1. VarTypes
  <2>1. \A S : <<>> \in Seq(S)
    OBVIOUS
  <2>2. waiters \in [Starts -> Seq(Calls \cup Dials)]
    BY <2>1
  <2>3. /\ pc \in [Calls -> CallPC] /\ lock \in Calls \cup {Nil}
        /\ tunHandler \in Starts \cup {Nil} /\ runTime \in BOOLEAN /\ hook \in BOOLEAN
    BY DEF CallPC
  <2>4. /\ callback \in [Starts -> BOOLEAN] /\ listener \in [Starts -> BOOLEAN]
        /\ released \in [Starts -> 0..2]
    OBVIOUS
  <2>5. /\ tun \in [Starts -> {"none", "open", "closed"}]
        /\ holders \in [Starts -> SUBSET (Calls \cup Dials)]
    OBVIOUS
  <2>6. dpc \in [Dials -> DialPC] /\ dh \in [Dials -> Starts \cup {Nil}]
    BY DEF DialPC
  <2> QED
    BY <2>2, <2>3, <2>4, <2>5, <2>6 DEF VarTypes
<1>2. LockInv
  BY DEF LockInv, Locked, Calls
<1>3. SemInv
  BY DEF SemInv, Calls
<1>4. HandlerInv
  BY DEF HandlerInv, Calls
<1>5. DialInv
  BY DEF DialInv
<1>6. StopInv
  BY DEF StopInv, StoppedIsClosed
<1> QED
  BY <1>1, <1>2, <1>3, <1>4, <1>5, <1>6 DEF Inv, IInv

\* The exported functions.
LEMMA CallInv == ASSUME Inv, NEW c \in Calls, Call(c) PROVE Inv'
<1> USE DEF Inv, IInv, Call, handlerVars, semVars, dialVars
<1>0. c # Nil /\ Starts \subseteq Calls
  BY ConstantsAssumption DEF Calls
<1>1. VarTypes'
  BY DEF VarTypes, CallPC
<1>2. LockInv'
  BY DEF LockInv, Locked, VarTypes
<1>3. SemInv'
  BY DEF SemInv, VarTypes
<1>4. HandlerInv'
  BY <1>0 DEF HandlerInv, VarTypes
<1>5. DialInv'
  BY DEF DialInv
<1>6. StopInv'
  BY DEF StopInv, StoppedIsClosed, VarTypes
<1> QED
  BY <1>1, <1>2, <1>3, <1>4, <1>5, <1>6

\* handleStopTun: the request for all permits is admitted or queued.
LEMMA HandleStopTunInv == ASSUME Inv, NEW c \in Calls, HandleStopTun(c) PROVE Inv'
<1> USE DEF Inv, IInv, handlerVars, semVars, dialVars
<1>0. c # Nil /\ Starts \subseteq Calls /\ c \in Procs /\ c \notin Dials
  BY ConstantsAssumption DEF Calls, Procs
<1>1. CASE tunHandler = Nil
  <2> USE <1>1 DEF HandleStopTun, AfterStop
  <2>0. \A e \in Calls : ~Locked(e)
    BY ConstantsAssumption DEF LockInv
  <2>1. VarTypes'
    BY <1>0 DEF VarTypes, CallPC
  <2>2. LockInv'
    BY <1>0 DEF LockInv, Locked, VarTypes
  <2>3. SemInv'
    BY DEF SemInv, VarTypes
  <2>4. HandlerInv'
    BY <1>0 DEF HandlerInv, VarTypes
  <2>5. DialInv'
    BY DEF DialInv
  <2>6. StopInv'
    BY <1>0, <2>0 DEF StopInv, StoppedIsClosed, VarTypes, DialInv, Locked
  <2> QED
    BY <2>1, <2>2, <2>3, <2>4, <2>5, <2>6
<1>2. CASE tunHandler # Nil
  <2> DEFINE h == tunHandler
  <2>0. /\ h \in Starts
        /\ pc[c] = "stop" /\ lock = Nil /\ lock' = c /\ runTime' = FALSE
        /\ pc' = [pc EXCEPT ![c] = "acquire"]
        /\ Acquire(c, h)
        /\ UNCHANGED <<tunHandler, hook, handlerVars, dialVars>>
    BY <1>2 DEF HandleStopTun, VarTypes
  <2>a. \A e \in Calls : ~Locked(e)
    BY <1>0, <2>0, ConstantsAssumption DEF LockInv
  <2>s. /\ holders' \in [Starts -> SUBSET Procs]
        /\ waiters' \in [Starts -> Seq(Procs)]
        /\ \A g \in Starts : g # h => holders'[g] = holders[g] /\ waiters'[g] = waiters[g]
        /\ \/ /\ holders'[h] = holders[h] \cup {c}
              /\ Fits(c, holders[h])
              /\ waiters'[h] = waiters[h] /\ waiters[h] = <<>>
           \/ /\ holders'[h] = holders[h]
              /\ waiters'[h] = Append(waiters[h], c)
    BY <1>0, <2>0, AcquireFacts
  <2>1. VarTypes'
    BY <1>0, <2>0, <2>s DEF VarTypes, CallPC, Procs
  <2>2. LockInv'
    BY <1>0, <2>0, <2>a DEF LockInv, Locked, VarTypes
  <2>3. SemInv'
    <3>1. \A g \in Starts, e \in Calls : e \notin holders[g]
      BY <2>a DEF SemInv, Locked
    <3>2. \A g \in Starts : \A i \in 1..Len(waiters[g]) : waiters[g][i] \notin Calls
      BY <2>a DEF SemInv, Locked
    <3>3. CASE holders'[h] = holders[h] \cup {c} /\ waiters'[h] = <<>> /\ Fits(c, holders[h])
      <4>1. holders'[h] = {c}
        BY <1>0, <3>3 DEF Fits
      <4>2. \A g \in Starts : \A i \in 1..Len(waiters'[g]) : waiters'[g][i] \notin Calls
        BY <2>s, <3>2, <3>3
      <4>3. pc'[c] = "acquire" /\ tunHandler' = h /\ \A e \in Calls : pc'[e] # "close"
        BY <2>0, <2>a DEF Locked, VarTypes
      <4>4. \A g \in Starts, e \in Calls : e \in holders'[g] => g = h /\ e = c
        BY <2>s, <3>1, <4>1
      <4> QED
        BY <4>1, <4>2, <4>3, <4>4 DEF SemInv
    <3>4. CASE holders'[h] = holders[h] /\ waiters'[h] = Append(waiters[h], c)
      <4>1. \A g \in Starts, e \in Calls : e \notin holders'[g]
        BY <2>s, <3>1, <3>4
      <4>2. /\ Len(waiters'[h]) = Len(waiters[h]) + 1
            /\ waiters'[h][Len(waiters[h]) + 1] = c
            /\ \A i \in 1..Len(waiters[h]) : waiters'[h][i] = waiters[h][i]
        BY <3>4, <2>0 DEF VarTypes
      <4>3. \A i \in 1..Len(waiters'[h]) :
                 waiters'[h][i] \in Calls => i = Len(waiters[h]) + 1 /\ waiters'[h][i] = c
        <5>1. Len(waiters[h]) \in Nat
          BY <2>0 DEF VarTypes
        <5>2. \A i \in 1..Len(waiters'[h]) :
                  i = Len(waiters[h]) + 1 \/ i \in 1..Len(waiters[h])
          BY <4>2, <5>1
        <5> QED
          BY <2>0, <3>2, <4>2, <5>2
      <4>4. \A g \in Starts : g # h =>
                 \A i \in 1..Len(waiters'[g]) : waiters'[g][i] \notin Calls
        BY <2>s, <3>2
      <4>5. pc'[c] = "acquire" /\ tunHandler' = h
        BY <2>0 DEF VarTypes
      <4>6. \A e \in Calls : pc'[e] # "close"
        BY <2>0, <2>a DEF Locked, VarTypes
      <4> QED
        BY <2>0, <4>1, <4>3, <4>4, <4>5, <4>6 DEF SemInv
    <3> QED
      BY <2>s, <3>3, <3>4
  <2>4. HandlerInv'
    BY <1>0, <2>0 DEF HandlerInv, VarTypes
  <2>5. DialInv'
    BY <2>0, <2>s DEF DialInv
  <2>6. StopInv'
    BY <1>0, <2>0, <2>a, ConstantsAssumption DEF StopInv, StoppedIsClosed, VarTypes, Locked
  <2> QED
    BY <2>1, <2>2, <2>3, <2>4, <2>5, <2>6
<1> QED
  BY <1>1, <1>2

\* close() removes the hooks.
LEMMA CloseHooksInv == ASSUME Inv, NEW c \in Calls, CloseHooks(c) PROVE Inv'
<1> USE DEF Inv, IInv, CloseHooks, handlerVars, semVars, dialVars
<1>0. c # Nil /\ Starts \subseteq Calls
  BY ConstantsAssumption DEF Calls
<1>1. VarTypes'
  BY DEF VarTypes, CallPC
<1>2. LockInv'
  BY DEF LockInv, Locked, VarTypes
<1>3. SemInv'
  <2>1. \A g \in Starts : \A i \in 1..Len(waiters[g]) : waiters[g][i] \in Calls =>
            waiters[g][i] # c
    BY DEF SemInv, LockInv
  <2> QED
    BY <2>1 DEF SemInv, VarTypes
<1>4. HandlerInv'
  BY <1>0 DEF HandlerInv, VarTypes
<1>5. DialInv'
  BY DEF DialInv
<1>6. StopInv'
  BY DEF StopInv, StoppedIsClosed, VarTypes, LockInv, Locked
<1> QED
  BY <1>1, <1>2, <1>3, <1>4, <1>5, <1>6

\* close() releases the callback and the permits; a dial may be admitted, and
\* no other call can be waiting.
LEMMA CloseHandlerInv == ASSUME Inv, NEW c \in Calls, CloseHandler(c) PROVE Inv'
<1> USE DEF Inv, IInv, handlerVars, semVars, dialVars
<1> DEFINE h == tunHandler
<1>0. c # Nil /\ Starts \subseteq Calls /\ c \in Procs /\ c \notin Dials
  BY ConstantsAssumption DEF Calls, Procs
<1>1. /\ pc[c] = "close" /\ lock = c /\ h \in Starts /\ holders[h] = {c}
      /\ \A e \in Calls : e # c => ~Locked(e)
  BY DEF CloseHandler, LockInv, SemInv, Locked
<1>2. /\ tun' = [tun EXCEPT ![h] = IF listener[h] THEN "closed" ELSE @]
      /\ released' = [released EXCEPT ![h] = IF callback[h] /\ @ < 2 THEN @ + 1 ELSE @]
      /\ callback' = [callback EXCEPT ![h] = FALSE]
      /\ listener' = [listener EXCEPT ![h] = FALSE]
      /\ Release(c, h)
      /\ lock' = Nil
      /\ pc' = [pc EXCEPT ![c] = AfterStop(c)]
      /\ UNCHANGED <<tunHandler, runTime, hook, dialVars>>
  BY DEF CloseHandler, ClearFields
<1>r. VarTypes /\ c \in Procs /\ h \in Starts /\ Release(c, h)
  BY <1>0, <1>1, <1>2
<1>3. /\ holders' \in [Starts -> SUBSET Procs]
      /\ waiters' \in [Starts -> Seq(Procs)]
      /\ \A g \in Starts : g # h => holders'[g] = holders[g] /\ waiters'[g] = waiters[g]
  BY <1>r, ReleaseFacts
<1>4. PICK n \in 0..Len(waiters[h]) :
         /\ holders'[h] = (holders[h] \ {c}) \cup {waiters[h][i] : i \in 1..n}
         /\ Len(waiters'[h]) = Len(waiters[h]) - n
         /\ \A i \in 1..Len(waiters'[h]) : waiters'[h][i] = waiters[h][i + n]
         /\ \A i \in 1..n :
               Fits(waiters[h][i],
                    (holders[h] \ {c}) \cup {waiters[h][k] : k \in 1..(i - 1)})
         /\ n < Len(waiters[h]) =>
               ~Fits(waiters[h][n + 1],
                     (holders[h] \ {c}) \cup {waiters[h][k] : k \in 1..n})
  BY <1>r, ReleaseFacts
<1>5. \A g \in Starts, i \in Nat : i \in 1..Len(waiters[g]) => waiters[g][i] \notin Calls
  <2> SUFFICES ASSUME NEW g \in Starts, NEW i \in 1..Len(waiters[g]), waiters[g][i] \in Calls
               PROVE  FALSE
    OBVIOUS
  <2>1. pc[waiters[g][i]] = "acquire" /\ tunHandler = g /\ waiters[g][i] \notin holders[g]
    BY DEF SemInv
  <2> QED
    BY <1>1, <2>1 DEF Locked
<1>6. Len(waiters[h]) \in Nat
  BY <1>1 DEF VarTypes
<1>a. VarTypes'
  <2>1. released' \in [Starts -> 0..2] /\ tun' \in [Starts -> {"none", "open", "closed"}]
    BY <1>1, <1>2 DEF VarTypes
  <2>2. pc' \in [Calls -> CallPC]
    BY <1>2 DEF VarTypes, CallPC, AfterStop
  <2> QED
    BY <1>2, <1>3, <2>1, <2>2 DEF VarTypes, Procs
<1>b. LockInv'
  <2>1. pc'[c] = AfterStop(c) /\ \A e \in Calls : e # c => pc'[e] = pc[e]
    BY <1>2 DEF VarTypes
  <2>2. \A e \in Calls : ~Locked(e)'
    BY <1>1, <2>1 DEF Locked, AfterStop
  <2>3. \A e \in Calls : lock' # e
    BY <1>2, ConstantsAssumption
  <2>4. \A e \in Calls : pc'[e] = "start" => e \in Starts
    BY <2>1 DEF LockInv, AfterStop
  <2> QED
    BY <2>2, <2>3, <2>4 DEF LockInv, Locked
<1>c. SemInv'
  <2>1. \A g \in Starts, e \in Calls : e \notin holders'[g]
    <3>1. \A e \in Calls : e \notin holders'[h]
      BY <1>1, <1>4, <1>5, <1>6
    <3>2. \A g \in Starts, e \in Calls : g # h => e \notin holders[g]
      BY DEF SemInv
    <3> QED
      BY <1>3, <3>1, <3>2
  <2>2. \A g \in Starts, i \in Nat : i \in 1..Len(waiters'[g]) => waiters'[g][i] \notin Calls
    <3> SUFFICES ASSUME NEW g \in Starts, NEW i \in 1..Len(waiters'[g])
                 PROVE  waiters'[g][i] \notin Calls
      OBVIOUS
    <3>1. CASE g # h
      BY <1>3, <1>5, <3>1
    <3>2. CASE g = h
      <4>1. i \in 1..Len(waiters'[h])
        BY <3>2
      <4>2. i + n \in 1..Len(waiters[h]) /\ i + n \in Nat
        <5> HIDE DEF h
        <5> QED
          BY <1>4, <1>6, <4>1
      <4>3. waiters'[h][i] = waiters[h][i + n]
        BY <1>4, <4>1
      <4> QED
        BY <1>1, <1>5, <3>2, <4>2, <4>3
    <3> QED
      BY <3>1, <3>2
  <2>3. \A e \in Calls : pc'[e] # "close"
    BY <1>1, <1>2 DEF AfterStop, VarTypes, Locked
  <2> QED
    BY <2>1, <2>2, <2>3 DEF SemInv
<1>d. HandlerInv'
  <2> SUFFICES ASSUME NEW s \in Starts
               PROVE  /\ released'[s] <= 1
                      /\ callback'[s] => released'[s] = 0
                      /\ listener'[s] => callback'[s]
                      /\ listener'[s] <=> tun'[s] = "open"
                      /\ pc'[s] \notin {"open", "done"} =>
                            /\ tunHandler' # s /\ ~callback'[s]
                            /\ released'[s] = 0 /\ tun'[s] = "none"
                      /\ pc'[s] = "open" => callback'[s] /\ tun'[s] = "none"
                      /\ tunHandler' = s => callback'[s] \/ released'[s] = 1
    BY DEF HandlerInv
  <2>1. pc'[s] = IF s = c THEN "start" ELSE pc[s]
    BY <1>0, <1>2 DEF VarTypes, AfterStop
  <2>2. CASE s = h
    <3>1. pc[h] \in {"open", "done"} /\ c # h /\ pc[h] # "open"
      BY <1>0, <1>1 DEF HandlerInv, Locked
    <3>2. ~callback'[h] /\ ~listener'[h] /\ released'[h] = 1 /\ tun'[h] # "open"
      BY <1>1, <1>2 DEF HandlerInv, VarTypes
    <3> QED
      BY <1>2, <2>1, <2>2, <3>1, <3>2
  <2>3. CASE s # h
    <3>1. /\ callback'[s] = callback[s] /\ listener'[s] = listener[s]
          /\ released'[s] = released[s] /\ tun'[s] = tun[s]
      BY <1>1, <1>2, <2>3 DEF VarTypes
    <3> QED
      BY <1>1, <1>2, <2>1, <2>3, <3>1 DEF HandlerInv
  <2> QED
    BY <2>2, <2>3
<1>e. DialInv'
  <2>1. \A d \in Dials : dpc[d] = "using" => dh[d] # h
    BY <1>0, <1>1 DEF DialInv
  <2> QED
    BY <1>1, <1>2, <1>3, <2>1 DEF DialInv, VarTypes
<1>f. StopInv'
  <2>1. ~hook /\ ~runTime
    BY <1>1 DEF StopInv
  <2>2. ~listener'[h] /\ released'[h] = 1
    BY <1>1, <1>2 DEF HandlerInv, VarTypes
  <2>3. \A e \in Calls : pc'[e] \notin {"acquire", "close", "open"}
    BY <1>1, <1>2 DEF AfterStop, VarTypes, Locked
  <2> QED
    BY <1>2, <2>1, <2>2, <2>3 DEF StopInv, StoppedIsClosed
<1> QED
  BY <1>a, <1>b, <1>c, <1>d, <1>e, <1>f

\* handleStartTun: without an fd, and with one before and after the tunnel opens.
LEMMA StartInv ==
    ASSUME Inv, NEW s \in Starts, StartNoFd(s) \/ StartHandler(s) \/ OpenTun(s)
    PROVE  Inv'
<1> USE DEF Inv, IInv, handlerVars, semVars, dialVars
<1>0. s \in Calls /\ s # Nil /\ Starts \subseteq Calls
  BY ConstantsAssumption DEF Calls
<1>1. CASE StartNoFd(s)
  <2> USE <1>1 DEF StartNoFd
  <2>0. \A e \in Calls : ~Locked(e)
    BY ConstantsAssumption DEF LockInv
  <2>1. VarTypes'
    BY <1>0 DEF VarTypes, CallPC
  <2>2. LockInv'
    BY <1>0 DEF LockInv, Locked, VarTypes
  <2>3. SemInv'
    BY <1>0 DEF SemInv, VarTypes
  <2>4. HandlerInv'
    BY <1>0 DEF HandlerInv, VarTypes
  <2>5. DialInv'
    BY DEF DialInv
  <2>6. StopInv'
    BY <1>0, <2>0 DEF StopInv, StoppedIsClosed, VarTypes, Locked
  <2> QED
    BY <2>1, <2>2, <2>3, <2>4, <2>5, <2>6
<1>2. CASE StartHandler(s)
  <2> USE <1>2 DEF StartHandler
  <2>0. \A e \in Calls : ~Locked(e)
    BY ConstantsAssumption DEF LockInv
  <2>1. VarTypes'
    BY <1>0 DEF VarTypes, CallPC
  <2>2. LockInv'
    BY <1>0, <2>0 DEF LockInv, Locked, VarTypes
  <2>3. SemInv'
    <3>1. \A g \in Starts, e \in Calls : e \notin holders[g]
      BY <2>0 DEF SemInv, Locked
    <3>2. \A g \in Starts : \A i \in 1..Len(waiters[g]) : waiters[g][i] \notin Calls
      BY <2>0 DEF SemInv, Locked
    <3>3. \A e \in Calls : pc'[e] # "close"
      BY <1>0, <2>0 DEF Locked, VarTypes
    <3> QED
      BY <3>1, <3>2, <3>3 DEF SemInv
  <2>4. HandlerInv'
    BY <1>0 DEF HandlerInv, VarTypes
  <2>5. DialInv'
    BY <1>0 DEF DialInv
  <2>6. StopInv'
    BY <1>0, <2>0 DEF StopInv, StoppedIsClosed, VarTypes, Locked
  <2> QED
    BY <2>1, <2>2, <2>3, <2>4, <2>5, <2>6
<1>3. CASE OpenTun(s)
  <2> USE <1>3 DEF OpenTun
  <2>0. lock = s /\ tunHandler = s /\ \A e \in Calls : e # s => ~Locked(e)
    BY <1>0 DEF LockInv, Locked
  <2>1. VarTypes'
    BY <1>0 DEF VarTypes, CallPC
  <2>2. LockInv'
    <3>1. \A e \in Calls : ~Locked(e)' /\ lock' # e
      BY <1>0, <2>0, ConstantsAssumption DEF Locked, VarTypes
    <3>2. \A e \in Calls : pc'[e] = "start" => e \in Starts
      BY <1>0 DEF LockInv, VarTypes
    <3> QED
      BY <3>1, <3>2 DEF LockInv, Locked
  <2>3. SemInv'
    BY <1>0 DEF SemInv, VarTypes
  <2>4. HandlerInv'
    BY <1>0, <2>0 DEF HandlerInv, VarTypes
  <2>5. DialInv'
    BY <1>0, <2>0 DEF DialInv, VarTypes
  <2>6. StopInv'
    <3>1. runTime
      BY <1>0, <2>0 DEF StopInv
    <3> QED
      BY <1>0, <2>0, <3>1 DEF StopInv, StoppedIsClosed, VarTypes, Locked
  <2> QED
    BY <2>1, <2>2, <2>3, <2>4, <2>5, <2>6
<1> QED
  BY <1>1, <1>2, <1>3

\* A dial changes nothing but where it is, the handler it has read, and the
\* permits of that handler.
LEMMA DialInvStep ==
    ASSUME Inv, NEW d \in Dials,
           DialContext(d) \/ FindPackageName(d) \/ SocketControl(d)
              \/ HookReturns(d) \/ UseCallback(d)
    PROVE  Inv'
<1> USE DEF Inv, IInv, handlerVars, semVars, dialVars
<1>1. /\ UNCHANGED <<pc, lock, tunHandler, runTime, hook, handlerVars, semVars, dh>>
      /\ \E x \in DialPC :
            /\ dpc' = [dpc EXCEPT ![d] = x]
            /\ x = "inhook" => hook
            /\ x # "acquire"
            /\ x = "using" => dpc[d] = "acquire" /\ d \in holders[dh[d]] /\ listener[dh[d]]
  BY DEF DialContext, FindPackageName, SocketControl, HookReturns, UseCallback, DialPC
<1>2. VarTypes'
  BY <1>1 DEF VarTypes
<1>3. LockInv' /\ HandlerInv' /\ StopInv'
  BY <1>1 DEF LockInv, Locked, HandlerInv, StopInv, StoppedIsClosed
<1>4. SemInv'
  BY <1>1 DEF SemInv
<1>5. DialInv'
  BY <1>1 DEF DialInv, VarTypes
<1> QED
  BY <1>2, <1>3, <1>4, <1>5

\* The hook asks the handler it has read for a permit.
LEMMA HandleHookInv == ASSUME Inv, NEW d \in Dials, HandleHook(d) PROVE Inv'
<1> USE DEF Inv, IInv, handlerVars, semVars, dialVars
<1> DEFINE h == tunHandler
<1>0. d \in Procs /\ d \notin Calls
  BY ConstantsAssumption DEF Procs
<1>1. /\ h \in Starts
      /\ dpc[d] = "inhook"
      /\ dpc' = [dpc EXCEPT ![d] = "acquire"]
      /\ dh' = [dh EXCEPT ![d] = h]
      /\ Acquire(d, h)
      /\ UNCHANGED <<pc, lock, tunHandler, runTime, hook, handlerVars>>
  BY DEF HandleHook, DialInv, VarTypes
<1>2. /\ holders' \in [Starts -> SUBSET Procs]
      /\ waiters' \in [Starts -> Seq(Procs)]
      /\ \A g \in Starts : g # h => holders'[g] = holders[g] /\ waiters'[g] = waiters[g]
      /\ \/ /\ holders'[h] = holders[h] \cup {d}
            /\ Fits(d, holders[h])
            /\ waiters'[h] = waiters[h] /\ waiters[h] = <<>>
         \/ /\ holders'[h] = holders[h]
            /\ waiters'[h] = Append(waiters[h], d)
  BY <1>0, <1>1, AcquireFacts
<1>3. VarTypes'
  BY <1>1, <1>2 DEF VarTypes, DialPC, Procs
<1>4. LockInv' /\ HandlerInv' /\ StopInv'
  BY <1>1 DEF LockInv, Locked, HandlerInv, StopInv, StoppedIsClosed
<1>5. SemInv'
  <2>1. \A g \in Starts, e \in Calls : e \in holders'[g] =>
           e \in holders[g] /\ holders'[g] = holders[g]
    <3>1. CASE holders'[h] = holders[h] \cup {d} /\ Fits(d, holders[h])
      <4>1. \A e \in Calls : e \notin holders'[h]
        BY <1>0, <3>1, ConstantsAssumption DEF Fits
      <4> QED
        BY <1>2, <4>1
    <3>2. CASE holders'[h] = holders[h]
      BY <1>2, <3>2
    <3> QED
      BY <1>2, <3>1, <3>2
  <2>2. \A g \in Starts, e \in Calls : e \in holders[g] => e \in holders'[g]
    BY <1>2
  <2>3. \A g \in Starts : \A i \in 1..Len(waiters'[g]) : waiters'[g][i] \in Calls =>
           /\ i \in 1..Len(waiters[g]) /\ waiters'[g][i] = waiters[g][i]
           /\ \A j \in 1..Len(waiters'[g]) :
                 waiters'[g][j] = d \/ (j \in 1..Len(waiters[g]) /\ waiters'[g][j] = waiters[g][j])
    <3>1. CASE waiters'[h] = waiters[h]
      BY <1>2, <3>1
    <3>2. CASE waiters'[h] = Append(waiters[h], d)
      <4>1. waiters[h] \in Seq(Procs) /\ Len(waiters[h]) \in Nat
        BY <1>1 DEF VarTypes, Procs
      <4>2. /\ Len(waiters'[h]) = Len(waiters[h]) + 1
            /\ waiters'[h][Len(waiters[h]) + 1] = d
            /\ \A i \in 1..Len(waiters[h]) : waiters'[h][i] = waiters[h][i]
        BY <1>0, <3>2, <4>1, AppendProperties
      <4>3. \A i \in 1..Len(waiters'[h]) :
                i = Len(waiters[h]) + 1 \/ i \in 1..Len(waiters[h])
        BY <4>1, <4>2
      <4> QED
        BY <1>0, <1>2, <4>2, <4>3
    <3> QED
      BY <1>2, <3>1, <3>2
  <2>4. \A c \in Calls : pc'[c] = "close" => c \in holders'[tunHandler']
    BY <1>1, <2>2 DEF SemInv, LockInv
  <2>5. \A g \in Starts, e \in Calls : e \in holders'[g] =>
           holders'[g] = {e} /\ pc'[e] \in {"acquire", "close"} /\ tunHandler' = g
    BY <1>1, <2>1 DEF SemInv
  <2>6. \A g \in Starts : \A i \in 1..Len(waiters'[g]) : waiters'[g][i] \in Calls =>
           /\ pc'[waiters'[g][i]] = "acquire" /\ tunHandler' = g
           /\ waiters'[g][i] \notin holders'[g]
           /\ \A j \in 1..Len(waiters'[g]) : j # i => waiters'[g][j] # waiters'[g][i]
    <3> SUFFICES ASSUME NEW g \in Starts, NEW i \in 1..Len(waiters'[g]),
                        waiters'[g][i] \in Calls
                 PROVE  /\ pc'[waiters'[g][i]] = "acquire" /\ tunHandler' = g
                        /\ waiters'[g][i] \notin holders'[g]
                        /\ \A j \in 1..Len(waiters'[g]) :
                              j # i => waiters'[g][j] # waiters'[g][i]
      OBVIOUS
    <3>1. i \in 1..Len(waiters[g]) /\ waiters'[g][i] = waiters[g][i]
      BY <2>3
    <3>2. /\ pc[waiters[g][i]] = "acquire" /\ tunHandler = g
          /\ waiters[g][i] \notin holders[g]
          /\ \A j \in 1..Len(waiters[g]) : j # i => waiters[g][j] # waiters[g][i]
      BY <3>1 DEF SemInv
    <3>3. waiters[g][i] \notin holders'[g]
      BY <2>1, <3>1, <3>2
    <3>4. \A j \in 1..Len(waiters'[g]) : j # i => waiters'[g][j] # waiters[g][i]
      BY <1>0, <2>3, <3>1, <3>2
    <3> QED
      BY <1>1, <3>1, <3>2, <3>3, <3>4
  <2> QED
    BY <2>4, <2>5, <2>6 DEF SemInv
<1>6. DialInv'
  <2>1. \A g \in Starts, e \in Dials : e \in holders[g] => e \in holders'[g]
    BY <1>2
  <2> QED
    BY <1>1, <2>1 DEF DialInv, VarTypes
<1> QED
  BY <1>3, <1>4, <1>5, <1>6

\* A dial gives its permit back, whether or not it made the native call.
LEMMA DialReleaseInv ==
    ASSUME Inv, NEW d \in Dials, SkipCallback(d) \/ CallbackReturns(d)
    PROVE  Inv'
<1> USE DEF Inv, IInv, handlerVars, semVars, dialVars
<1> DEFINE h == dh[d]
           W == waiters[h]
           H == holders[h] \ {d}
<1>0. d \in Procs /\ d \notin Calls
  BY ConstantsAssumption DEF Procs
<1>1. /\ h \in Starts /\ d \in holders[h]
      /\ dpc' = [dpc EXCEPT ![d] = "idle"]
      /\ dh' = [dh EXCEPT ![d] = Nil]
      /\ Release(d, h)
      /\ UNCHANGED <<pc, lock, tunHandler, runTime, hook, handlerVars>>
  BY DEF SkipCallback, CallbackReturns, DialInv
<1>2. /\ holders' \in [Starts -> SUBSET Procs]
      /\ waiters' \in [Starts -> Seq(Procs)]
      /\ \A g \in Starts : g # h => holders'[g] = holders[g] /\ waiters'[g] = waiters[g]
  BY <1>0, <1>1, ReleaseFacts
<1>3. PICK n \in 0..Len(W) :
         /\ holders'[h] = H \cup {W[i] : i \in 1..n}
         /\ Len(waiters'[h]) = Len(W) - n
         /\ \A i \in 1..Len(waiters'[h]) : waiters'[h][i] = W[i + n]
         /\ \A i \in 1..n : Fits(W[i], H \cup {W[k] : k \in 1..(i - 1)})
  BY <1>0, <1>1, ReleaseFacts
<1>4. \A e \in Calls : e \notin holders[h]
  BY <1>0, <1>1 DEF SemInv
<1>5. VarTypes'
  BY <1>1, <1>2 DEF VarTypes, DialPC, Procs
<1>6. LockInv' /\ HandlerInv' /\ StopInv'
  BY <1>1 DEF LockInv, Locked, HandlerInv, StopInv, StoppedIsClosed
<1>7. Len(W) \in Nat /\ n \in Nat /\ n <= Len(W)
  BY <1>1 DEF VarTypes
<1>8. SemInv'
  <2>1. ASSUME NEW e \in Calls, e \in holders'[h]
        PROVE  /\ holders'[h] = {e} /\ pc[e] = "acquire" /\ tunHandler = h
    <3>1. PICK i \in 1..n : W[i] = e
      BY <1>3, <1>4, <2>1
    <3>2. i \in 1..Len(W) /\ pc[e] = "acquire" /\ tunHandler = h
      BY <1>1, <1>7, <3>1 DEF SemInv
    <3>3. H \cup {W[k] : k \in 1..(i - 1)} = {}
      BY <1>3, <3>1, ConstantsAssumption DEF Fits
    <3>4. i = 1
      <4> SUFFICES ASSUME i # 1 PROVE FALSE
        OBVIOUS
      <4>1. 1 \in 1..(i - 1)
        BY <1>7, <3>1
      <4>2. W[1] \in H \cup {W[k] : k \in 1..(i - 1)}
        BY <4>1
      <4> QED
        BY <3>3, <4>2
    <3>5. n = 1
      <4> SUFFICES ASSUME n # 1 PROVE FALSE
        OBVIOUS
      <4>1. 2 \in 1..n /\ 1 \in 1..(2 - 1)
        BY <1>7, <3>1
      <4>2. Fits(W[2], H \cup {W[k] : k \in 1..(2 - 1)})
        BY <1>3, <4>1
      <4>3. e \in H \cup {W[k] : k \in 1..(2 - 1)}
        BY <3>1, <3>4, <4>1
      <4> QED
        BY <4>2, <4>3, ConstantsAssumption DEF Fits
    <3>6. holders'[h] = {e}
      BY <1>3, <1>7, <3>1, <3>3, <3>4, <3>5
    <3> QED
      BY <3>2, <3>6
  <2>2. ASSUME NEW i \in 1..Len(waiters'[h]), waiters'[h][i] \in Calls
        PROVE  /\ pc[waiters'[h][i]] = "acquire" /\ tunHandler = h
               /\ waiters'[h][i] \notin holders'[h]
               /\ \A j \in 1..Len(waiters'[h]) : j # i => waiters'[h][j] # waiters'[h][i]
    <3>1. i + n \in 1..Len(W) /\ waiters'[h][i] = W[i + n]
      BY <1>3, <1>7
    <3>2. /\ pc[W[i + n]] = "acquire" /\ tunHandler = h
          /\ W[i + n] \notin holders[h]
          /\ \A j \in 1..Len(W) : j # i + n => W[j] # W[i + n]
      BY <1>1, <2>2, <3>1 DEF SemInv
    <3>3. \A j \in 1..n : j \in 1..Len(W) /\ j # i + n
      BY <1>7
    <3>4. W[i + n] \notin holders'[h]
      BY <1>3, <3>2, <3>3
    <3>5. \A j \in 1..Len(waiters'[h]) :
             j # i => j + n \in 1..Len(W) /\ j + n # i + n /\ waiters'[h][j] = W[j + n]
      BY <1>3, <1>7
    <3> QED
      BY <3>1, <3>2, <3>4, <3>5
  <2>3. \A c \in Calls : pc[c] = "close" => tunHandler # h /\ tunHandler \in Starts
    BY <1>4 DEF SemInv, LockInv
  <2>4. \A g \in Starts, e \in Calls : e \in holders'[g] =>
           holders'[g] = {e} /\ pc'[e] \in {"acquire", "close"} /\ tunHandler' = g
    BY <1>1, <1>2, <2>1 DEF SemInv
  <2>5. \A g \in Starts : \A i \in 1..Len(waiters'[g]) : waiters'[g][i] \in Calls =>
           /\ pc'[waiters'[g][i]] = "acquire" /\ tunHandler' = g
           /\ waiters'[g][i] \notin holders'[g]
           /\ \A j \in 1..Len(waiters'[g]) : j # i => waiters'[g][j] # waiters'[g][i]
    <3> SUFFICES ASSUME NEW g \in Starts, NEW i \in 1..Len(waiters'[g]),
                        waiters'[g][i] \in Calls
                 PROVE  /\ pc'[waiters'[g][i]] = "acquire" /\ tunHandler' = g
                        /\ waiters'[g][i] \notin holders'[g]
                        /\ \A j \in 1..Len(waiters'[g]) :
                              j # i => waiters'[g][j] # waiters'[g][i]
      OBVIOUS
    <3>1. CASE g = h
      BY <1>1, <2>2, <3>1
    <3>2. CASE g # h
      <4>1. waiters'[g] = waiters[g] /\ holders'[g] = holders[g]
        BY <1>2, <3>2
      <4> QED
        BY <1>1, <4>1 DEF SemInv
    <3> QED
      BY <3>1, <3>2
  <2>6. \A c \in Calls : pc'[c] = "close" => c \in holders'[tunHandler']
    BY <1>1, <1>2, <2>3 DEF SemInv
  <2> QED
    BY <2>4, <2>5, <2>6 DEF SemInv
<1>9. DialInv'
  <2>1. \A g \in Starts, e \in Dials : e # d /\ e \in holders[g] => e \in holders'[g]
    BY <1>2, <1>3
  <2> QED
    BY <1>1, <2>1 DEF DialInv, VarTypes
<1> QED
  BY <1>5, <1>6, <1>8, <1>9

-----------------------------------------------------------------------------
(* The theorems.                                                             *)

\* A step that changes no variable of the core keeps the invariant.
LEMMA StutterInv == Inv /\ UNCHANGED vars => Inv'
BY DEF Inv, IInv, vars, VarTypes, LockInv, Locked, SemInv, HandlerInv, DialInv,
       StopInv, StoppedIsClosed

\* Every step of a call or of a dialling goroutine keeps the invariant.
LEMMA NextInv == Inv /\ [Next]_vars => Inv'
<1> SUFFICES ASSUME Inv, [Next]_vars PROVE Inv'
  OBVIOUS
<1>1. ASSUME NEW c \in Calls, Call(c) PROVE Inv'
  BY <1>1, CallInv
<1>2. ASSUME NEW c \in Calls, CallStep(c) PROVE Inv'
  BY <1>2, HandleStopTunInv, CloseHooksInv, CloseHandlerInv, StartInv DEF CallStep
<1>3. ASSUME NEW d \in Dials, DialContext(d) \/ FindPackageName(d) \/ DialStep(d)
      PROVE  Inv'
  BY <1>3, DialInvStep, HandleHookInv, DialReleaseInv DEF DialStep
<1> QED
  BY <1>1, <1>2, <1>3, StutterInv DEF Next

\* The inductive invariant holds in every reachable state of the core: the
\* discipline of tunLock and of the permits, for any calls and any dials.
THEOREM Invariance == Spec => []Inv
BY InitInv, NextInv, PTL DEF Spec

\* Type correctness for any calls and any dialling goroutines.
THEOREM TypeCorrect == Spec => []TypeOK
<1>1. Init => serial \in BOOLEAN
  BY DEF Init
<1>2. serial \in BOOLEAN /\ [Next]_vars => (serial \in BOOLEAN)'
  BY DEF Next, vars
<1>3. Inv /\ serial \in BOOLEAN => TypeOK
  BY DEF Inv, IInv, VarTypes, DialInv, TypeOK
<1> QED
  BY Invariance, <1>1, <1>2, <1>3, PTL DEF Spec

\* No native call runs with a released callback, however the goroutines of
\* starts, stops and dials interleave: the permits of close() and of the hooks
\* exclude each other.
THEOREM CallbackSafe == Spec => []CallbackLive
<1>1. Inv => CallbackLive
  BY DEF Inv, IInv, CallbackLive, DialInv, HandlerInv
<1> QED
  BY Invariance, <1>1, PTL

\* No callback is released twice, however stops and starts overlap.
THEOREM ReleasedAtMostOnce == Spec => []ReleasedOnce
<1>1. Inv => ReleasedOnce
  BY DEF Inv, IInv, ReleasedOnce, HandlerInv
<1> QED
  BY Invariance, <1>1, PTL

\* A core that reports that it is stopped has closed its current handler and
\* removed the hooks, although goroutines of other calls are still to run.
THEOREM StopClosesCurrent == Spec => []StoppedIsClosed
<1>1. Inv => StoppedIsClosed
  BY DEF Inv, IInv, StopInv
<1> QED
  BY Invariance, <1>1, PTL

-----------------------------------------------------------------------------
(* One call at a time.                                                       *)

\* With one call at a time the current handler alone may own a callback or a
\* tunnel, it owns none when the next one is installed, and while it has a
\* listener outside the critical sections the hooks are installed.
SerialInv ==
    /\ \A c \in Calls : pc[c] = "open" => hook
    /\ (lock = Nil /\ tunHandler # Nil /\ listener[tunHandler]) => hook
    /\ serial =>
        /\ \A c, e \in Calls : Running(c) /\ Running(e) => c = e
        /\ \A s \in Starts : callback[s] \/ tun[s] = "open" => tunHandler = s
        /\ \A c \in Calls : pc[c] = "start" =>
              tunHandler = Nil \/ ~callback[tunHandler]

\* A step of a call keeps SerialInv.
LEMMA SerialCallStep ==
    ASSUME Inv, SerialInv, serial' = serial, NEW c \in Calls, Call(c) \/ CallStep(c)
    PROVE  SerialInv'
<1> USE DEF Inv, IInv, VarTypes, SerialInv, Running, handlerVars, semVars, dialVars
<1>0. c # Nil /\ Nil \notin Starts /\ Starts \subseteq Calls
  BY ConstantsAssumption DEF Calls
<1>1. CASE Call(c)
  BY <1>1 DEF Call
<1>2. CASE HandleStopTun(c)
  <2>1. \E label \in {"start", "done", "acquire"} :
           /\ pc' = [pc EXCEPT ![c] = label]
           /\ label = "start" => tunHandler = Nil
    BY <1>2 DEF HandleStopTun, AfterStop
  <2>2. pc[c] = "stop" /\ lock = Nil /\ UNCHANGED <<tunHandler, hook, handlerVars>>
    BY <1>2 DEF HandleStopTun
  <2> QED
    BY <2>1, <2>2
<1>3. CASE CloseHooks(c)
  BY <1>0, <1>3 DEF CloseHooks, LockInv, Locked
<1>4. CASE CloseHandler(c)
  <2>1. tunHandler \in Starts /\ pc[c] = "close" /\ tunHandler' = tunHandler
        /\ pc' = [pc EXCEPT ![c] = AfterStop(c)] /\ hook' = hook
    BY <1>4 DEF CloseHandler, LockInv
  <2>2. /\ callback' = [callback EXCEPT ![tunHandler] = FALSE]
        /\ listener' = [listener EXCEPT ![tunHandler] = FALSE]
        /\ tun' = [tun EXCEPT ![tunHandler] = IF listener[tunHandler] THEN "closed" ELSE @]
    BY <1>4 DEF CloseHandler, ClearFields
  <2>3. listener[tunHandler] <=> tun[tunHandler] = "open"
    BY <2>1 DEF HandlerInv
  <2>4. AfterStop(c) \in {"start", "done"}
    BY DEF AfterStop
  <2> QED
    BY <1>0, <2>1, <2>2, <2>3, <2>4
<1>5. CASE c \in Starts /\ StartNoFd(c)
  BY <1>5 DEF StartNoFd
<1>6. CASE c \in Starts /\ StartHandler(c)
  <2>1. \A s \in Starts : s # c /\ serial => ~callback[s] /\ tun[s] # "open"
    BY <1>0, <1>6 DEF StartHandler, HandlerInv
  <2>2. \A e \in Calls : serial /\ pc[e] = "start" => e = c
    BY <1>0, <1>6 DEF StartHandler
  <2> QED
    BY <1>0, <1>6, <2>1, <2>2 DEF StartHandler
<1>7. CASE c \in Starts /\ OpenTun(c)
  <2>1. /\ pc[c] = "open" /\ tunHandler = c /\ hook /\ ~listener[c]
        /\ \A e \in Calls : pc[e] = "open" => e = c
    BY <1>0, <1>7 DEF OpenTun, LockInv, Locked, HandlerInv
  <2>2. /\ pc' = [pc EXCEPT ![c] = "done"]
        /\ tunHandler' = tunHandler /\ callback' = callback
        /\ \/ hook' = hook /\ tun' = [tun EXCEPT ![c] = "open"]
           \/ UNCHANGED <<tun, listener>>
    BY <1>7 DEF OpenTun
  <2>3. \A e \in Calls : pc'[e] # "open"
    BY <1>0, <2>1, <2>2
  <2>4. tunHandler' # Nil /\ listener'[tunHandler'] => hook'
    BY <2>1, <2>2
  <2>5. serial' =>
          /\ \A e, g \in Calls : Running(e)' /\ Running(g)' => e = g
          /\ \A e \in Calls : pc'[e] = "start" => pc[e] = "start"
    BY <1>0, <2>2
  <2>6. serial' => \A s \in Starts : callback'[s] \/ tun'[s] = "open" => tunHandler' = s
    BY <2>1, <2>2
  <2> QED
    BY <1>0, <2>2, <2>3, <2>4, <2>5, <2>6
<1> QED
  BY <1>1, <1>2, <1>3, <1>4, <1>5, <1>6, <1>7 DEF CallStep

\* SerialInv holds in every reachable state.
LEMMA SerialInvariance == Spec => []SerialInv
<1>1. Init => SerialInv
  BY DEF Init, SerialInv, Running
<1>2. Inv /\ SerialInv /\ [Next]_vars => SerialInv'
  <2> SUFFICES ASSUME Inv, SerialInv, [Next]_vars PROVE SerialInv'
    OBVIOUS
  <2>1. ASSUME NEW d \in Dials, serial' = serial,
               DialContext(d) \/ FindPackageName(d) \/ DialStep(d)
        PROVE  SerialInv'
    <3>1. UNCHANGED <<pc, lock, tunHandler, hook, handlerVars>>
      BY <2>1 DEF DialContext, FindPackageName, DialStep, SocketControl, HookReturns,
                  HandleHook, SkipCallback, UseCallback, CallbackReturns
    <3> QED
      BY <2>1, <3>1 DEF SerialInv, Running, handlerVars
  <2>2. CASE UNCHANGED vars
    BY <2>2 DEF vars, handlerVars, SerialInv, Running
  <2> QED
    BY <2>1, <2>2, SerialCallStep DEF Next
<1> QED
  BY <1>1, <1>2, Invariance, PTL DEF Spec

\* With one call at a time a stopped core has closed every tunnel it opened
\* and released every callback a handler was given.
THEOREM StopLeavesNothing == Spec => []StoppedLeavesNothing
<1>1. Inv /\ SerialInv => StoppedLeavesNothing
  <2> SUFFICES ASSUME Inv, SerialInv, serial, lock = Nil, ~runTime, NEW s \in Starts
               PROVE  tun[s] # "open" /\ ~callback[s]
    BY DEF StoppedLeavesNothing
  <2>1. s # Nil
    BY ConstantsAssumption DEF Calls
  <2>2. callback[s] \/ tun[s] = "open" => tunHandler = s
    BY DEF SerialInv
  <2>3. tunHandler = s => ~listener[s] /\ released[s] = 1
    BY <2>1 DEF Inv, IInv, StopInv, StoppedIsClosed
  <2>4. (callback[s] => released[s] = 0) /\ (listener[s] <=> tun[s] = "open")
    BY DEF Inv, IInv, HandlerInv
  <2> QED
    BY <2>2, <2>3, <2>4
<1> QED
  BY Invariance, SerialInvariance, <1>1, PTL

\* With one call at a time an open tunnel has the hooks installed.
THEOREM TunnelIsHooked == Spec => []OpenTunIsHooked
<1>1. Inv /\ SerialInv => OpenTunIsHooked
  <2> SUFFICES ASSUME Inv, SerialInv, serial, NEW s \in Starts, tun[s] = "open", lock = Nil
               PROVE  hook
    BY DEF OpenTunIsHooked
  <2>1. s # Nil
    BY ConstantsAssumption DEF Calls
  <2>2. tunHandler = s /\ listener[s]
    BY DEF Inv, IInv, HandlerInv, SerialInv
  <2> QED
    BY <2>1, <2>2 DEF SerialInv
<1> QED
  BY Invariance, SerialInvariance, <1>1, PTL

-----------------------------------------------------------------------------
(* The implementation of the contract.                                       *)

\* A step that changes neither a handler nor who is inside a native call is a
\* stuttering step of the contract.
LEMMA ContractStutter ==
    ASSUME UNCHANGED handlerVars, UsersOf' = UsersOf
    PROVE  UNCHANGED Contract!vars
BY DEF handlerVars, Contract!vars, StageOf

\* The goroutine of a stop, or the stopping half of a start, gives a callback
\* back together with its tunnel as the contract allows, or stutters.
LEMMA CloseRefines ==
    ASSUME Inv, NEW c \in Calls, CloseHandler(c)
    PROVE  [Contract!Next]_Contract!vars
<1> USE DEF Inv, IInv
<1> DEFINE h == tunHandler
<1>1. /\ h \in Starts /\ holders[h] = {c} /\ c \notin Dials
  BY ConstantsAssumption DEF CloseHandler, LockInv, SemInv
<1>2. /\ tun' = [tun EXCEPT ![h] = IF listener[h] THEN "closed" ELSE @]
      /\ released' = [released EXCEPT ![h] = IF callback[h] /\ @ < 2 THEN @ + 1 ELSE @]
      /\ callback' = [callback EXCEPT ![h] = FALSE]
      /\ UNCHANGED <<dpc, dh>>
  BY DEF CloseHandler, ClearFields, dialVars
<1>3. UsersOf' = UsersOf /\ UsersOf[h] = {}
  BY <1>1, <1>2 DEF UsersOf, DialInv
<1>4. /\ callback[h] => released[h] = 0
      /\ listener[h] => callback[h]
      /\ listener[h] <=> tun[h] = "open"
      /\ ~callback[h] => released[h] = 1
  BY <1>1 DEF HandlerInv
<1>5. tun' = [tun EXCEPT ![h] = IF @ = "open" THEN "closed" ELSE @]
  BY <1>1, <1>2, <1>4 DEF VarTypes
<1>6. CASE callback[h]
  <2>1. StageOf[h] = "held"
    BY <1>1, <1>4, <1>6 DEF StageOf
  <2>2. StageOf' = [StageOf EXCEPT ![h] = "released"]
    <3>1. ASSUME NEW t \in Starts
          PROVE  StageOf'[t] = IF t = h THEN "released" ELSE StageOf[t]
      <4>1. released'[h] = 1
        BY <1>1, <1>2, <1>4, <1>6 DEF VarTypes
      <4>2. t # h => released'[t] = released[t] /\ callback'[t] = callback[t]
        BY <1>1, <1>2 DEF VarTypes
      <4>3. StageOf'[h] = "released"
        BY <1>1, <4>1 DEF StageOf
      <4> QED
        BY <4>2, <4>3 DEF StageOf
    <3>2. StageOf = [t \in Starts |-> StageOf[t]] /\ StageOf' = [t \in Starts |-> StageOf'[t]]
      BY DEF StageOf
    <3> QED
      BY <1>1, <3>1, <3>2
  <2>3. Contract!Close(h)
    BY <1>3, <1>5, <2>1, <2>2 DEF Contract!Close
  <2> QED
    BY <1>1, <2>3 DEF Contract!Next
<1>7. CASE ~callback[h]
  <2>1. released' = released /\ callback' = callback /\ tun' = tun
    BY <1>1, <1>2, <1>4, <1>7 DEF VarTypes
  <2> QED
    BY <1>3, <2>1 DEF Contract!vars, StageOf
<1> QED
  BY <1>6, <1>7

\* A start that installs a handler takes its callback, and one that opens the
\* tunnel opens it, as the contract allows.
LEMMA StartRefines ==
    ASSUME Inv, NEW s \in Starts, StartNoFd(s) \/ StartHandler(s) \/ OpenTun(s)
    PROVE  [Contract!Next]_Contract!vars
<1> USE DEF Inv, IInv
<1>0. s \in Calls
  BY DEF Calls
<1>1. CASE StartNoFd(s)
  BY <1>1, ContractStutter DEF StartNoFd, dialVars, UsersOf
<1>2. CASE StartHandler(s)
  <2>1. callback' = [callback EXCEPT ![s] = TRUE] /\ UNCHANGED <<released, tun, dialVars>>
    BY <1>2 DEF StartHandler
  <2>2. ~callback[s] /\ released[s] = 0
    BY <1>0, <1>2 DEF StartHandler, HandlerInv
  <2>3. StageOf[s] = "unused" /\ StageOf' = [StageOf EXCEPT ![s] = "held"]
    <3>1. ASSUME NEW t \in Starts
          PROVE  StageOf'[t] = IF t = s THEN "held" ELSE StageOf[t]
      <4>1. callback'[s] /\ (t # s => callback'[t] = callback[t]) /\ released' = released
        BY <2>1 DEF VarTypes
      <4>2. StageOf'[s] = "held"
        BY <2>2, <4>1 DEF StageOf
      <4> QED
        BY <4>1, <4>2 DEF StageOf
    <3>2. StageOf = [t \in Starts |-> StageOf[t]] /\ StageOf' = [t \in Starts |-> StageOf'[t]]
      BY DEF StageOf
    <3>3. StageOf[s] = "unused"
      BY <2>2 DEF StageOf
    <3> QED
      BY <3>1, <3>2, <3>3
  <2>4. UsersOf' = UsersOf
    BY <2>1 DEF UsersOf, dialVars
  <2>5. Contract!Hold(s)
    BY <2>1, <2>3, <2>4 DEF Contract!Hold
  <2> QED
    BY <2>5 DEF Contract!Next
<1>3. CASE OpenTun(s)
  <2>1. UNCHANGED <<callback, released, dialVars>>
    BY <1>3 DEF OpenTun
  <2>2. StageOf' = StageOf /\ UsersOf' = UsersOf
    BY <2>1 DEF StageOf, UsersOf, dialVars
  <2>3. StageOf[s] = "held" /\ tun[s] = "none"
    BY <1>3 DEF OpenTun, HandlerInv, StageOf
  <2>4. tun' = tun \/ tun' = [tun EXCEPT ![s] = "open"]
    BY <1>3 DEF OpenTun
  <2>5. tun' = tun \/ Contract!Open(s)
    BY <2>2, <2>3, <2>4 DEF Contract!Open
  <2> QED
    BY <2>2, <2>5 DEF Contract!Next, Contract!vars
<1> QED
  BY <1>1, <1>2, <1>3

\* A dialling goroutine enters and leaves a callback as the contract allows,
\* or stutters.
LEMMA DialRefines ==
    ASSUME Inv, NEW d \in Dials,
           DialContext(d) \/ FindPackageName(d) \/ DialStep(d)
    PROVE  [Contract!Next]_Contract!vars
<1> USE DEF Inv, IInv
<1>1. CASE DialContext(d) \/ FindPackageName(d) \/ SocketControl(d)
              \/ HookReturns(d) \/ HandleHook(d) \/ SkipCallback(d)
  <2>1. /\ UNCHANGED handlerVars
        /\ dpc[d] # "using"
        /\ \E x \in DialPC : x # "using" /\ dpc' = [dpc EXCEPT ![d] = x]
        /\ \E x : dh' = [dh EXCEPT ![d] = x]
    BY <1>1 DEF DialContext, FindPackageName, SocketControl, HookReturns, HandleHook,
                SkipCallback, DialPC, VarTypes
  <2>2. \A e \in Dials, s \in Starts :
           (dpc'[e] = "using" /\ dh'[e] = s) <=> (dpc[e] = "using" /\ dh[e] = s)
    BY <2>1 DEF VarTypes
  <2>3. UsersOf' = UsersOf
    BY <2>2 DEF UsersOf
  <2> QED
    BY <2>1, <2>3, ContractStutter
<1>2. CASE UseCallback(d)
  <2> DEFINE s == dh[d]
  <2>1. s \in Starts /\ listener[s] /\ callback[s] /\ released[s] = 0 /\ tun[s] = "open"
    BY <1>2 DEF UseCallback, DialInv, HandlerInv
  <2>2. UNCHANGED <<handlerVars, dh>> /\ dpc[d] = "acquire"
        /\ dpc' = [dpc EXCEPT ![d] = "using"]
    BY <1>2 DEF UseCallback
  <2>3. StageOf[s] = "held" /\ StageOf' = StageOf /\ tun' = tun
    <3>1. StageOf[s] = "held"
      <4>1. ~(released[s] > 1) /\ released[s] # 1
        BY <2>1
      <4> HIDE DEF s
      <4> QED
        BY <2>1, <4>1, Zenon DEF StageOf
    <3> QED
      BY <2>2, <3>1 DEF StageOf, handlerVars
  <2>4. \A t \in Starts : d \notin UsersOf[t]
    BY <2>2 DEF UsersOf
  <2>5. UsersOf' = [UsersOf EXCEPT ![s] = @ \cup {d}]
    <3>1. \A t \in Starts : UsersOf'[t] = IF t = s THEN UsersOf[t] \cup {d} ELSE UsersOf[t]
      BY <2>2 DEF UsersOf, VarTypes
    <3>2. UsersOf = [t \in Starts |-> UsersOf[t]] /\ UsersOf' = [t \in Starts |-> UsersOf'[t]]
      BY DEF UsersOf
    <3> QED
      BY <2>1, <3>1, <3>2
  <2>6. Contract!Enter(d, s)
    BY <2>1, <2>3, <2>4, <2>5 DEF Contract!Enter
  <2> QED
    BY <2>1, <2>6 DEF Contract!Next
<1>3. CASE CallbackReturns(d)
  <2> DEFINE s == dh[d]
  <2>1. s \in Starts /\ dpc[d] = "using"
    BY <1>3 DEF CallbackReturns, DialInv
  <2>2. UNCHANGED handlerVars /\ dpc' = [dpc EXCEPT ![d] = "idle"]
        /\ dh' = [dh EXCEPT ![d] = Nil]
    BY <1>3 DEF CallbackReturns
  <2>3. d \in UsersOf[s] /\ StageOf' = StageOf /\ tun' = tun
    BY <2>1, <2>2 DEF UsersOf, StageOf, handlerVars
  <2>4. UsersOf' = [UsersOf EXCEPT ![s] = @ \ {d}]
    <3>1. \A t \in Starts : UsersOf'[t] = IF t = s THEN UsersOf[t] \ {d} ELSE UsersOf[t]
      BY <2>1, <2>2 DEF UsersOf, VarTypes
    <3>2. UsersOf = [t \in Starts |-> UsersOf[t]] /\ UsersOf' = [t \in Starts |-> UsersOf'[t]]
      BY DEF UsersOf
    <3> QED
      BY <2>1, <3>1, <3>2
  <2>5. Contract!Leave(d, s)
    BY <2>3, <2>4 DEF Contract!Leave
  <2> QED
    BY <2>1, <2>5 DEF Contract!Next
<1> QED
  BY <1>1, <1>2, <1>3 DEF DialStep

\* The handlers of the core implement TunContract: a callback is used only
\* while its tunnel is open, and given back once, when nobody is inside it.
THEOREM Refinement == Spec => KeepsContract
<1>1. Init => Contract!Init
  BY DEF Init, Contract!Init, StageOf, UsersOf
<1>2. Inv /\ [Next]_vars => [Contract!Next]_Contract!vars
  <2> SUFFICES ASSUME Inv, [Next]_vars PROVE [Contract!Next]_Contract!vars
    OBVIOUS
  <2>1. ASSUME NEW c \in Calls, Call(c) \/ HandleStopTun(c) \/ CloseHooks(c)
        PROVE  UNCHANGED Contract!vars
    BY <2>1, ContractStutter DEF Call, HandleStopTun, CloseHooks, dialVars, UsersOf
  <2>2. ASSUME NEW c \in Calls, Call(c) \/ CallStep(c)
        PROVE  [Contract!Next]_Contract!vars
    BY <2>1, <2>2, CloseRefines, StartRefines DEF CallStep
  <2>3. CASE UNCHANGED vars
    BY <2>3, ContractStutter DEF vars, handlerVars, UsersOf
  <2> QED
    BY <2>2, <2>3, DialRefines DEF Next
<1> QED
  BY <1>1, <1>2, Invariance, PTL DEF Spec, KeepsContract, Contract!Spec


-----------------------------------------------------------------------------
(* No request for permits waits in vain.                                     *)

\* A goroutine that has asked for permits of h and not given them back: it
\* needs nothing but the permits to go on.
Asked(p, h) ==
    \/ p \in Dials /\ dpc[p] \in {"acquire", "using"} /\ dh[p] = h
    \/ p \in Calls /\ pc[p] \in {"acquire", "close"} /\ tunHandler = h

Queued(p, h) == \E i \in 1..Len(waiters[h]) : waiters[h][i] = p

Has(p, h) == p \in holders[h] \/ Queued(p, h)

\* Each request is there once, and the first of the queue does not fit yet.
QueueOk(h) ==
    /\ \A p \in Procs : p \in holders[h] => ~Queued(p, h)
    /\ \A i, j \in 1..Len(waiters[h]) : waiters[h][i] = waiters[h][j] => i = j
    /\ waiters[h] # <<>> => ~Fits(waiters[h][1], holders[h])

QueueInv ==
    \A h \in Starts : QueueOk(h) /\ \A p \in Procs : Asked(p, h) <=> Has(p, h)

\* A request is admitted or queued at the end.
LEMMA AcquireQueue ==
    ASSUME VarTypes, NEW p \in Procs, NEW h \in Starts, Acquire(p, h),
           \A g \in Starts : QueueOk(g), ~Has(p, h)
    PROVE  /\ \A g \in Starts : QueueOk(g)'
           /\ \A g \in Starts, q \in Procs : Has(q, g)' <=> Has(q, g) \/ (q = p /\ g = h)
<1>0. /\ holders \in [Starts -> SUBSET Procs] /\ waiters \in [Starts -> Seq(Procs)]
      /\ \A g \in Starts : waiters[g] \in Seq(Procs) /\ Len(waiters[g]) \in Nat
  BY DEF VarTypes, Procs
<1>1. CASE waiters[h] = <<>> /\ Fits(p, holders[h])
  <2>1. holders' = [holders EXCEPT ![h] = @ \cup {p}] /\ waiters' = waiters
    BY <1>1 DEF Acquire
  <2>2. Len(waiters[h]) = 0
    BY <1>1
  <2>3. \A g \in Starts, q \in Procs :
           q \in holders'[g] <=> q \in holders[g] \/ (q = p /\ g = h)
    BY <1>0, <2>1
  <2>4. \A g \in Starts : QueueOk(g)'
    BY <1>0, <1>1, <2>1, <2>2 DEF QueueOk, Queued
  <2> QED
    BY <2>1, <2>3, <2>4 DEF Has, Queued
<1>2. CASE ~(waiters[h] = <<>> /\ Fits(p, holders[h]))
  <2>1. waiters' = [waiters EXCEPT ![h] = Append(@, p)] /\ holders' = holders
    BY <1>2 DEF Acquire
  <2>2. \A g \in Starts : g # h => waiters'[g] = waiters[g]
    BY <1>0, <2>1
  <2>3. waiters'[h] = Append(waiters[h], p)
    BY <1>0, <2>1
  <2> DEFINE W == waiters[h]
             n == Len(W)
  <2>4. /\ n \in Nat /\ Len(waiters'[h]) = n + 1 /\ waiters'[h][n + 1] = p
        /\ \A i \in 1..n : waiters'[h][i] = W[i]
    BY <1>0, <2>3, AppendProperties
  <2>5. \A i \in 1..(n + 1) : i = n + 1 \/ i \in 1..n
    BY <2>4
  <2>6. \A i \in 1..n : W[i] # p
    BY DEF Has, Queued
  <2>7. p \notin holders[h]
    BY DEF Has
  <2>8. \A q \in Procs : Queued(q, h)' <=> Queued(q, h) \/ q = p
    <3> HIDE DEF n, W
    <3>1. ASSUME NEW q \in Procs, NEW i \in 1..n, W[i] = q PROVE Queued(q, h)'
      BY <2>4, <3>1 DEF Queued
    <3>2. Queued(p, h)'
      BY <2>4 DEF Queued
    <3>3. ASSUME NEW q \in Procs, Queued(q, h)', q # p PROVE \E i \in 1..n : W[i] = q
      BY <2>4, <2>5, <3>3 DEF Queued
    <3> QED
      BY <3>1, <3>2, <3>3 DEF Queued, n, W
  <2>9. QueueOk(h)'
    <3>1. \A q \in Procs : q \in holders'[h] => ~Queued(q, h)'
      BY <2>1, <2>7, <2>8 DEF QueueOk
    <3>2. \A i, j \in 1..Len(waiters'[h]) : waiters'[h][i] = waiters'[h][j] => i = j
      <4>1. \A i, j \in 1..n : W[i] = W[j] => i = j
        BY DEF QueueOk
      <4> HIDE DEF n, W
      <4> QED
        BY <2>4, <2>5, <2>6, <4>1
    <3>3. ~Fits(waiters'[h][1], holders'[h])
      <4>1. CASE n = 0
        <5>1. W = <<>> /\ waiters'[h][1] = p
          BY <1>0, <2>4, <4>1
        <5> QED
          BY <1>2, <2>1, <5>1
      <4>2. CASE n # 0
        <5>1. W # <<>> /\ waiters'[h][1] = W[1]
          BY <2>4, <4>2
        <5> QED
          BY <2>1, <5>1 DEF QueueOk
      <4> QED
        BY <4>1, <4>2
    <3> QED
      BY <3>1, <3>2, <3>3 DEF QueueOk
  <2>10. \A g \in Starts : g # h => QueueOk(g)'
    BY <2>1, <2>2 DEF QueueOk, Queued
  <2>11. \A g \in Starts, q \in Procs : g # h => (Queued(q, g)' <=> Queued(q, g))
    BY <2>2 DEF Queued
  <2> QED
    BY <2>1, <2>8, <2>9, <2>10, <2>11 DEF Has
<1> QED
  BY <1>1, <1>2

\* A release admits all who fit, and takes nobody else out.
LEMMA ReleaseQueue ==
    ASSUME VarTypes, NEW p \in Procs, NEW h \in Starts, Release(p, h),
           \A g \in Starts : QueueOk(g), p \in holders[h]
    PROVE  /\ \A g \in Starts : QueueOk(g)'
           /\ \A g \in Starts, q \in Procs : Has(q, g)' <=> Has(q, g) /\ ~(q = p /\ g = h)
<1> DEFINE W == waiters[h]
           W1 == waiters'[h]
           H == holders[h] \ {p}
<1>1. \A g \in Starts : g # h => holders'[g] = holders[g] /\ waiters'[g] = waiters[g]
  BY ReleaseFacts
<1>2. PICK n \in 0..Len(W) :
         /\ holders'[h] = H \cup {W[i] : i \in 1..n}
         /\ Len(W1) = Len(W) - n
         /\ \A i \in 1..Len(W1) : W1[i] = W[i + n]
         /\ n < Len(W) => ~Fits(W[n + 1], H \cup {W[k] : k \in 1..n})
  BY ReleaseFacts
<1>3. W \in Seq(Procs) /\ W1 \in Seq(Procs) /\ Len(W) \in Nat /\ n \in Nat /\ n <= Len(W)
  <2>1. waiters' \in [Starts -> Seq(Procs)]
    BY ReleaseFacts
  <2> QED
    BY <2>1, <1>2 DEF VarTypes, Procs
<1>4. /\ \A i, j \in 1..Len(W) : W[i] = W[j] => i = j
      /\ \A i \in 1..Len(W) : W[i] \notin holders[h]
  <2>1. \A i \in 1..Len(W) : W[i] \in Procs /\ Queued(W[i], h)
    BY <1>3 DEF Queued
  <2> QED
    BY <2>1 DEF QueueOk
<1> HIDE DEF W, W1
<1>5. \A i \in 1..Len(W1) : i + n \in 1..Len(W) /\ i + n \notin 1..n
  BY <1>2, <1>3
<1>6. \A i \in 1..Len(W) : i \in 1..n \/ (i - n \in 1..Len(W1) /\ W1[i - n] = W[i])
  BY <1>2, <1>3
<1>7. \A i \in 1..n : i \in 1..Len(W)
  BY <1>3
<1>8. \A q \in Procs : Has(q, h)' <=> Has(q, h) /\ q # p
  <2>1. ASSUME NEW q \in Procs, q \in holders'[h] PROVE Has(q, h) /\ q # p
    BY <1>2, <1>4, <1>7, <2>1 DEF Has, Queued, W
  <2>2. ASSUME NEW q \in Procs, Queued(q, h)' PROVE Has(q, h) /\ q # p
    <3>1. PICK i \in 1..Len(W1) : W1[i] = q
      BY <2>2 DEF Queued, W1
    <3>2. i + n \in 1..Len(W) /\ W[i + n] = q
      BY <1>2, <1>5, <3>1
    <3> QED
      BY <1>4, <3>2 DEF Has, Queued, W
  <2>3. ASSUME NEW q \in Procs, Has(q, h), q # p PROVE Has(q, h)'
    <3>1. CASE q \in holders[h]
      BY <1>2, <2>3, <3>1 DEF Has
    <3>2. ASSUME NEW i \in 1..Len(W), W[i] = q PROVE Has(q, h)'
      <4>1. CASE i \in 1..n
        BY <1>2, <3>2, <4>1 DEF Has
      <4>2. CASE i \notin 1..n
        BY <1>6, <3>2, <4>2 DEF Has, Queued, W1
      <4> QED
        BY <4>1, <4>2
    <3> QED
      BY <2>3, <3>1, <3>2 DEF Has, Queued, W
  <2> QED
    BY <2>1, <2>2, <2>3 DEF Has
<1>9. QueueOk(h)'
  <2>1. ASSUME NEW q \in Procs, q \in holders'[h], NEW i \in 1..Len(W1), W1[i] = q PROVE FALSE
    <3>1. i + n \in 1..Len(W) /\ i + n \notin 1..n /\ W[i + n] = q
      BY <1>2, <1>5, <2>1
    <3> QED
      BY <1>2, <1>4, <1>7, <2>1, <3>1
  <2>2. ASSUME NEW i \in 1..Len(W1), NEW j \in 1..Len(W1), W1[i] = W1[j] PROVE i = j
    <3>1. i + n = j + n
      BY <1>2, <1>4, <1>5, <2>2
    <3>2. Len(W1) \in Nat
      BY <1>2, <1>3
    <3> QED
      BY <1>3, <3>1, <3>2
  <2>3. ASSUME W1 # <<>> PROVE ~Fits(W1[1], holders'[h])
    <3>1. Len(W1) \in Nat /\ Len(W1) # 0
      BY <1>2, <1>3, <2>3
    <3>2. n < Len(W) /\ W1[1] = W[n + 1]
      BY <1>2, <1>3, <3>1
    <3> QED
      BY <1>2, <3>2
  <2> QED
    BY <2>1, <2>2, <2>3 DEF QueueOk, Queued, W1
<1>10. \A g \in Starts : g # h => QueueOk(g)' /\ \A q \in Procs : Has(q, g)' <=> Has(q, g)
  BY <1>1 DEF QueueOk, Queued, Has
<1> QED
  BY <1>8, <1>9, <1>10

\* Who asks is queued or admitted in the same step, who gives back leaves.
LEMMA QueueKept ==
    ASSUME Inv, QueueInv, [Next]_vars
    PROVE  QueueInv'
<1> USE DEF handlerVars, semVars, dialVars
<1>0. /\ VarTypes /\ Calls \subseteq Procs /\ Dials \subseteq Procs
      /\ Calls \cap Dials = {} /\ Nil \notin Calls \cup Dials /\ Starts \subseteq Calls
  BY ConstantsAssumption DEF Inv, Procs, Calls
<1>q. \A g \in Starts : QueueOk(g)
  BY DEF QueueInv
<1>1. ASSUME UNCHANGED semVars,
             \A h \in Starts, p \in Procs : Asked(p, h)' <=> Asked(p, h)
      PROVE  QueueInv'
  BY <1>1 DEF QueueInv, QueueOk, Has, Queued
<1>2. ASSUME NEW p \in Procs, NEW h \in Starts, Acquire(p, h), ~Asked(p, h),
             \A g \in Starts, q \in Procs : Asked(q, g)' <=> Asked(q, g) \/ (q = p /\ g = h)
      PROVE  QueueInv'
  <2>1. ~Has(p, h)
    BY <1>2 DEF QueueInv
  <2>2. /\ \A g \in Starts : QueueOk(g)'
        /\ \A g \in Starts, q \in Procs : Has(q, g)' <=> Has(q, g) \/ (q = p /\ g = h)
    BY <1>0, <1>q, <1>2, <2>1, AcquireQueue
  <2> QED
    BY <1>2, <2>2 DEF QueueInv
<1>3. ASSUME NEW p \in Procs, NEW h \in Starts, Release(p, h), p \in holders[h],
             \A g \in Starts, q \in Procs : Asked(q, g)' <=> Asked(q, g) /\ ~(q = p /\ g = h)
      PROVE  QueueInv'
  <2>1. /\ \A g \in Starts : QueueOk(g)'
        /\ \A g \in Starts, q \in Procs : Has(q, g)' <=> Has(q, g) /\ ~(q = p /\ g = h)
    BY <1>0, <1>q, <1>3, ReleaseQueue
  <2> QED
    BY <1>3, <2>1 DEF QueueInv
<1>4. CASE UNCHANGED vars
  BY <1>1, <1>4 DEF vars, Asked
<1>5. ASSUME NEW c \in Calls, NEW label, pc' = [pc EXCEPT ![c] = label],
             pc[c] \in {"acquire", "close"} <=> label \in {"acquire", "close"},
             UNCHANGED <<tunHandler, semVars, dialVars>>
      PROVE  QueueInv'
  <2>1. \A e \in Calls : pc'[e] \in {"acquire", "close"} <=> pc[e] \in {"acquire", "close"}
    BY <1>0, <1>5 DEF VarTypes
  <2> QED
    BY <1>1, <1>5, <2>1 DEF Asked
<1>6. ASSUME NEW c \in Calls, Call(c) PROVE QueueInv'
  BY <1>5, <1>6 DEF Call
<1>7. ASSUME NEW c \in Calls, HandleStopTun(c) PROVE QueueInv'
  <2>1. CASE tunHandler = Nil
    BY <1>5, <1>7, <2>1 DEF HandleStopTun, AfterStop
  <2>2. CASE tunHandler # Nil
    <3>1. /\ pc[c] = "stop" /\ pc' = [pc EXCEPT ![c] = "acquire"] /\ Acquire(c, tunHandler)
          /\ tunHandler \in Starts /\ UNCHANGED <<tunHandler, dialVars>>
      BY <1>0, <1>7, <2>2 DEF HandleStopTun, VarTypes
    <3>2. pc'[c] = "acquire" /\ \A e \in Calls : e # c => pc'[e] = pc[e]
      BY <1>0, <3>1 DEF VarTypes
    <3>3. ~Asked(c, tunHandler)
      BY <1>0, <3>1 DEF Asked
    <3>4. \A g \in Starts, q \in Procs :
             Asked(q, g)' <=> Asked(q, g) \/ (q = c /\ g = tunHandler)
      BY <1>0, <3>1, <3>2 DEF Asked
    <3> QED
      BY <1>0, <1>2, <3>1, <3>3, <3>4
  <2> QED
    BY <2>1, <2>2
<1>8. ASSUME NEW c \in Calls, CloseHooks(c) PROVE QueueInv'
  BY <1>5, <1>8 DEF CloseHooks
<1>9. ASSUME NEW c \in Calls, CloseHandler(c) PROVE QueueInv'
  <2>1. /\ pc[c] = "close" /\ Release(c, tunHandler) /\ UNCHANGED <<tunHandler, dialVars>>
        /\ pc' = [pc EXCEPT ![c] = AfterStop(c)]
    BY <1>9 DEF CloseHandler
  <2>2. tunHandler \in Starts /\ c \in holders[tunHandler]
    BY <2>1 DEF Inv, IInv, LockInv, SemInv
  <2>3. pc'[c] \notin {"acquire", "close"} /\ \A e \in Calls : e # c => pc'[e] = pc[e]
    BY <1>0, <2>1 DEF VarTypes, AfterStop
  <2>4. \A g \in Starts, q \in Procs :
           Asked(q, g)' <=> Asked(q, g) /\ ~(q = c /\ g = tunHandler)
    BY <1>0, <2>1, <2>3 DEF Asked
  <2> QED
    BY <1>0, <1>3, <2>1, <2>2, <2>4
<1>10. ASSUME NEW s \in Starts, StartNoFd(s) \/ OpenTun(s) PROVE QueueInv'
  BY <1>0, <1>5, <1>10 DEF StartNoFd, OpenTun
<1>11. ASSUME NEW s \in Starts, StartHandler(s) PROVE QueueInv'
  <2>1. /\ pc[s] = "start" /\ lock = Nil /\ pc' = [pc EXCEPT ![s] = "open"]
        /\ UNCHANGED <<semVars, dialVars>>
    BY <1>11 DEF StartHandler
  <2>2. \A e \in Calls : pc[e] \notin {"acquire", "close"}
    BY <1>0, <2>1 DEF Inv, IInv, LockInv, Locked
  <2>3. \A e \in Calls : pc'[e] \notin {"acquire", "close"}
    BY <1>0, <2>1, <2>2 DEF VarTypes
  <2> QED
    BY <1>1, <2>1, <2>2, <2>3 DEF Asked
<1>12. ASSUME NEW d \in Dials, NEW label, dpc' = [dpc EXCEPT ![d] = label],
              dpc[d] \in {"acquire", "using"} <=> label \in {"acquire", "using"},
              UNCHANGED <<pc, tunHandler, semVars, dh>>
       PROVE  QueueInv'
  <2>1. \A e \in Dials : dpc'[e] \in {"acquire", "using"} <=> dpc[e] \in {"acquire", "using"}
    BY <1>0, <1>12 DEF VarTypes
  <2> QED
    BY <1>1, <1>12, <2>1 DEF Asked
<1>13. ASSUME NEW d \in Dials,
              \/ DialContext(d) \/ FindPackageName(d) \/ SocketControl(d)
              \/ HookReturns(d) \/ UseCallback(d)
       PROVE  QueueInv'
  <2>1. CASE DialContext(d) \/ FindPackageName(d)
    BY <1>12, <2>1 DEF DialContext, FindPackageName
  <2>2. CASE SocketControl(d)
    <3>1. dpc[d] = "hooked" /\ \/ dpc' = [dpc EXCEPT ![d] = "inhook"]
                               \/ dpc' = [dpc EXCEPT ![d] = "panic"]
      BY <2>2 DEF SocketControl
    <3> QED
      BY <1>12, <2>2, <3>1 DEF SocketControl
  <2>3. CASE HookReturns(d) \/ UseCallback(d)
    BY <1>12, <2>3 DEF HookReturns, UseCallback
  <2> QED
    BY <1>13, <2>1, <2>2, <2>3
<1>14. ASSUME NEW d \in Dials, HandleHook(d) PROVE QueueInv'
  <2>1. /\ dpc[d] = "inhook" /\ dpc' = [dpc EXCEPT ![d] = "acquire"]
        /\ dh' = [dh EXCEPT ![d] = tunHandler] /\ Acquire(d, tunHandler)
        /\ UNCHANGED <<pc, tunHandler>>
    BY <1>14 DEF HandleHook
  <2>2. tunHandler \in Starts
    BY <1>0, <2>1 DEF Inv, IInv, DialInv, VarTypes
  <2>3. /\ dpc'[d] = "acquire" /\ dh'[d] = tunHandler
        /\ \A e \in Dials : e # d => dpc'[e] = dpc[e] /\ dh'[e] = dh[e]
    BY <1>0, <2>1 DEF VarTypes
  <2>4. ~Asked(d, tunHandler)
    BY <1>0, <2>1 DEF Asked
  <2>5. \A g \in Starts, q \in Procs :
           Asked(q, g)' <=> Asked(q, g) \/ (q = d /\ g = tunHandler)
    BY <1>0, <2>1, <2>3 DEF Asked
  <2> QED
    BY <1>0, <1>2, <2>1, <2>2, <2>4, <2>5
<1>15. ASSUME NEW d \in Dials, SkipCallback(d) \/ CallbackReturns(d) PROVE QueueInv'
  <2>1. /\ dpc[d] \in {"acquire", "using"} /\ dpc' = [dpc EXCEPT ![d] = "idle"]
        /\ dh' = [dh EXCEPT ![d] = Nil] /\ Release(d, dh[d])
        /\ UNCHANGED <<pc, tunHandler>>
    BY <1>15 DEF SkipCallback, CallbackReturns
  <2>2. dh[d] \in Starts /\ d \in holders[dh[d]]
    BY <1>15 DEF SkipCallback, CallbackReturns, Inv, IInv, DialInv
  <2>3. /\ dpc'[d] = "idle" /\ \A e \in Dials : e # d => dpc'[e] = dpc[e] /\ dh'[e] = dh[e]
    BY <1>0, <2>1 DEF VarTypes
  <2>4. \A g \in Starts, q \in Procs :
           Asked(q, g)' <=> Asked(q, g) /\ ~(q = d /\ g = dh[d])
    BY <1>0, <2>1, <2>2, <2>3 DEF Asked
  <2> QED
    BY <1>0, <1>3, <2>1, <2>2, <2>4
<1> QED
  BY <1>4, <1>6, <1>7, <1>8, <1>9, <1>10, <1>11, <1>13, <1>14, <1>15
     DEF Next, CallStep, DialStep

\* Whoever has asked a handler for permits has them or is queued, however dials
\* and stops overlap, and a queue moves up as far as it can: while somebody
\* waits there are holders who leave him no room, each of them a dial or a
\* close() that will give its permits back.  (lib_android.go:57, 74 and 94.)
NobodyWaitsInVain ==
    \A h \in Starts :
        /\ \A p \in Procs : Asked(p, h) <=> p \in holders[h] \/ Queued(p, h)
        /\ waiters[h] # <<>> => holders[h] # {} /\ ~Fits(waiters[h][1], holders[h])

\* A wait for permits always has somebody who will end it, on every run.
THEOREM NoWaitInVain == Spec => []NobodyWaitsInVain
<1>1. Init => QueueInv
  <2> SUFFICES ASSUME Init PROVE QueueInv
    OBVIOUS
  <2>1. \A h \in Starts : holders[h] = {} /\ waiters[h] = <<>> /\ Len(waiters[h]) = 0
    BY DEF Init
  <2>2. \A p \in Procs, h \in Starts : ~Asked(p, h)
    BY DEF Init, Asked
  <2> QED
    BY <2>1, <2>2 DEF QueueInv, QueueOk, Has, Queued
<1>2. Inv /\ QueueInv /\ [Next]_vars => QueueInv'
  BY QueueKept
<1>3. QueueInv => NobodyWaitsInVain
  <2>1. \A p : Fits(p, {})
    BY FS_EmptySet DEF Fits, Permits
  <2> QED
    BY <2>1 DEF QueueInv, QueueOk, Has, NobodyWaitsInVain
<1> QED
  BY <1>1, <1>2, <1>3, Invariance, PTL DEF Spec
=============================================================================
