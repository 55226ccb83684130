-------------------------- MODULE HttpClient_proofs --------------------------
(***************************************************************************)
(* Proofs about HttpClient: for every number of clones, every gap, retry   *)
(* count and backoff, the stamps are a gap apart, no call exceeds its      *)
(* request budget, and no half-written body is ever under a cache path.    *)
(***************************************************************************)
EXTENDS HttpClient, TLAPS

\* Whoever sleeps in the gate holds the lock, and what it still sleeps makes up
\* for what is missing since the last stamp.
GateInv ==
  \A t \in Threads : pc[t] = "pause" => lock = t /\ wait[t] + since >= Gap

\* The history of requests follows the loop variable.
BudgetInv ==
  \A t \in Threads :
    sent[t] = IF pc[t] \in {"answer", "write", "writing", "rename"}
              THEN attempt[t] + 1 ELSE attempt[t]

\* What is about to be renamed has been written to its end.
SwapInv ==
  /\ CacheWhole
  /\ \A t \in Threads : pc[t] = "rename" => tmp[t] = "whole"

ClientInv == TypeOK /\ GateInv /\ BudgetInv /\ SwapInv

\* The timers stay in the naturals, and below their cap.
LEMMA Arithmetic ==
  /\ \A a, b \in Nat : Least(a, b) \in 0 .. b
  /\ \A n \in Nat : Elapse(n) \in Nat
  BY DEF Least, Elapse

\* A returning call has a type-correct set of fresh locals.
LEMMA ReturnType ==
  ASSUME TypeOK, NEW t \in Threads, NEW from \in Steps, Return(t, from)
  PROVE  /\ pc' \in [Threads -> Steps]
         /\ kind' \in [Threads -> {"Bytes", "File"}]
         /\ attempt' \in [Threads -> 0 .. RetryCount]
         /\ delay' \in [Threads -> 0 .. MaxBackoff]
         /\ sent' \in [Threads -> Nat]
         /\ quiet' \in [Threads -> 0 .. MaxBackoff]
         /\ pc' = [pc EXCEPT ![t] = "idle"]
         /\ attempt'[t] = 0 /\ sent'[t] = 0
         /\ \A u \in Threads \ {t} : attempt'[u] = attempt[u] /\ sent'[u] = sent[u]
  <1>1. 0 \in 0 .. RetryCount /\ 0 \in Nat /\ MaxBackoff \in 0 .. MaxBackoff
        /\ BaseBackoff \in 0 .. MaxBackoff /\ "idle" \in Steps
    BY NumbersAssumption DEF Steps
  <1> QED BY <1>1 DEF TypeOK, Return, Goto

\* The initial state has a free gate, no call and no file.
LEMMA ClientInit == Init => ClientInv
  <1> SUFFICES ASSUME Init PROVE ClientInv
    OBVIOUS
  <1>1. /\ Gap \in 0 .. Gap /\ 0 \in 0 .. RetryCount /\ 0 \in 0 .. MaxCalls
        /\ BaseBackoff \in 0 .. MaxBackoff /\ MaxBackoff \in 0 .. MaxBackoff
    BY NumbersAssumption
  <1>2. TypeOK
    BY <1>1 DEF Init, TypeOK, Steps, Contents
  <1>3. GateInv /\ BudgetInv
    BY DEF Init, GateInv, BudgetInv
  <1>4. None # "half"
    BY NoneAssumption
  <1>5. SwapInv
    BY <1>4 DEF Init, SwapInv, CacheWhole
  <1> QED BY <1>2, <1>3, <1>5 DEF ClientInv

\* Every step of a call keeps the types.
LEMMA ClientType == TypeOK /\ [Next]_vars => TypeOK'
  <1> SUFFICES ASSUME TypeOK, [Next]_vars PROVE TypeOK'
    OBVIOUS
  <1> USE NumbersAssumption
  <1>1. ASSUME NEW t \in Threads, NEW k \in Requests, Call(t, k) PROVE TypeOK'
    <2>1. calls' \in [Threads -> 0 .. MaxCalls]
      BY <1>1 DEF TypeOK, Call
    <2>2. CASE k = "OnlyIfMissing" /\ file[t] # None
      <3>1. Return(t, "idle") /\ UNCHANGED <<gateVars, wait, fileVars>>
        BY <1>1, <2>2 DEF Call
      <3> QED BY <2>1, <3>1, ReturnType DEF TypeOK, gateVars, fileVars, Steps
    <2>3. CASE ~(k = "OnlyIfMissing" /\ file[t] # None)
      BY <1>1, <2>1, <2>3 DEF TypeOK, Call, Goto, gateVars, retryVars, fileVars, Steps
    <2> QED BY <2>2, <2>3
  <1>2. ASSUME NEW t \in Threads, LockGate(t) PROVE TypeOK'
    BY <1>2 DEF TypeOK, LockGate, Goto, retryVars, fileVars, Steps
  <1>3. ASSUME NEW t \in Threads, Stamp(t) PROVE TypeOK'
    BY <1>3 DEF TypeOK, Stamp, Goto, retryVars, fileVars, Steps
  <1>4. ASSUME NEW t \in Threads, Send(t) PROVE TypeOK'
    BY <1>4 DEF TypeOK, Send, Goto, gateVars, fileVars, Steps
  <1>5. ASSUME NEW t \in Threads, AnswerOk(t) PROVE TypeOK'
    <2>1. CASE Return(t, "answer")
      BY <1>5, <2>1, ReturnType DEF TypeOK, AnswerOk, gateVars, fileVars, Steps
    <2>2. CASE Goto(t, "answer", "write") /\ UNCHANGED <<kind, retryVars>>
      BY <1>5, <2>2 DEF TypeOK, AnswerOk, Goto, gateVars, retryVars, fileVars, Steps
    <2> QED BY <1>5, <2>1, <2>2 DEF AnswerOk
  <1>6. ASSUME NEW t \in Threads, AnswerFails(t) PROVE TypeOK'
    BY <1>6, ReturnType DEF TypeOK, AnswerFails, gateVars, fileVars, Steps
  <1>7. ASSUME NEW t \in Threads, AnswerTransient(t) PROVE TypeOK'
    <2>0. attempt[t] \in 0 .. RetryCount /\ delay[t] \in 0 .. MaxBackoff
          /\ attempt[t] < RetryCount
      BY <1>7 DEF TypeOK, AnswerTransient
    <2>1. attempt[t] + 1 \in 0 .. RetryCount /\ delay[t] \in Nat
          /\ Least(2 * delay[t], MaxBackoff) \in 0 .. MaxBackoff
          /\ 0 \in 0 .. MaxBackoff
      BY <2>0 DEF Least
    <2> QED BY <1>7, <2>1 DEF TypeOK, AnswerTransient, Goto, gateVars, fileVars, Steps
  <1>8. ASSUME NEW t \in Threads, Retry(t) PROVE TypeOK'
    BY <1>8 DEF TypeOK, Retry, Goto, gateVars, retryVars, fileVars, Steps
  <1>9. ASSUME NEW t \in Threads, Write(t) PROVE TypeOK'
    BY <1>9 DEF TypeOK, Write, Goto, gateVars, retryVars, Steps, Contents
  <1>10. ASSUME NEW t \in Threads, Rename(t) PROVE TypeOK'
    BY <1>10, ReturnType DEF TypeOK, Rename, gateVars, Steps, Contents
  <1>11. ASSUME NEW t \in Threads, FileFails(t) PROVE TypeOK'
    BY <1>11, ReturnType DEF TypeOK, FileFails, gateVars, fileVars, Steps
  <1>12. CASE Tick
    <2>1. since' \in 0 .. Gap
      BY <1>12, Arithmetic DEF TypeOK, Tick
    <2>2. wait' \in [Threads -> Nat]
      BY <1>12, Arithmetic DEF TypeOK, Tick
    <2>3. quiet' \in [Threads -> 0 .. MaxBackoff]
      BY <1>12, Arithmetic DEF TypeOK, Tick
    <2> QED BY <1>12, <2>1, <2>2, <2>3 DEF TypeOK, Tick, fileVars
  <1>13. CASE Crash
    BY <1>13 DEF TypeOK, Crash, fileVars, Steps
  <1>14. CASE UNCHANGED vars
    BY <1>14 DEF TypeOK, vars, gateVars, retryVars, fileVars
  <1> QED BY <1>1, <1>2, <1>3, <1>4, <1>5, <1>6, <1>7, <1>8, <1>9, <1>10, <1>11,
             <1>12, <1>13, <1>14 DEF Next, Thread

\* The lock keeps everybody else out of the gate while one thread sleeps there,
\* so nobody else moves the stamp it is waiting for.
LEMMA GateStep == TypeOK /\ GateInv /\ [Next]_vars => GateInv'
  <1> SUFFICES ASSUME TypeOK, GateInv, [Next]_vars, NEW u \in Threads,
                      pc'[u] = "pause"
               PROVE  lock' = u /\ wait'[u] + since' >= Gap
    BY DEF GateInv
  <1> USE NumbersAssumption, NoneAssumption
  <1>1. ASSUME NEW t \in Threads, LockGate(t) PROVE lock' = u /\ wait'[u] + since' >= Gap
    <2>1. CASE u = t
      BY <1>1, <2>1 DEF TypeOK, LockGate, Goto
    <2>2. CASE u # t
      \* u would hold the lock that t has just found free.
      BY <1>1, <2>2 DEF TypeOK, GateInv, LockGate, Goto
    <2> QED BY <2>1, <2>2
  <1>2. ASSUME NEW t \in Threads, Stamp(t) PROVE lock' = u /\ wait'[u] + since' >= Gap
    <2>1. u # t /\ pc[u] = "pause" /\ pc[t] = "pause"
      BY <1>2 DEF TypeOK, Stamp, Goto
    <2> QED BY <2>1 DEF GateInv
  <1>3. CASE Tick
    <2>1. pc[u] = "pause" /\ lock' = lock
      BY <1>3 DEF Tick
    <2>2. lock = u /\ wait[u] + since >= Gap
      BY <2>1 DEF GateInv
    <2>3. wait[u] \in Nat /\ since \in Nat /\ since <= Gap
      BY DEF TypeOK
    <2>4. wait'[u] = Elapse(wait[u]) /\ since' = Least(since + 1, Gap)
      BY <1>3 DEF Tick
    <2> QED BY <2>1, <2>2, <2>3, <2>4 DEF Elapse, Least
  <1>4. CASE Crash
    BY <1>4 DEF Crash
  <1>5. ASSUME UNCHANGED <<gateVars, wait>>, pc[u] = "pause"
        PROVE  lock' = u /\ wait'[u] + since' >= Gap
    BY <1>5 DEF GateInv, gateVars
  <1>6. ASSUME NEW t \in Threads, NEW k \in Requests, Call(t, k) PROVE pc[u] = "pause"
    BY <1>6 DEF TypeOK, Call, Return, Goto
  <1>7. ASSUME NEW t \in Threads,
               Send(t) \/ AnswerOk(t) \/ AnswerFails(t) \/ Retry(t) \/ Write(t)
               \/ Rename(t) \/ FileFails(t)
        PROVE  pc[u] = "pause" /\ UNCHANGED <<gateVars, wait>>
    BY <1>7 DEF TypeOK, Send, AnswerOk, AnswerFails, Retry, Write, Rename, FileFails,
       Return, Goto
  <1>8. ASSUME NEW t \in Threads, AnswerTransient(t)
        PROVE  lock' = u /\ wait'[u] + since' >= Gap
    <2>1. u # t /\ pc[u] = "pause"
      BY <1>8 DEF TypeOK, AnswerTransient, Goto
    <2> QED BY <1>8, <2>1 DEF TypeOK, AnswerTransient, GateInv, gateVars
  <1>9. CASE UNCHANGED vars
    BY <1>5, <1>9 DEF vars
  <1>10. ASSUME NEW t \in Threads, NEW k \in Requests, Call(t, k)
         PROVE  lock' = u /\ wait'[u] + since' >= Gap
    BY <1>5, <1>6, <1>10 DEF Call
  <1> QED BY <1>1, <1>2, <1>3, <1>4, <1>5, <1>7, <1>8, <1>9, <1>10 DEF Next, Thread

\* A request is sent only on the way from the gate to the answer, once for each
\* value of the loop variable.
LEMMA BudgetStep == TypeOK /\ BudgetInv /\ [Next]_vars => BudgetInv'
  <1> SUFFICES ASSUME TypeOK, BudgetInv, [Next]_vars PROVE BudgetInv'
    OBVIOUS
  <1> USE NumbersAssumption
  <1>1. ASSUME NEW t \in Threads, NEW from \in Steps, Return(t, from) PROVE BudgetInv'
    BY <1>1, ReturnType DEF TypeOK, BudgetInv
  <1>2. ASSUME NEW t \in Threads, NEW from \in Steps, NEW to \in Steps,
               Goto(t, from, to), UNCHANGED retryVars,
               from \in {"answer", "write", "writing", "rename"}
                 <=> to \in {"answer", "write", "writing", "rename"}
        PROVE  BudgetInv'
    BY <1>2 DEF TypeOK, BudgetInv, Goto, retryVars
  <1>3. ASSUME NEW t \in Threads, NEW k \in Requests, Call(t, k) PROVE BudgetInv'
    BY <1>1, <1>2, <1>3 DEF Call, Steps
  <1>4. ASSUME NEW t \in Threads, LockGate(t) \/ Stamp(t) \/ Retry(t) PROVE BudgetInv'
    BY <1>2, <1>4 DEF LockGate, Stamp, Retry, Steps
  <1>5. ASSUME NEW t \in Threads, Send(t) PROVE BudgetInv'
    BY <1>5 DEF TypeOK, BudgetInv, Send, Goto
  <1>6. ASSUME NEW t \in Threads, AnswerOk(t) \/ AnswerFails(t) \/ Rename(t) \/ FileFails(t)
        PROVE  BudgetInv'
    BY <1>1, <1>2, <1>6 DEF AnswerOk, AnswerFails, Rename, FileFails, Steps
  <1>7. ASSUME NEW t \in Threads, AnswerTransient(t) PROVE BudgetInv'
    BY <1>7 DEF TypeOK, BudgetInv, AnswerTransient, Goto
  <1>8. ASSUME NEW t \in Threads, Write(t) PROVE BudgetInv'
    BY <1>2, <1>8 DEF Write, Steps
  <1>9. CASE Tick
    BY <1>9 DEF BudgetInv, Tick
  <1>10. CASE Crash
    BY <1>10 DEF BudgetInv, Crash
  <1>11. CASE UNCHANGED vars
    BY <1>11 DEF BudgetInv, vars, retryVars
  <1> QED BY <1>3, <1>4, <1>5, <1>6, <1>7, <1>8, <1>9, <1>10, <1>11 DEF Next, Thread

\* Only a rename puts anything under the path, and only after the write.
LEMMA SwapStep == TypeOK /\ SwapInv /\ [Next]_vars => SwapInv'
  <1> SUFFICES ASSUME TypeOK, SwapInv, [Next]_vars PROVE SwapInv'
    OBVIOUS
  <1>1. ASSUME NEW t \in Threads, Write(t) PROVE SwapInv'
    BY <1>1 DEF TypeOK, SwapInv, CacheWhole, Write, Goto
  <1>2. ASSUME NEW t \in Threads, Rename(t) PROVE SwapInv'
    BY <1>2 DEF TypeOK, SwapInv, CacheWhole, Rename, Return, Goto
  <1>3. ASSUME UNCHANGED fileVars,
               \A t \in Threads : pc'[t] = "rename" => pc[t] = "rename"
        PROVE  SwapInv'
    BY <1>3 DEF SwapInv, CacheWhole, fileVars
  <1>4. ASSUME NEW t \in Threads, NEW k \in Requests, Call(t, k) PROVE SwapInv'
    BY <1>3, <1>4 DEF TypeOK, Call, Return, Goto
  <1>5. ASSUME NEW t \in Threads,
               LockGate(t) \/ Stamp(t) \/ Send(t) \/ AnswerOk(t) \/ AnswerFails(t)
               \/ AnswerTransient(t) \/ Retry(t) \/ FileFails(t)
        PROVE  SwapInv'
    BY <1>3, <1>5 DEF TypeOK, LockGate, Stamp, Send, AnswerOk, AnswerFails,
       AnswerTransient, Retry, FileFails, Return, Goto
  <1>6. CASE Tick \/ Crash
    BY <1>3, <1>6 DEF Tick, Crash
  <1>7. CASE UNCHANGED vars
    BY <1>3, <1>7 DEF vars
  <1> QED BY <1>1, <1>2, <1>4, <1>5, <1>6, <1>7 DEF Next, Thread

\* The inductive invariant holds in every reachable state.
THEOREM ClientCorrect == Spec => []ClientInv
  <1>1. ClientInv /\ [Next]_vars => ClientInv'
    BY ClientType, GateStep, BudgetStep, SwapStep DEF ClientInv
  <1> QED BY ClientInit, <1>1, PTL DEF Spec

\* Every variable of the client keeps its type (TypeOK).
THEOREM TypeCorrect == Spec => []TypeOK
  BY ClientCorrect, PTL DEF ClientInv

\* No call sends more than retry_count + 1 requests (http.rs:117), whatever the
\* other clones, errors and kills do.
THEOREM BudgetKept == Spec => []RequestBudget
  <1>1. ClientInv => RequestBudget
    <2> SUFFICES ASSUME ClientInv, NEW t \in Threads PROVE sent[t] <= RetryCount + 1
      BY DEF RequestBudget
    <2>1. attempt[t] \in 0 .. RetryCount
      BY DEF ClientInv, TypeOK
    <2>2. sent[t] = attempt[t] + 1 \/ sent[t] = attempt[t]
      BY DEF ClientInv, BudgetInv
    <2> QED BY <2>1, <2>2, NumbersAssumption
  <1> QED BY <1>1, ClientCorrect, PTL

\* A crash mid-write leaves no half-written file under a cache path
\* (http.rs:247).
THEOREM CacheNeverTorn == Spec => []CacheWhole
  BY ClientCorrect, PTL DEF ClientInv, SwapInv

\* Two stamps of the shared gate are a whole min_gap apart, for any number of
\* clones (http.rs:14).
THEOREM GateSpaced == Spec => StampsSpaced
  <1>1. ClientInv /\ [Next]_vars =>
          [\A t \in Threads : pc[t] = "pause" /\ pc'[t] = "send" => since = Gap]_vars
    <2> SUFFICES ASSUME ClientInv, [Next]_vars, NEW t \in Threads,
                        pc[t] = "pause", pc'[t] = "send"
                 PROVE  since = Gap
      OBVIOUS
    <2>1. wait[t] = 0
      BY DEF ClientInv, TypeOK, Next, Thread, Call, LockGate, Stamp, Send, AnswerOk,
         AnswerFails, AnswerTransient, Retry, Write, Rename, FileFails, Tick, Crash,
         Return, Goto, vars
    <2> QED BY <2>1, NumbersAssumption DEF ClientInv, TypeOK, GateInv
  <1> QED BY <1>1, ClientCorrect, PTL DEF Spec, StampsSpaced
=============================================================================
