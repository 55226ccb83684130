----------------------------- MODULE HttpClient -----------------------------
(***************************************************************************)
(* `DatasetClient`: the min-gap rate gate that all clones share, the retry *)
(* loop of `fetch_bytes`, and `fetch_to_file` with its `.tmp` swap.        *)
(*                                                                         *)
(* Each thread holds a clone and makes one call after another, each for a  *)
(* file of its own, as the loaders do.  Time is what the timers still have *)
(* to run: a tick is common to all of them, and a thread whose sleep is    *)
(* over may be scheduled any time later.  A body is whole or half written. *)
(***************************************************************************)
EXTENDS Integers

CONSTANTS
  Threads,     \* the threads that hold a clone
  Gap,         \* min_gap, in ticks (every loader that retries has one)
  RetryCount,  \* retry_count
  BaseBackoff, \* base_backoff_ms, in ticks
  MaxBackoff,  \* MAX_BACKOFF_MS, in ticks
  MaxCalls,    \* bound: calls each thread makes
  None         \* the lock nobody holds, the file that is missing

ASSUME NumbersAssumption ==
  /\ Gap \in Nat \ {0}
  /\ RetryCount \in Nat
  /\ BaseBackoff \in Nat
  /\ MaxBackoff \in Nat
  /\ BaseBackoff <= MaxBackoff
  /\ MaxCalls \in Nat
ASSUME NoneAssumption == None \notin Threads \union {"half", "whole"}

VARIABLES
  lock,      \* holder of the `last_request` mutex
  since,     \* ticks since the stamp in it, up to Gap; Gap when it is None
  pc,        \* where each thread is
  wait,      \* ticks its sleep still has to run
  kind,      \* "File" when its call writes the body to its file
  attempt,   \* the loop variable of fetch_bytes
  delay,     \* delay_ms
  file,      \* the target path: None, "half" or "whole"
  tmp,       \* the .tmp beside it
  calls,     \* calls made so far
  sent,      \* history: requests of this call
  quiet      \* history: ticks since its last failed answer, up to MaxBackoff

gateVars == <<lock, since>>
retryVars == <<attempt, delay, sent, quiet>>
fileVars == <<file, tmp>>
vars == <<gateVars, pc, wait, kind, retryVars, fileVars, calls>>

Requests == {"Bytes", "Always", "OnlyIfMissing"}  \* fetch_bytes, or a FetchMode
Steps == {"idle", "gate", "pause", "send", "answer", "backoff", "write",
          "writing", "rename"}
Contents == {None, "half", "whole"}

Least(a, b) == IF a <= b THEN a ELSE b
Elapse(n) == IF n = 0 THEN 0 ELSE n - 1
-----------------------------------------------------------------------------
Init ==
  /\ lock = None
  /\ since = Gap
  /\ pc = [t \in Threads |-> "idle"]
  /\ wait = [t \in Threads |-> 0]
  /\ kind = [t \in Threads |-> "Bytes"]
  /\ attempt = [t \in Threads |-> 0]
  /\ delay = [t \in Threads |-> BaseBackoff]
  /\ file = [t \in Threads |-> None]
  /\ tmp = [t \in Threads |-> None]
  /\ calls = [t \in Threads |-> 0]
  /\ sent = [t \in Threads |-> 0]
  /\ quiet = [t \in Threads |-> MaxBackoff]

Goto(t, from, to) ==
  /\ pc[t] = from
  /\ pc' = [pc EXCEPT ![t] = to]

\* The call returns from the step `from`: its locals are gone.
Return(t, from) ==
  /\ Goto(t, from, "idle")
  /\ kind' = [kind EXCEPT ![t] = "Bytes"]
  /\ attempt' = [attempt EXCEPT ![t] = 0]
  /\ delay' = [delay EXCEPT ![t] = BaseBackoff]
  /\ sent' = [sent EXCEPT ![t] = 0]
  /\ quiet' = [quiet EXCEPT ![t] = MaxBackoff]

\* OnlyIfMissing has nothing to do when the file is there.
Call(t, k) ==
  /\ calls[t] < MaxCalls
  /\ calls' = [calls EXCEPT ![t] = @ + 1]
  /\ IF k = "OnlyIfMissing" /\ file[t] # None
     THEN Return(t, "idle")
     ELSE /\ Goto(t, "idle", "gate")
          /\ kind' = [kind EXCEPT ![t] = IF k = "Bytes" THEN "Bytes" ELSE "File"]
          /\ UNCHANGED retryVars
  /\ UNCHANGED <<gateVars, wait, fileVars>>
-----------------------------------------------------------------------------
(* rate_gate.                                                              *)

\* Variant: the stamp is read under the lock, the sleep is not.
LockGateRead(t) ==
  /\ lock = None
  /\ Goto(t, "gate", "pause")
  /\ wait' = [wait EXCEPT ![t] = Gap - since]
  /\ UNCHANGED <<gateVars, kind, retryVars, fileVars, calls>>

\* The lock is taken, the stamp is read, and the sleep begins under the lock.
LockGate(t) ==
  /\ lock = None
  /\ Goto(t, "gate", "pause")
  /\ lock' = t
  /\ wait' = [wait EXCEPT ![t] = Gap - since]
  /\ UNCHANGED <<since, kind, retryVars, fileVars, calls>>

\* Variant: the guard outlives the function.
StampHolding(t) ==
  /\ wait[t] = 0
  /\ Goto(t, "pause", "send")
  /\ since' = 0
  /\ UNCHANGED <<lock, wait, kind, retryVars, fileVars, calls>>

Stamp(t) ==
  /\ wait[t] = 0
  /\ Goto(t, "pause", "send")
  /\ lock' = None
  /\ since' = 0
  /\ UNCHANGED <<wait, kind, retryVars, fileVars, calls>>
-----------------------------------------------------------------------------
(* request_once and the retry loop around it.                              *)

\* The thread may be scheduled late: the request starts after its stamp.
Send(t) ==
  /\ Goto(t, "send", "answer")
  /\ sent' = [sent EXCEPT ![t] = @ + 1]
  /\ UNCHANGED <<gateVars, wait, kind, attempt, delay, quiet, fileVars, calls>>

AnswerOk(t) ==
  /\ \/ kind[t] = "Bytes" /\ Return(t, "answer")
     \/ kind[t] # "Bytes" /\ Goto(t, "answer", "write") /\ UNCHANGED <<kind, retryVars>>
  /\ UNCHANGED <<gateVars, wait, fileVars, calls>>

\* Any other answer: not transient, or the last attempt.
AnswerFails(t) ==
  /\ Return(t, "answer")
  /\ UNCHANGED <<gateVars, wait, fileVars, calls>>

\* Variant: the loop has one attempt more.
AnswerTransientOver(t) ==
  /\ attempt[t] <= RetryCount
  /\ Goto(t, "answer", "backoff")
  /\ attempt' = [attempt EXCEPT ![t] = @ + 1]
  /\ wait' = [wait EXCEPT ![t] = delay[t]]
  /\ delay' = [delay EXCEPT ![t] = Least(2 * @, MaxBackoff)]
  /\ quiet' = [quiet EXCEPT ![t] = 0]
  /\ UNCHANGED <<gateVars, kind, sent, fileVars, calls>>

\* Variant: the delay is the same before every attempt.
AnswerTransientFlat(t) ==
  /\ attempt[t] < RetryCount
  /\ Goto(t, "answer", "backoff")
  /\ attempt' = [attempt EXCEPT ![t] = @ + 1]
  /\ wait' = [wait EXCEPT ![t] = delay[t]]
  /\ quiet' = [quiet EXCEPT ![t] = 0]
  /\ UNCHANGED <<gateVars, kind, delay, sent, fileVars, calls>>

\* Variant: the delay doubles without end.
AnswerTransientUncapped(t) ==
  /\ attempt[t] < RetryCount
  /\ Goto(t, "answer", "backoff")
  /\ attempt' = [attempt EXCEPT ![t] = @ + 1]
  /\ wait' = [wait EXCEPT ![t] = delay[t]]
  /\ delay' = [delay EXCEPT ![t] = 2 * @]
  /\ quiet' = [quiet EXCEPT ![t] = 0]
  /\ UNCHANGED <<gateVars, kind, sent, fileVars, calls>>

AnswerTransient(t) ==
  /\ attempt[t] < RetryCount
  /\ Goto(t, "answer", "backoff")
  /\ attempt' = [attempt EXCEPT ![t] = @ + 1]
  /\ wait' = [wait EXCEPT ![t] = delay[t]]
  /\ delay' = [delay EXCEPT ![t] = Least(2 * @, MaxBackoff)]
  /\ quiet' = [quiet EXCEPT ![t] = 0]
  /\ UNCHANGED <<gateVars, kind, sent, fileVars, calls>>

Retry(t) ==
  /\ wait[t] = 0
  /\ Goto(t, "backoff", "gate")
  /\ UNCHANGED <<gateVars, wait, kind, retryVars, fileVars, calls>>
-----------------------------------------------------------------------------
(* The rest of fetch_to_file.                                              *)

\* Variant: the bytes are written to the path itself.
WriteInPlace(t) ==
  /\ \/ /\ Goto(t, "write", "writing")
        /\ file' = [file EXCEPT ![t] = "half"]
        /\ UNCHANGED <<kind, retryVars>>
     \/ /\ Return(t, "writing")
        /\ file' = [file EXCEPT ![t] = "whole"]
  /\ UNCHANGED <<gateVars, wait, tmp, calls>>

Write(t) ==
  /\ \/ /\ Goto(t, "write", "writing")
        /\ tmp' = [tmp EXCEPT ![t] = "half"]
     \/ /\ Goto(t, "writing", "rename")
        /\ tmp' = [tmp EXCEPT ![t] = "whole"]
  /\ UNCHANGED <<gateVars, wait, kind, retryVars, file, calls>>

Rename(t) ==
  /\ Return(t, "rename")
  /\ file' = [file EXCEPT ![t] = tmp[t]]
  /\ tmp' = [tmp EXCEPT ![t] = None]
  /\ UNCHANGED <<gateVars, wait, calls>>

\* create_dir_all, write or rename fails: an Io error, never retried.
FileFails(t) ==
  /\ \E from \in {"write", "writing", "rename"} : Return(t, from)
  /\ UNCHANGED <<gateVars, wait, fileVars, calls>>
-----------------------------------------------------------------------------
\* The process is killed and started again: only the files survive, and the
\* new client has no stamp.
Crash ==
  /\ \E t \in Threads : pc[t] # "idle"
  /\ lock' = None
  /\ since' = Gap
  /\ pc' = [t \in Threads |-> "idle"]
  /\ wait' = [t \in Threads |-> 0]
  /\ kind' = [t \in Threads |-> "Bytes"]
  /\ attempt' = [t \in Threads |-> 0]
  /\ delay' = [t \in Threads |-> BaseBackoff]
  /\ sent' = [t \in Threads |-> 0]
  /\ quiet' = [t \in Threads |-> MaxBackoff]
  /\ UNCHANGED <<fileVars, calls>>

Tick ==
  /\ since' = Least(since + 1, Gap)
  /\ wait' = [t \in Threads |-> Elapse(wait[t])]
  /\ quiet' = [t \in Threads |-> Least(quiet[t] + 1, MaxBackoff)]
  /\ UNCHANGED <<lock, pc, kind, attempt, delay, sent, fileVars, calls>>

Thread(t) ==
  \/ LockGate(t) \/ Stamp(t) \/ Send(t)
  \/ AnswerOk(t) \/ AnswerFails(t) \/ AnswerTransient(t) \/ Retry(t)
  \/ Write(t) \/ Rename(t) \/ FileFails(t)

Next ==
  \/ \E t \in Threads, k \in Requests : Call(t, k)
  \/ \E t \in Threads : Thread(t)
  \/ Tick
  \/ Crash

Spec == Init /\ [][Next]_vars

\* Time passes, a thread that can run does, and every request is answered, if
\* only by its deadline.  The mutex is not fair; the calls are finite.
FairSpec == Spec /\ WF_vars(Tick) /\ \A t \in Threads : WF_vars(Thread(t))
-----------------------------------------------------------------------------
(* Properties.                                                             *)

\* Every variable holds a value of its kind.
TypeOK ==
  /\ lock \in Threads \union {None}
  /\ since \in 0 .. Gap
  /\ pc \in [Threads -> Steps]
  /\ wait \in [Threads -> Nat]
  /\ kind \in [Threads -> {"Bytes", "File"}]
  /\ attempt \in [Threads -> 0 .. RetryCount]
  /\ delay \in [Threads -> 0 .. MaxBackoff]
  /\ file \in [Threads -> Contents]
  /\ tmp \in [Threads -> Contents]
  /\ calls \in [Threads -> 0 .. MaxCalls]
  /\ sent \in [Threads -> Nat]
  /\ quiet \in [Threads -> 0 .. MaxBackoff]

\* "every clone throttles against the same clock" (http.rs:14): however many
\* threads queue at the gate, sleep and retry, two stamps are a whole gap apart.
StampsSpaced ==
  [][\A t \in Threads : pc[t] = "pause" /\ pc'[t] = "send" => since = Gap]_vars

\* "total attempts = retry_count + 1" (http.rs:117): a call never sends more
\* requests than that, counted at the requests and not at the loop.
RequestBudget ==
  \A t \in Threads : sent[t] <= RetryCount + 1

\* The pause the code owes after n failed answers: base, doubled each time, and
\* capped (n = 0: nothing).
Owed == [n \in 0 .. RetryCount |->
  IF n = 0 THEN 0 ELSE Least(BaseBackoff * 2 ^ (n - 1), MaxBackoff)]

\* "doubles each retry, capped at 30 s" (http.rs:119): whatever the gate adds, a
\* retry starts no sooner after the failed answer than its backoff.
RetrySpaced ==
  [][\A t \in Threads : pc[t] = "send" /\ pc'[t] = "answer" =>
       quiet[t] >= Owed[attempt[t]]]_vars

\* "a crash mid-write can't leave a corrupt cache file" (http.rs:247): the path
\* holds a whole body or nothing, wherever a kill or an error fell.
CacheWhole ==
  \A t \in Threads : file[t] # "half"

\* Every call returns: nobody starves at the gate while others sleep in it,
\* back off or die.
CallsReturn ==
  \A t \in Threads : pc[t] # "idle" ~> pc[t] = "idle"
=============================================================================
