---------------------------- MODULE LoopDetector ----------------------------
(***************************************************************************)
(* The runtime's loop_detection/detector.rs as handle_tool_call drives it: *)
(* every tool call is inspected before it runs and recorded after it, one  *)
(* call at a time.  A pattern is a tool with its arguments                 *)
(* (fingerprint_call), an outcome the text of its result.                  *)
(***************************************************************************)
EXTENDS Naturals, Sequences

CONSTANTS
    Patterns, Outcomes, NoPattern,
    HistorySize, Warning, Critical, Breaker     \* LoopDetectionConfig

ASSUME LoopAssumption ==
    /\ NoPattern \notin Patterns
    /\ {HistorySize, Warning, Critical, Breaker} \subseteq Nat \ {0}
    /\ 2 <= Warning /\ Warning <= Critical
    /\ Warning <= HistorySize

VARIABLES
    calls,      \* history: the calls that ran, the latest last
    warned,     \* last_warning_pattern
    running     \* the pattern of the call that is executing

loopVars == <<calls, warned, running>>

LoopInit ==
    /\ calls = <<>>
    /\ warned = NoPattern
    /\ running = NoPattern

-----------------------------------------------------------------------------
(* The k latest calls are all of pattern p: a streak of at least k. *)
Streak(h, p, k) ==
    k <= Len(h) /\ \A i \in 1..Len(h) : i > Len(h) - k => h[i].pattern = p

(* attempts >= n in same_pattern_no_progress_signal *)
Repeats(h, p, n) == Streak(h, p, 1) /\ Streak(h, p, n - 1)

(* The k latest calls alternate between the latest call's pattern and p. *)
Alternating(h, p, k) ==
    /\ k <= Len(h)
    /\ \A i \in 1..Len(h) :
          i > Len(h) - k =>
              h[i].pattern = IF (Len(h) - i) % 2 = 0 THEN h[Len(h)].pattern ELSE p

(* attempts >= n in ping_pong_signal *)
PingPongs(h, p, n) == h # <<>> /\ h[Len(h)].pattern # p /\ Alternating(h, p, n - 1)

(* global_circuit_breaker_signal *)
Tripped(h) ==
    /\ Len(h) + 1 >= Breaker /\ h # <<>> /\ Breaker > 1
    /\ \A i \in 1..Len(h) : i > Len(h) - (Breaker - 1) => h[i].outcome = h[Len(h)].outcome

(* Fault: the blocking threshold is off by one. *)
SignalLate(h, w, p) ==
    IF Repeats(h, p, Critical + 1) \/ PingPongs(h, p, Critical + 1) THEN "critical"
    ELSE IF (Repeats(h, p, Warning) /\ w # p) \/ PingPongs(h, p, Warning) THEN "warning"
    ELSE IF Tripped(h) THEN "critical" ELSE "none"

(* inspect: the first of the three checks that signals decides.  Repeats and
   PingPongs exclude each other; a warning of either keeps the circuit breaker
   from being asked. *)
Signal(h, w, p) ==
    IF Repeats(h, p, Critical) \/ PingPongs(h, p, Critical) THEN "critical"
    ELSE IF (Repeats(h, p, Warning) /\ w # p) \/ PingPongs(h, p, Warning) THEN "warning"
    ELSE IF Tripped(h) THEN "critical" ELSE "none"

Blocked(p) == Signal(calls, warned, p) = "critical"

(* A tool call is inspected; a critical signal makes it a failure result, of which
   the detector hears nothing, any other lets it run. *)
Inspect(p) ==
    /\ running = NoPattern
    /\ running' = IF Blocked(p) THEN NoPattern ELSE p
    /\ warned' = IF Repeats(calls, p, Warning) \/ Repeats(calls, p, Critical) THEN p ELSE warned
    /\ UNCHANGED calls

(* history.push_back, and pop_front when it is too long *)
Recorded(h, e) == IF Len(h) < HistorySize THEN Append(h, e) ELSE Tail(Append(h, e))

(* Fault: the warning outlives the streak. *)
RecordSticky(o) ==
    /\ running # NoPattern
    /\ calls' = Recorded(calls, [pattern |-> running, outcome |-> o])
    /\ running' = NoPattern
    /\ UNCHANGED warned

(* record_result, record_error: record_entry *)
Record(o) ==
    /\ running # NoPattern
    /\ calls' = Recorded(calls, [pattern |-> running, outcome |-> o])
    /\ warned' = IF warned = running THEN warned ELSE NoPattern
    /\ running' = NoPattern

(* The turn is aborted while the tool executes: nothing is recorded. *)
CallAborted ==
    /\ running # NoPattern
    /\ running' = NoPattern
    /\ UNCHANGED <<calls, warned>>

(* reset, at the switch to a new or a resumed session *)
Reset ==
    /\ running = NoPattern
    /\ calls' = <<>>
    /\ warned' = NoPattern
    /\ UNCHANGED running

LoopNext ==
    \/ \E p \in Patterns : Inspect(p)
    \/ \E o \in Outcomes : Record(o)
    \/ CallAborted \/ Reset

LoopSpec == LoopInit /\ [][LoopNext]_loopVars

-----------------------------------------------------------------------------
(* The history is bounded and of calls. *)
LoopTypeOK ==
    /\ calls \in Seq([pattern: Patterns, outcome: Outcomes]) /\ Len(calls) <= HistorySize
    /\ warned \in Patterns \cup {NoPattern}
    /\ running \in Patterns \cup {NoPattern}

(* Whatever calls are blocked, aborted or masked by a warning, no pattern ever runs
   critical_threshold times in a row, and no two patterns alternate that often: the
   history never shows it (inspect, record_entry). *)
ChurnBounded ==
    \A p \in Patterns :
        /\ ~Streak(calls, p, Critical)
        /\ calls # <<>> /\ calls[Len(calls)].pattern # p
              => ~Alternating(calls, p, Critical)

(* "Warnings are pattern-scoped; once the tool pattern changes, a future repeat is
   allowed to emit a fresh warning": the pattern that is held back is the one of the
   streak at hand, which is as long as a warning needs, and a streak that has reached
   the threshold has been warned about (same_pattern_no_progress_signal,
   record_entry, reset). *)
WarningsScoped ==
    \A p \in Patterns :
        /\ warned = p => Streak(calls, p, Warning - 1)
        /\ Streak(calls, p, Warning) => warned = p
=============================================================================
