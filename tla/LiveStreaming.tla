---------------------------- MODULE LiveStreaming ----------------------------
(***************************************************************************)
(* src/src/live_capture.py: start_streaming and stop_streaming of a        *)
(* LivePacketCapture, one action per statement of the worker threads that  *)
(* reads or writes what they share.                                        *)
(*                                                                         *)
(* The worker calls self.sniff(timeout=..., callback=...), and sniff has   *)
(* no parameter timeout: the call raises TypeError before a packet is      *)
(* waited for, the worker swallows it, and the name packets stays unbound. *)
(***************************************************************************)
EXTENDS Naturals

CONSTANTS Stream,     \* the calls of start_streaming
          Thread,     \* the threads of one call: four in the code
          MaxStops,   \* bound on the calls of stop_streaming
          Limits,     \* what max_packets may be
          Absent      \* None: no attribute yet, or no limit

ASSUME StreamingAssumption ==
  /\ Thread # {} /\ MaxStops \in Nat /\ Absent \notin BOOLEAN

VARIABLES
  stop,        \* self._stop: Absent until the first start_streaming
  max_packets, \* of each stream, in the closure of its threads
  at,          \* where each thread is
  stops,       \* how often stop_streaming was called
  told         \* not in the code: it was called since the stream was started

streaming_vars == <<stop, max_packets, at, stops, told>>

Places == {"unborn", "check", "sniff", "count", "ended", "died"}

Alive(s, t) == at[s][t] \in {"check", "sniff", "count"}

Started(s) == \E t \in Thread : at[s][t] # "unborn"

StreamingInit ==
  /\ stop = Absent
  /\ max_packets \in [Stream -> Limits]
  /\ at = [s \in Stream |-> [t \in Thread |-> "unborn"]]
  /\ stops = 0
  /\ told = [s \in Stream |-> FALSE]

GoTo(s, t, place) == at' = [at EXCEPT ![s][t] = place]

\* Mutant: the flag is made once and not reset for the next stream.
start_streaming_keeps_flag(s) ==
  /\ ~Started(s)
  /\ stop' = IF stop = Absent THEN FALSE ELSE stop
  /\ at' = [at EXCEPT ![s] = [t \in Thread |-> "check"]]
  /\ UNCHANGED <<max_packets, stops, told>>

\* The attributes are reset for every stream of the same object.
start_streaming(s) ==
  /\ ~Started(s)
  /\ stop' = FALSE
  /\ at' = [at EXCEPT ![s] = [t \in Thread |-> "check"]]
  /\ UNCHANGED <<max_packets, stops, told>>

stop_streaming ==
  /\ stops < MaxStops
  /\ stops' = stops + 1
  /\ stop' = IF stop = Absent THEN Absent ELSE TRUE
  /\ told' = [s \in Stream |-> told[s] \/ Started(s)]
  /\ UNCHANGED <<max_packets, at>>

\* Mutant: the flag is looked at once, before the loop, and never again.
CheckStopOnce(s, t) ==
  /\ at[s][t] = "check"
  /\ GoTo(s, t, "sniff")
  /\ UNCHANGED <<stop, max_packets, stops, told>>

\* while not self._stop.
CheckStop(s, t) ==
  /\ at[s][t] = "check"
  /\ GoTo(s, t, IF stop = TRUE THEN "ended" ELSE "sniff")
  /\ UNCHANGED <<stop, max_packets, stops, told>>

\* Mutant: the TypeError is not caught.
SniffRaises(s, t) ==
  /\ at[s][t] = "sniff"
  /\ GoTo(s, t, "died")
  /\ UNCHANGED <<stop, max_packets, stops, told>>

\* self.sniff raises TypeError, which is swallowed.
TrySniff(s, t) ==
  /\ at[s][t] = "sniff"
  /\ GoTo(s, t, IF max_packets[s] = Absent THEN "check" ELSE "count")
  /\ UNCHANGED <<stop, max_packets, stops, told>>

\* len(packets) of the unbound name raises UnboundLocalError: the thread is over
\* before it has added to the count or tested it.
Count(s, t) ==
  /\ at[s][t] = "count"
  /\ GoTo(s, t, "died")
  /\ UNCHANGED <<stop, max_packets, stops, told>>

Worker(s, t) == CheckStop(s, t) \/ TrySniff(s, t) \/ Count(s, t)

StreamingNext ==
  \/ stop_streaming
  \/ \E s \in Stream : start_streaming(s)
  \/ \E s \in Stream, t \in Thread : Worker(s, t)

StreamingSpec == StreamingInit /\ [][StreamingNext]_streaming_vars

\* Each thread is scheduled again and again; nobody has to start or stop.
FairStreamingSpec ==
  StreamingSpec /\ \A s \in Stream, t \in Thread : WF_streaming_vars(Worker(s, t))
-----------------------------------------------------------------------------
(* What streaming promises.                                                *)

StreamingTypeOK ==
  /\ stop \in BOOLEAN \cup {Absent}
  /\ max_packets \in [Stream -> Limits]
  /\ at \in [Stream -> [Thread -> Places]]
  /\ stops \in 0 .. MaxStops
  /\ told \in [Stream -> BOOLEAN]
  /\ stop = Absent <=> \A s \in Stream : ~Started(s)

\* A stream without a limit keeps all its threads until stop_streaming is called
\* after its own start, whatever happens around it: a stop before it was started,
\* which is taken back by the start, other streams that are started on the same
\* object before or after it, and threads of theirs that end because of their
\* limit or of an earlier stop (live_capture.py:254-263).
UnlimitedRunsOn ==
  \A s \in Stream : Started(s) /\ max_packets[s] = Absent /\ ~told[s] =>
    \A t \in Thread : Alive(s, t)

\* If the flag stays set, every thread of every stream comes to its end: a
\* thread never sleeps on, misses the flag or waits for another one
\* (live_capture.py:259).
StopForGoodEnds ==
  <>[](stop = TRUE) => <>[](\A s \in Stream, t \in Thread : ~Alive(s, t))
=============================================================================
