----------------------------- MODULE RangeReads ------------------------------
(***************************************************************************)
(* What a caller of the remote fetcher sees (StreamFetcher::read_range and *)
(* read_ranges): a call is answered with exactly the requested bytes of    *)
(* the source, in the order of the requests, or it fails.  No cache, no    *)
(* prefetch and no other caller is visible.                                *)
(*                                                                         *)
(* A byte of the source is named by its offset, so the bytes of a request  *)
(* are the identity on its span.                                           *)
(***************************************************************************)
EXTENDS Naturals, Sequences

CONSTANTS
  Threads,     \* the callers
  Calls        \* the reads they make: sequences of records [offset, len]

VARIABLES status, call, reply

rvars == <<status, call, reply>>

Span(r) == r.offset .. r.offset + r.len - 1

Source(r) == [p \in Span(r) |-> p]

Answer(c) == [i \in DOMAIN c |-> Source(c[i])]

Init ==
  /\ status = [t \in Threads |-> "idle"]
  /\ call = [t \in Threads |-> <<>>]
  /\ reply = [t \in Threads |-> <<>>]

\* The outcome of thread t's call c: not known yet, its bytes, or an error.
Outcome(t, c) ==
  \/ /\ status' = [status EXCEPT ![t] = "pending"]
     /\ UNCHANGED reply
  \/ /\ status' = [status EXCEPT ![t] = "done"]
     /\ reply' = [reply EXCEPT ![t] = Answer(c)]
  \/ /\ status' = [status EXCEPT ![t] = "failed"]
     /\ UNCHANGED reply

Call(t) ==
  /\ status[t] = "idle"
  /\ \E c \in Calls : call' = [call EXCEPT ![t] = c] /\ Outcome(t, c)

Finish(t) ==
  /\ status[t] = "pending"
  /\ Outcome(t, call[t])
  /\ UNCHANGED call

Return(t) ==
  /\ status[t] \in {"done", "failed"}
  /\ status' = [status EXCEPT ![t] = "idle"]
  /\ call' = [call EXCEPT ![t] = <<>>]
  /\ reply' = [reply EXCEPT ![t] = <<>>]

Next == \E t \in Threads : Call(t) \/ Finish(t) \/ Return(t)

Spec == Init /\ [][Next]_rvars
=============================================================================
