------------------------------ MODULE MultiRpc ------------------------------
(***************************************************************************)
(* rpc.py, class MultiRpcProvider: coroutines of one event loop share the  *)
(* index of the endpoint in use and the one cached provider for it.  Each  *)
(* call tries endpoint after endpoint, and gives up control whenever it    *)
(* awaits an answer or the closing of a provider.                          *)
(***************************************************************************)
EXTENDS Integers

CONSTANTS
  Requests,   \* calls of make_request
  Probes,     \* calls of is_connected, other ones
  Cancellable,\* those of them that run under a timeout of their caller
  N           \* number of endpoints, at least one

Calls == Requests \union Probes
Endpoints == 0 .. N - 1

VARIABLES
  index,    \* _current_index
  current,  \* _current_provider, as the set of at most one provider
  open,     \* the providers whose session is open
  call,     \* per call: where it is, its loop variable i, its candidate, and
            \* whether that was the cached provider when it was chosen
  tried,    \* history: the endpoints a call has sent its request to
  overtaken \* history: calls during which another call moved the index

vars == <<index, current, open, call, tried, overtaken>>

Nobody == [by |-> "nobody", i |-> 0, url |-> 0]

Init ==
  /\ index = 0 /\ current = {} /\ open = {}
  /\ call = [c \in Calls |-> [pc |-> "new", i |-> 0, cand |-> Nobody,
                              cached |-> FALSE, closing |-> Nobody]]
  /\ tried = [c \in Calls |-> {}]
  /\ overtaken = {}

Ended == {"ok", "failed", "cancelled"}
Running == {c \in Calls : call[c].pc \notin {"new"} \union Ended}

-----------------------------------------------------------------------------
\* The loop body up to its first await: the cached provider in the first
\* iteration, one built for the purpose in all others.  The index is read
\* again in every iteration.
Try(c) ==
  LET i == call[c].i
      url == (index + i) % N
      cached == i = 0 /\ current # {}
      built == [by |-> c, i |-> i, url |-> url]
  IN /\ call[c].pc \in {"new", "next"}
     /\ \E p \in IF cached THEN current ELSE {built} :
          call' = [call EXCEPT ![c] = [@ EXCEPT !.pc = "sent", !.cand = p,
                                                !.cached = cached]]
     /\ open' = IF cached THEN open ELSE open \union {built}
     /\ tried' = [tried EXCEPT ![c] = @ \union {url}]
     /\ UNCHANGED <<index, current, overtaken>>

\* Mutant: one iteration too few.
AfterTooEarly(c) == IF call[c].i + 2 >= N THEN "failed" ELSE "next"

\* The state after iteration i, of which the last one raises or gives up.
After(c) == IF call[c].i + 1 = N THEN "failed" ELSE "next"

\* The provider that was current until now is closed before returning.
CloseOld(c) ==
  IF current = {} THEN call' = [call EXCEPT ![c].pc = "ok"]
  ELSE \E old \in current :
         call' = [call EXCEPT ![c].pc = "closing", ![c].closing = old]

\* Mutant: the index is left where the loop began.
IndexKept(c) == index

IndexAdopted(c) == call[c].cand.url

\* make_request gets its answer: a provider that was not the cached one is
\* adopted, whatever other calls have adopted in the meantime.
Answered(c) ==
  /\ c \in Requests
  /\ call[c].pc = "sent" /\ call[c].cand \in open
  /\ IF call[c].cached
     THEN /\ call' = [call EXCEPT ![c].pc = "ok"]
          /\ UNCHANGED <<index, current, overtaken>>
     ELSE /\ index' = IndexAdopted(c)
          /\ current' = {call[c].cand}
          /\ CloseOld(c)
          /\ overtaken' = IF index' = index THEN overtaken
                          ELSE overtaken \union (Running \ {c})
  /\ UNCHANGED <<open, tried>>

\* Mutant: a failed fallback is forgotten without being closed.
NextAtOnce(c) == call' = [call EXCEPT ![c].pc = After(c), ![c].i = @ + 1]

\* Mutant: the same endpoint is tried again.
RetriesSame(c) == call' = [call EXCEPT ![c].pc = "next"]

\* The candidate is closed unless it is the cached provider.
Retire(c) ==
  IF call[c].cached
  THEN call' = [call EXCEPT ![c].pc = After(c), ![c].i = @ + 1]
  ELSE call' = [call EXCEPT ![c].pc = "retiring", ![c].closing = call[c].cand]

\* The endpoint raises, or the session was closed under the request.
Raised(c) ==
  /\ call[c].pc = "sent"
  /\ Retire(c)
  /\ UNCHANGED <<index, current, open, tried, overtaken>>

\* is_connected never adopts: it closes what it built, then returns True.
Connected(c) ==
  /\ c \in Probes
  /\ call[c].pc = "sent" /\ call[c].cand \in open
  /\ call' = IF call[c].cached THEN [call EXCEPT ![c].pc = "ok"]
             ELSE [call EXCEPT ![c].pc = "closing", ![c].closing = call[c].cand]
  /\ UNCHANGED <<index, current, open, tried, overtaken>>

\* The caller's timeout cancels the call while it waits for an answer.  That
\* raises a CancelledError, which `except Exception` lets pass; only
\* is_connected has a `finally`.
Cancelled(c) ==
  /\ c \in Cancellable
  /\ call[c].pc = "sent"
  /\ call' = IF c \in Probes /\ ~call[c].cached
             THEN [call EXCEPT ![c].pc = "unwinding", ![c].closing = call[c].cand]
             ELSE [call EXCEPT ![c].pc = "cancelled"]
  /\ UNCHANGED <<index, current, open, tried, overtaken>>

\* _close_provider returns; it never raises.
Closed(c) ==
  /\ call[c].pc \in {"closing", "retiring", "unwinding"}
  /\ open' = open \ {call[c].closing}
  /\ call' = CASE call[c].pc = "closing" -> [call EXCEPT ![c].pc = "ok"]
               [] call[c].pc = "unwinding" -> [call EXCEPT ![c].pc = "cancelled"]
               [] OTHER -> [call EXCEPT ![c].pc = After(c), ![c].i = @ + 1]
  /\ UNCHANGED <<index, current, tried, overtaken>>

Step(c) ==
  Try(c) \/ Answered(c) \/ Raised(c) \/ Connected(c) \/ Cancelled(c) \/ Closed(c)

\* Every call has returned, raised or been cancelled.
Done == Running = {} /\ \A c \in Calls : call[c].pc # "new"

Next == (\E c \in Calls : Step(c)) \/ (Done /\ UNCHANGED vars)

Spec == Init /\ [][Next]_vars

\* Every await of a call ends: an endpoint answers or the request times out.
FairSpec == Spec /\ \A c \in Calls : WF_vars(Step(c))

-----------------------------------------------------------------------------
Providers == [by : Calls, i : Endpoints, url : Endpoints]

\* The cached provider is a single one.
TypeOK ==
  /\ index \in Endpoints
  /\ current \subseteq Providers /\ \A p, q \in current : p = q
  /\ open \subseteq Providers
  /\ tried \in [Calls -> SUBSET Endpoints] /\ overtaken \subseteq Calls
  /\ call \in [Calls -> [pc : {"new", "sent", "next", "closing", "retiring",
                               "unwinding"} \union Ended,
                         i : 0 .. N, cand : Providers \union {Nobody},
                         cached : BOOLEAN, closing : Providers \union {Nobody}]]

\* The cached provider belongs to the endpoint that the index names and is
\* open, however many calls adopt and close providers at once ("concurrent
\* coroutines that both succeed ... acceptable last-write-wins outcome").
CurrentUsable == \A p \in current : p.url = index /\ p \in open

\* "create a fresh temporary one for every fallback so unused endpoint objects
\* are never retained" (rpc.py:164-166): an open provider is the cached one or
\* in the hands of exactly the call that will close or adopt it.
NothingRetained ==
  \A p \in open \ current :
    \E c \in Running : \A d \in Running :
      (\/ call[d].closing = p
       \/ call[d].pc = "sent" /\ ~call[d].cached /\ call[d].cand = p) <=> c = d

\* A call that fails (an is_connected that returns False) has tried every
\* endpoint, if no other call moved the index while it was running.
TriesAllUnlessOvertaken ==
  \A c \in Calls \ overtaken : call[c].pc = "failed" => tried[c] = Endpoints

\* Every call comes to an end.
Terminates == \A c \in Calls : <>(call[c].pc \in Ended)
=============================================================================
