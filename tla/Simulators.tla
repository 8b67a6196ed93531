----------------------------- MODULE Simulators -----------------------------
(***************************************************************************)
(* The simulators of a conversation and the policy on revealing them,      *)
(* composed with its turns (module Conversation).  A simulator's hidden    *)
(* model is revealed at the second request; the first is refused.          *)
(*                                                                         *)
(* The number of open requests is a column of table simulators.  A turn    *)
(* reads all of them when it starts, counts in memory while its agent loop *)
(* handles tool calls (pre_dispatch and post_dispatch,                     *)
(* backend/src/app/services/simulator_interception.py), and writes those   *)
(* that changed when it is saved; the simulators it created are inserted   *)
(* then, with no request.                                                  *)
(*                                                                         *)
(* Of the tool calls of one reply at most one concerns a simulator: two in *)
(* one reply act like two in successive replies.                           *)
(***************************************************************************)
EXTENDS Conversation

CONSTANTS
    Sims,         \* simulators that may be created
    ForceReveal   \* settings.simulator_reveal_force

ASSUME SimulatorsAssumption == ForceReveal \in BOOLEAN

VARIABLES
    stored,                \* the rows of table simulators
    reveal_request_count,  \* their column
    existing,              \* existing_sims: the rows a turn has read
    previous,              \* their counts as read
    states,                \* simulator_states: the models a turn holds
    reveal_counts,         \* the counts of a turn (0 where it has none)
    newly_created,         \* newly_created_sims of a turn
    requests               \* history: the requests to reveal each simulator,
                           \* and how they were answered

simVars == <<stored, reveal_request_count, existing, previous, states, reveal_counts,
             newly_created, requests>>
allVars == <<convVars, simVars>>

Outcomes == {"refused", "revealed", "failed"}

SimulatorsTypeOK ==
    /\ ConversationTypeOK
    /\ stored \subseteq Sims
    /\ reveal_request_count \in [Sims -> 0..1]
    /\ existing \in [Turns -> SUBSET Sims]
    /\ previous \in [Turns -> [Sims -> 0..1]]
    /\ states \in [Turns -> SUBSET Sims]
    /\ reveal_counts \in [Turns -> [Sims -> 0..1]]
    /\ newly_created \in [Turns -> SUBSET Sims]
    /\ requests \in [Sims -> Seq([turn : Turns, outcome : Outcomes])]

NoRequests == [s \in Sims |-> 0]

SimulatorsInit ==
    /\ stored = {}
    /\ reveal_request_count = NoRequests
    /\ existing = [t \in Turns |-> {}]
    /\ previous = [t \in Turns |-> NoRequests]
    /\ states = [t \in Turns |-> {}]
    /\ reveal_counts = [t \in Turns |-> NoRequests]
    /\ newly_created = [t \in Turns |-> {}]
    /\ requests = [s \in Sims |-> <<>>]

Created == stored \cup UNION {newly_created[t] : t \in Turns}

-----------------------------------------------------------------------------
\* Step 5: list_simulators_for_conversation.
LoadSimulators(t) ==
    /\ existing' = [existing EXCEPT ![t] = stored]
    /\ previous' = [previous EXCEPT ![t] = reveal_request_count]
    /\ states' = [states EXCEPT ![t] = stored]
    /\ reveal_counts' = [reveal_counts EXCEPT ![t] = reveal_request_count]
    /\ UNCHANGED <<stored, reveal_request_count, newly_created, requests>>

\* create_simulator, after post_dispatch has taken the hidden model out.
CreateSimulator(t, s) ==
    /\ s \notin Created
    /\ states' = [states EXCEPT ![t] = @ \cup {s}]
    /\ newly_created' = [newly_created EXCEPT ![t] = @ \cup {s}]
    /\ UNCHANGED <<stored, reveal_request_count, existing, previous, reveal_counts, requests>>

\* The tool's answer: it may fail, and does so without the hidden model.
Respond(t, s, confirmed) ==
    \E outcome \in {"failed"} \cup IF s \notin states[t] THEN {}
                                    ELSE IF confirmed THEN {"revealed"} ELSE {"refused"} :
        requests' = [requests EXCEPT ![s] = Append(@, [turn |-> t, outcome |-> outcome])]

\* Mutants of RequestReveal: a reveal does not reset the count, or counts too.
RequestRevealKeeping(t, s) ==
    LET confirmed == ForceReveal \/ reveal_counts[t][s] >= 1
    IN  /\ s \in Created
        /\ reveal_counts' = [reveal_counts EXCEPT ![t][s] = 1]
        /\ Respond(t, s, confirmed)
        /\ UNCHANGED <<stored, reveal_request_count, existing, previous, states, newly_created>>

RequestRevealCounting(t, s) ==
    LET confirmed == ForceReveal \/ reveal_counts[t][s] >= 1
    IN  /\ s \in Created
        /\ reveal_counts' = [reveal_counts EXCEPT ![t][s] = @ + 1]
        /\ Respond(t, s, confirmed)
        /\ UNCHANGED <<stored, reveal_request_count, existing, previous, states, newly_created>>

\* reveal_simulator: pre_dispatch counts the request and says whether it is
\* confirmed.
RequestReveal(t, s) ==
    LET confirmed == ForceReveal \/ reveal_counts[t][s] >= 1
    IN  /\ s \in Created
        /\ reveal_counts' = [reveal_counts EXCEPT ![t][s] = IF confirmed THEN 0 ELSE @ + 1]
        /\ Respond(t, s, confirmed)
        /\ UNCHANGED <<stored, reveal_request_count, existing, previous, states, newly_created>>

\* The turn is over and its memory gone (newly_created is kept: no two
\* simulators have the same id).
Forget(t) ==
    /\ previous' = [previous EXCEPT ![t] = NoRequests]
    /\ states' = [states EXCEPT ![t] = {}]
    /\ reveal_counts' = [reveal_counts EXCEPT ![t] = NoRequests]
    /\ UNCHANGED <<existing, newly_created, requests>>

\* Mutant of StoreSimulators: the counts are not written back.
StoreOnlyNew(t) ==
    /\ stored' = stored \cup newly_created[t]
    /\ UNCHANGED reveal_request_count
    /\ Forget(t)

\* Step 8: the new simulators, then the counts that differ from those read.
StoreSimulators(t) ==
    /\ stored' = stored \cup newly_created[t]
    /\ reveal_request_count' =
          [s \in Sims |-> IF s \in existing[t] /\ reveal_counts[t][s] # previous[t][s]
                          THEN reveal_counts[t][s] ELSE reveal_request_count[s]]
    /\ Forget(t)

\* What the tool calls of a reply do to the simulators.
SimulatorCall(t) ==
    \/ UNCHANGED simVars
    \/ \E s \in Sims : CreateSimulator(t, s) \/ RequestReveal(t, s)

-----------------------------------------------------------------------------
Next ==
    \E t \in Turns :
        \/ /\ Create(t) \/ Open(t) \/ ReadHistory(t) \/ Ask(t) \/ LoopFails(t)
           /\ UNCHANGED simVars
        \/ Abort(t) /\ Forget(t) /\ UNCHANGED <<stored, reveal_request_count>>
        \/ Start(t) /\ LoadSimulators(t)
        \/ \E text \in Texts, n \in 0..MaxBlocks :
              /\ ToolReply(t, text, n) \/ LastReply(t, text, n)
              /\ IF n = 0 THEN UNCHANGED simVars ELSE SimulatorCall(t)
        \/ Save(t) /\ StoreSimulators(t)

Init == ConversationInit /\ SimulatorsInit
Spec == Init /\ [][Next]_allVars
-----------------------------------------------------------------------------
(* Properties.                                                             *)

Revealed(s) == {i \in DOMAIN requests[s] : requests[s][i].outcome = "revealed"}

\* A turn that is under way, or was saved with its tool calls: its requests are
\* counted.  Those of a turn that aborted are forgotten.
Kept(t) == phase[t] # "over" \/ \E r \in RowsOf(t) : r.call # 0
Known(s) == {i \in DOMAIN requests[s] : Kept(requests[s][i].turn)}

\* "The agent loop requires at least two requests": no model is revealed at
\* the first request, however turns overlap or fail, and in turns that follow
\* one another each reveal takes two requests, unless a turn that revealed the
\* model aborts: then the next request reveals it again.  (A request whose tool
\* fails counts, though the user was not told of it.)
RevealNeedsTwoRequests ==
    ~ForceReveal =>
        \A s \in Sims :
            /\ 1 \notin Revealed(s)
            /\ ~overlapped => 2 * Cardinality(Revealed(s) \cap Known(s)) <= Cardinality(Known(s))

\* "... and reveal the model on the second request": when the turn that was
\* refused has been saved, and the simulator was there when that turn began,
\* the next request is not refused again.
SecondRequestReveals ==
    ~overlapped =>
        \A s \in Sims : \A i \in DOMAIN requests[s] \ {1} :
            LET before == requests[s][i - 1]
            IN  ~(/\ before.outcome = "refused" /\ requests[s][i].outcome = "refused"
                  /\ \E r \in RowsOf(before.turn) : r.call # 0
                  /\ s \in existing[before.turn])
=============================================================================
