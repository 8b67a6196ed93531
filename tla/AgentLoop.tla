------------------------------ MODULE AgentLoop ------------------------------
(***************************************************************************)
(* The agent loop of one chat turn: _run_agent_loop, which runs in a       *)
(* worker thread (backend/src/app/services/agent_loop.py).  It calls the   *)
(* model, runs the tools the model asks for, feeds their results back and  *)
(* repeats, at most MaxAgentTurns times.  Whatever happens it puts events  *)
(* on a thread-safe queue, which run_chat drains (module ChatTurn), and    *)
(* ends the queue with a sentinel.                                         *)
(*                                                                         *)
(* Texts, tool inputs and outputs, token counts, costs and timings are     *)
(* left out: an event is its type, a message is its role and the tools it  *)
(* names.  The model's reply is an input, chosen freely within the bounds. *)
(***************************************************************************)
EXTENDS Naturals, Sequences, FiniteSets

CONSTANTS
    MaxAgentTurns,  \* MAX_AGENT_TURNS: replies the loop asks for at most
    Tools,          \* the tools the model may call
    MaxTokens,      \* bound: text deltas in the whole turn
    MaxToolCalls    \* bound: tool_use blocks in one reply

\* The app-level tools, answered in the process and shown as a plan.
MetaTools == {"record_plan", "update_plan"}

\* The tools whose success leaves something to save once the turn is over.
DesignTool == "generate_design"
SimulatorTool == "create_simulator"

ASSUME LoopAssumption ==
    /\ MaxAgentTurns \in Nat \ {0}
    /\ MaxTokens \in Nat
    /\ MaxToolCalls \in Nat
    /\ Tools \subseteq STRING

VARIABLES
    worker,       \* where the thread is
    agentTurn,    \* agent_turn
    tokens,       \* text deltas received so far
    calls,        \* tool_use blocks of the reply still to be executed
    results,      \* tools answered so far for the reply (tool_results)
    queue,        \* event_queue
    newMessages,  \* new_messages: what run_chat will persist
    toolRecords,  \* tool_call_records
    newSims       \* length of newly_created_sims

loopVars == <<worker, agentTurn, tokens, calls, results, queue, newMessages,
              toolRecords, newSims>>

WorkerStates == {"waiting", "looping", "thinking", "streaming", "dispatching",
                 "calling", "leaving", "returned", "dead"}

\* What the loop puts on the queue.  An "unserialisable" item is a
\* tool_result whose output json.dumps refuses.
LoopEvents == {"phase", "token", "plan", "plan_update", "tool_start",
               "tool_result", "done", "error"}
Items == LoopEvents \cup {"unserialisable", "sentinel"}

\* An assistant message names the tools it uses, a user message of the loop
\* the tools it answers.
Message == [role : {"assistant", "user"}, tools : Seq(Tools)]
ToolRecord == [tool : Tools, status : {"success", "error"}]

LoopTypeOK ==
    /\ worker \in WorkerStates
    /\ agentTurn \in 0..MaxAgentTurns
    /\ tokens \in 0..MaxTokens
    /\ calls \in Seq(Tools)
    /\ results \in Seq(Tools)
    /\ queue \in Seq(Items)
    /\ newMessages \in Seq(Message)
    /\ toolRecords \in Seq(ToolRecord)
    /\ newSims \in Nat

LoopInit ==
    /\ worker = "waiting"
    /\ agentTurn = 0
    /\ tokens = 0
    /\ calls = <<>>
    /\ results = <<>>
    /\ queue = <<>>
    /\ newMessages = <<>>
    /\ toolRecords = <<>>
    /\ newSims = 0

-----------------------------------------------------------------------------
Put(items) == queue' = queue \o items
Say(role, tools) == newMessages' = Append(newMessages, [role |-> role, tools |-> tools])

\* run_in_executor hands the loop to a thread.
StartWorker ==
    /\ worker = "waiting"
    /\ worker' = "looping"
    /\ UNCHANGED <<agentTurn, tokens, calls, results, queue, newMessages,
                   toolRecords, newSims>>

\* The top of the while loop: one more call of the model.
BeginTurn ==
    /\ worker = "looping"
    /\ agentTurn < MaxAgentTurns
    /\ agentTurn' = agentTurn + 1
    /\ Put(<<"phase">>)
    /\ worker' = "thinking"
    /\ UNCHANGED <<tokens, calls, results, newMessages, toolRecords, newSims>>

\* Mutant of Exhaust: running out of turns is not reported.
ExhaustSilently ==
    /\ worker = "looping"
    /\ agentTurn = MaxAgentTurns
    /\ worker' = "leaving"
    /\ UNCHANGED <<agentTurn, tokens, calls, results, queue, newMessages, toolRecords, newSims>>

\* The while loop's else branch.
Exhaust ==
    /\ worker = "looping"
    /\ agentTurn = MaxAgentTurns
    /\ Put(<<"error">>)
    /\ worker' = "leaving"
    /\ UNCHANGED <<agentTurn, tokens, calls, results, newMessages, toolRecords, newSims>>

\* A text delta; the first one of a reply announces the streaming phase.
ReceiveDelta ==
    /\ worker \in {"thinking", "streaming"}
    /\ tokens < MaxTokens
    /\ tokens' = tokens + 1
    /\ Put(IF worker = "thinking" THEN <<"phase", "token">> ELSE <<"token">>)
    /\ worker' = "streaming"
    /\ UNCHANGED <<agentTurn, calls, results, newMessages, toolRecords, newSims>>

StopReasons == {"end_turn", "max_tokens", "tool_use"}

\* The stream ends with a reply that asks for no tool, or that was cut off at
\* the token limit (stop_reason "max_tokens"), in which case it may hold
\* tool_use blocks all the same.  The reply is kept either way.
FinalReply(stop, uses) ==
    /\ worker \in {"thinking", "streaming"}
    /\ stop # "tool_use" \/ uses = <<>>
    /\ Say("assistant", uses)
    /\ Put(<<"phase", "done">>)
    /\ worker' = "leaving"
    /\ UNCHANGED <<agentTurn, tokens, calls, results, toolRecords, newSims>>

\* The stream ends with a reply that asks for tools.
ToolReply(uses) ==
    /\ worker \in {"thinking", "streaming"}
    /\ uses # <<>>
    /\ Say("assistant", uses)
    /\ calls' = uses
    /\ results' = <<>>
    /\ worker' = "dispatching"
    /\ UNCHANGED <<agentTurn, tokens, queue, toolRecords, newSims>>

\* The API call fails: authentication, rate limit, connection, time-out,
\* server error, or anything else.  The loop ends with one error event.
ApiFails ==
    /\ worker \in {"thinking", "streaming"}
    /\ Put(<<"error">>)
    /\ worker' = "leaving"
    /\ UNCHANGED <<agentTurn, tokens, calls, results, newMessages, toolRecords, newSims>>

\* The next tool_use block is announced: meta tools as a plan, the others as
\* a phase and a tool_start.
Announcement(tool) ==
    CASE tool = "record_plan" -> <<"plan">>
      [] tool = "update_plan" -> <<"plan_update">>
      [] OTHER -> <<"phase", "tool_start">>

CallTool ==
    /\ worker = "dispatching"
    /\ calls # <<>>
    /\ Put(Announcement(Head(calls)))
    /\ worker' = "calling"
    /\ UNCHANGED <<agentTurn, tokens, calls, results, newMessages, toolRecords, newSims>>

\* Mutants of Answer: an error result is not recorded, or not given back to
\* the model.
AnswerWithoutRecord(status) ==
    /\ worker = "calling"
    /\ Put(IF Head(calls) \in MetaTools THEN <<>> ELSE <<"tool_result">>)
    /\ results' = Append(results, Head(calls))
    /\ toolRecords' = IF status = "error" THEN toolRecords
                      ELSE Append(toolRecords, [tool |-> Head(calls), status |-> status])
    /\ newSims' = IF Head(calls) = SimulatorTool /\ status = "success"
                  THEN newSims + 1 ELSE newSims
    /\ calls' = Tail(calls)
    /\ worker' = "dispatching"
    /\ UNCHANGED <<agentTurn, tokens, newMessages>>

AnswerWithoutResult(status) ==
    /\ worker = "calling"
    /\ Put(IF Head(calls) \in MetaTools THEN <<>> ELSE <<"tool_result">>)
    /\ results' = IF status = "error" THEN results ELSE Append(results, Head(calls))
    /\ toolRecords' = Append(toolRecords, [tool |-> Head(calls), status |-> status])
    /\ newSims' = IF Head(calls) = SimulatorTool /\ status = "success"
                  THEN newSims + 1 ELSE newSims
    /\ calls' = Tail(calls)
    /\ worker' = "dispatching"
    /\ UNCHANGED <<agentTurn, tokens, newMessages>>

\* The called tool answers: with a result, or with a ToolExecutionError,
\* which is a result too.  A new simulator's hidden state is stashed.
Answer(status) ==
    LET tool == Head(calls)
    IN  /\ worker = "calling"
        /\ Put(IF tool \in MetaTools THEN <<>> ELSE <<"tool_result">>)
        /\ results' = Append(results, tool)
        /\ toolRecords' = Append(toolRecords, [tool |-> tool, status |-> status])
        /\ newSims' = IF tool = SimulatorTool /\ status = "success"
                      THEN newSims + 1 ELSE newSims
        /\ calls' = Tail(calls)
        /\ worker' = "dispatching"
        /\ UNCHANGED <<agentTurn, tokens, newMessages>>

\* Any other exception while a tool is handled leaves the loop: before the
\* tool_result event, or after it when the result cannot be serialised.
ToolBreaks ==
    /\ worker = "calling"
    /\ \/ Put(<<"error">>) /\ UNCHANGED newSims
       \/ /\ Head(calls) \notin MetaTools
          /\ Put(<<"unserialisable", "error">>)
          /\ newSims' = IF Head(calls) = SimulatorTool THEN newSims + 1 ELSE newSims
    /\ worker' = "leaving"
    /\ UNCHANGED <<agentTurn, tokens, calls, results, newMessages, toolRecords>>

\* All tools of the reply are answered: their results become a user message.
EndReply ==
    /\ worker = "dispatching"
    /\ calls = <<>>
    /\ Say("user", results)
    /\ worker' = "looping"
    /\ UNCHANGED <<agentTurn, tokens, calls, results, queue, toolRecords, newSims>>

\* Mutant of Leave: no sentinel.
LeaveQuietly ==
    /\ worker = "leaving"
    /\ worker' = "returned"
    /\ UNCHANGED <<agentTurn, tokens, calls, results, queue, newMessages, toolRecords, newSims>>

\* The finally block.
Leave ==
    /\ worker = "leaving"
    /\ Put(<<"sentinel">>)
    /\ worker' = "returned"
    /\ UNCHANGED <<agentTurn, tokens, calls, results, newMessages, toolRecords, newSims>>

\* The tool_use blocks of one reply.
Uses == UNION {[1..n -> Tools] : n \in 0..MaxToolCalls}

LoopStep ==
    \/ BeginTurn \/ Exhaust \/ ReceiveDelta \/ ApiFails
    \/ \E stop \in StopReasons, uses \in Uses :
          /\ stop = "end_turn" => uses = <<>>
          /\ FinalReply(stop, uses)
    \/ \E uses \in Uses : ToolReply(uses)
    \/ CallTool
    \/ \E status \in {"success", "error"} : Answer(status)
    \/ ToolBreaks \/ EndReply \/ Leave
=============================================================================
