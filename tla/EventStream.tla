----------------------------- MODULE EventStream -----------------------------
(***************************************************************************)
(* What a chat turn promises to a client that may lose its connection:     *)
(* a stream of numbered events backed by a log.  Events are issued in      *)
(* order, and logged in order.  Only text may be shown to the client       *)
(* before it is in the log; every other event is settled in the log (or    *)
(* known to be lost) before it is shown.  A stream that finishes has       *)
(* settled every event it issued, and none is added to the log afterwards. *)
(***************************************************************************)
EXTENDS Naturals

VARIABLES
    issued,   \* sequence number of the last event issued
    text,     \* that event is a piece of text
    settled,  \* the events 1..settled are in the log, or lost for it
    durable,  \* the events in the log
    shown,    \* events shown to the client
    status    \* "open", "finished", or "broken" by a cancellation or a crash

vars == <<issued, text, settled, durable, shown, status>>

TypeOK ==
    /\ issued \in Nat
    /\ text \in BOOLEAN
    /\ settled \in 0..issued
    /\ durable \subseteq 1..issued
    /\ shown \in 0..issued
    /\ status \in {"open", "finished", "broken"}

Init ==
    /\ issued = 0
    /\ text = FALSE
    /\ settled = 0
    /\ durable = {}
    /\ shown = 0
    /\ status = "open"

\* The next events up to k go to the log, or are lost for it.
LogUpTo(k) == durable' \in {durable, durable \cup (settled + 1)..k}

\* The next event, issued when the previous one has been shown; one that is
\* not for the log at all counts as settled.
Issue ==
    /\ status = "open"
    /\ issued = shown
    /\ issued' = issued + 1
    /\ text' \in BOOLEAN
    /\ settled' \in {settled, issued'}
    /\ settled' = issued' => settled = issued
    /\ UNCHANGED <<durable, shown, status>>

Settle ==
    /\ status = "open"
    /\ settled' \in settled..issued
    /\ LogUpTo(settled')
    /\ UNCHANGED <<issued, text, shown, status>>

Show ==
    /\ status = "open"
    /\ shown < issued
    /\ text \/ settled = issued
    /\ shown' = shown + 1
    /\ UNCHANGED <<issued, text, settled, durable, status>>

\* The stream is closed, or breaks: some of what was not settled still goes
\* to the log, and nothing after that.
Close(how) ==
    /\ status = "open"
    /\ settled' = issued
    /\ \E k \in settled..issued : LogUpTo(k)
    /\ status' = how
    /\ UNCHANGED <<issued, text, shown>>

Finish == Close("finished")
Break == Close("broken")

Next == Issue \/ Settle \/ Show \/ Finish \/ Break

Spec == Init /\ [][Next]_vars
=============================================================================
