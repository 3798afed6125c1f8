---------------------------- MODULE ClientThreads ----------------------------
(***************************************************************************)
(* What the two faces of om-chat share (cli/src/main.cpp, cli/src/tui.cpp): *)
(* a main thread that reads input, a network thread that drives the engine, *)
(* the queue of commands between them, guarded by a mutex of its own, and   *)
(* the flag `running` that either thread may clear.                         *)
(*                                                                         *)
(* The engine is what its callers see of it; module Engine has the rest.    *)
(* What is printed and how is left out, and so is the status line.          *)
(***************************************************************************)
EXTENDS Naturals, Sequences, SequencesExt

CONSTANTS
    Contacts,   \* public keys of the other peers
    Nobody,     \* no peer and no name
    MaxLines,   \* bound: commands submitted
    MaxEvents   \* bound: things the network brings

VARIABLES
    ui,         \* where the main thread is
    net,        \* where the network thread is
    running,    \* running_
    queue,      \* queue_
    batch,      \* what the network thread took out of the queue
    engine,     \* engine_
    events,     \* things the network brought
    typed,      \* history: commands submitted, in order
    handled     \* history: commands handled, in order, and whom they were about

ASSUME ThreadsAssumption ==
    MaxLines \in Nat /\ MaxEvents \in Nat /\ Nobody \notin Contacts

threads == <<ui, net, running, queue, batch, engine, events, typed, handled>>

\* What open_store may find: contacts accepted earlier, nothing said yet.
Loaded ==
    {[trust |-> [p \in Contacts |-> IF p \in accepted THEN "Accepted" ELSE "none"],
      requests |-> <<>>,                        \* pending_requests()
      asked |-> {},                             \* outgoing_requests_
      last |-> [p \in Contacts |-> 0],          \* conversation().back().timestamp
      stored |-> accepted]                      \* history: whom the store knew
        : accepted \in SUBSET Contacts}

ThreadsInit ==
    /\ ui = "start" /\ net = "none"
    /\ running = TRUE
    /\ queue = <<>> /\ batch = <<>>
    /\ engine \in Loaded
    /\ events = 0
    /\ typed = <<>> /\ handled = <<>>

-----------------------------------------------------------------------------
(* The engine's calls and what poll() may do to it *)

send_contact_request(e, p) ==
    IF e.trust[p] = "Accepted" THEN e
    ELSE [e EXCEPT !.trust[p] = "Pending", !.asked = @ \cup {p}]

HasRequest(e, p) == Contains(e.requests, p)

\* accept_contact and reject_contact do nothing without a pending request; a peer
\* has at most one (add_request).
DecideContact(e, p, trust) ==
    IF HasRequest(e, p)
    THEN [e EXCEPT !.trust[p] = trust,
                   !.requests = RemoveAt(@, CHOOSE i \in DOMAIN @ : @[i] = p)]
    ELSE e

\* append_message, in the same second as the newest message or later.
Record(e, p, t) == [e EXCEPT !.last[p] = t]
Seconds(e) == {t \in 1 .. MaxLines + MaxEvents :
                  /\ \A p \in Contacts : e.last[p] <= t
                  /\ t = 1 \/ \E p \in Contacts : t \in {e.last[p], e.last[p] + 1}}

Requested(e, p) == [e EXCEPT !.trust[p] = "Pending", !.requests = Append(@, p)]
Responded(e, p, trust) == [e EXCEPT !.trust[p] = trust, !.asked = @ \ {p}]

-----------------------------------------------------------------------------
(* The queue *)

\* submit(), under the queue's mutex.
Submit(c) ==
    /\ Len(typed) < MaxLines
    /\ queue' = Append(queue, c)
    /\ typed' = Append(typed, c)

\* Faults: the queue keeps what was taken; what was in it is lost.
TakeCopy == batch' = queue /\ queue' = queue
TakeNothing == batch' = <<>> /\ queue' = <<>>

\* lines.swap(queue_), under the queue's mutex.
Take == batch' = queue /\ queue' = <<>>

\* The next command of the batch; `peer` is whom it turned out to be about.
HandleNext(peer) ==
    /\ batch' = Tail(batch)
    /\ handled' = Append(handled, [command |-> Head(batch), on |-> peer])

\* Fault: the loop does not look at the flag.
StayForever == TRUE

\* while (running_), on the network thread.
Stay == running

\* net.join() returns when the network thread has ended.
Join ==
    /\ ui = "joining"
    /\ net = "ended"
    /\ ui' = "exited"
    /\ UNCHANGED <<net, running, queue, batch, engine, events, typed, handled>>

-----------------------------------------------------------------------------
(* Properties *)

\* Commands are handled in the order they were typed, each at most once, and
\* none is skipped: what was not handled is the end of what was typed
\* (submit, the swap in run() and net_loop()).
HandledAsTyped ==
    IsPrefix([i \in DOMAIN handled |-> handled[i].command], typed)

\* A command is handled, unless om-chat is told to stop first.
LineHandled ==
    \A n \in 1 .. MaxLines : Len(typed) >= n ~> Len(handled) >= n \/ ~running

\* Once told to stop, by either thread, om-chat exits, unless the main thread
\* waits for a line: the network thread sees the flag, is done with its batch
\* and lets go of the engine, and the main thread joins it.
Stops == ~running /\ ui # "getline" ~> ui = "exited"
=============================================================================
