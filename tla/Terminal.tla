------------------------------ MODULE Terminal ------------------------------
(***************************************************************************)
(* The full-screen client (Tui in cli/src/tui.cpp).  The main thread takes  *)
(* a snapshot of the engine under mtx_, draws it, waits a while for a key   *)
(* and acts on the snapshot; the network thread executes commands and polls *)
(* under mtx_.  mtx_ is held by the network thread while net = "exec";      *)
(* nobody else holds it across steps.                                       *)
(*                                                                         *)
(* A word typed before Enter is one key here.  Scrolling, layout and the    *)
(* status line are left out.                                                *)
(***************************************************************************)
EXTENDS ClientThreads, FiniteSetsExt

CONSTANT
    Words       \* what is typed before Enter: a text or a command

VARIABLES
    items,      \* items_: chats, newest first, then requests
    selected,   \* selected_: a row of items_, from 0
    input,      \* input_
    drawn       \* history: the item last drawn as selected

screen == <<items, selected, input, drawn>>

Nothing == ""

Item(p, is_request) == [pk |-> p, is_request |-> is_request]
NoItem == Item(Nobody, FALSE)

Command(cmd, p) == [cmd |-> cmd, peer |-> p, drawn |-> NoItem]
\* A command about the selected row.
Aimed(cmd, p) == [cmd |-> cmd, peer |-> p, drawn |-> drawn]

ScreenInit ==
    /\ items = <<>>
    /\ selected = 0
    /\ input = Nothing
    /\ drawn = NoItem

-----------------------------------------------------------------------------
(* The network thread: net_loop() *)

TakeCommands ==
    /\ net = "loop"
    /\ \/ Stay /\ Take /\ net' = "taken"
       \/ ~Stay /\ net' = "ended" /\ UNCHANGED <<queue, batch>>
    /\ UNCHANGED <<ui, running, engine, events, typed, handled, screen>>

\* lock_guard lk(mtx_)
Lock ==
    /\ net = "taken"
    /\ net' = "exec"
    /\ UNCHANGED <<ui, running, queue, batch, engine, events, typed, handled, screen>>

\* do_add names the peer, which makes it a Pending contact, and sends the
\* request if the peer is found.
do_add(p) ==
    LET named == IF engine.trust[p] = "none" THEN [engine EXCEPT !.trust[p] = "Pending"]
                 ELSE engine
    IN  engine' \in {named, send_contact_request(named, p)}

do_decide(p, cmd) ==
    engine' = DecideContact(engine, p, IF cmd = "/accept" THEN "Accepted" ELSE "Rejected")

\* engine_.send, to an accepted contact, reached or not.
do_send(p) ==
    \/ UNCHANGED engine
    \/ /\ engine.trust[p] = "Accepted"
       /\ engine' \in {Record(engine, p, t) : t \in Seconds(engine)}

\* Fault: a command is about the row selected when it is executed.
SelectedNow(c) == IF selected < Len(items) THEN items[selected + 1].pk ELSE c.peer

\* The command names its peer by public key.
PeerOf(c) == c.peer

\* exec(), for every command of the batch, also the ones after /quit.
Exec ==
    /\ net = "exec"
    /\ batch # <<>>
    /\ LET c == Head(batch) IN
       /\ HandleNext(PeerOf(c))
       /\ \/ c.cmd = "/add" /\ do_add(PeerOf(c))
          \/ c.cmd \in {"/accept", "/reject"} /\ do_decide(PeerOf(c), c.cmd)
          \/ c.cmd = "/send" /\ do_send(PeerOf(c))
          \/ c.cmd \in {"/quit", "/id"} /\ UNCHANGED engine
       /\ running' = (running /\ c.cmd # "/quit")
    /\ UNCHANGED <<ui, net, queue, events, typed, screen>>

\* while (engine_.poll(0)), with nobody to tell.
PollAll ==
    /\ net = "exec"
    /\ batch = <<>>
    /\ events < MaxEvents /\ events' = events + 1
    /\ \E p \in Contacts :
          \/ engine.trust[p] = "none" /\ engine' = Requested(engine, p)
          \/ /\ p \in engine.asked
             /\ engine' \in {Responded(engine, p, t) : t \in {"Accepted", "Rejected"}}
          \/ /\ engine.trust[p] = "Accepted"
             /\ engine' \in {Record(engine, p, t) : t \in Seconds(engine)}
    /\ UNCHANGED <<ui, net, running, queue, batch, typed, handled, screen>>

\* The heartbeat and the announcement leave all this alone (module Presence);
\* then the lock is released.
Unlock ==
    /\ net = "exec"
    /\ batch = <<>>
    /\ net' = "loop"
    /\ UNCHANGED <<ui, running, queue, batch, engine, events, typed, handled, screen>>

-----------------------------------------------------------------------------
(* The main thread: run(), ui_loop() *)

\* run() gives up when it cannot bind, before there is a second thread.
Start ==
    /\ ui = "start"
    /\ \/ ui' = "exited" /\ UNCHANGED net
       \/ ui' = "loop" /\ net' = "loop"
    /\ UNCHANGED <<running, queue, batch, engine, events, typed, handled, screen>>

\* The order of contacts(), fixed: std::sort gives equal rows an order that
\* depends on nothing else here.
ContactOrder == SetToSeq(Contacts)

\* Accepted contacts, the one with the newest message first.
Chats == SortSeq(SelectSeq(ContactOrder, LAMBDA p : engine.trust[p] = "Accepted"),
                 LAMBDA p, q : engine.last[p] > engine.last[q])

Clamp(row, n) == Max({0, Min({row, n - 1})})

\* Under mtx_: the rows, and the selected one among them.
build_snapshot ==
    /\ net # "exec"
    /\ items' = [i \in DOMAIN Chats |-> Item(Chats[i], FALSE)]
                \o [i \in DOMAIN engine.requests |-> Item(engine.requests[i], TRUE)]
    /\ selected' = Clamp(selected, Len(items'))

selected_item == IF selected < Len(items) THEN items[selected + 1] ELSE NoItem

\* The conversation pane and the highlighted row show the selected item.
render == drawn' = selected_item'

\* while (running_), on the main thread: the flag is read before mtx_ is waited
\* for, so a last picture may be drawn after it was cleared.
UiLoop ==
    /\ ui = "loop"
    /\ ui' = IF running THEN "snapshot" ELSE "joining"
    /\ UNCHANGED <<net, running, queue, batch, engine, events, typed, handled, screen>>

Draw ==
    /\ ui = "snapshot"
    /\ build_snapshot
    /\ render
    /\ ui' = "getch"
    /\ UNCHANGED <<net, running, queue, batch, engine, events, typed, handled, input>>

\* Keys that only move or edit.
MoveOrEdit ==
    \/ /\ selected' \in {Max({0, selected - 1}), selected + 1}
       /\ UNCHANGED input
    \/ /\ input = Nothing
       /\ input' \in Words
       /\ UNCHANGED selected
    \/ /\ input' = Nothing
       /\ UNCHANGED selected

\* Keys that submit a command: a and r on a request, and Enter.
Press(c) ==
    \/ /\ input = Nothing
       /\ selected_item.is_request
       /\ c \in {Aimed(cmd, selected_item.pk) : cmd \in {"/accept", "/reject"}}
       /\ UNCHANGED input
    \/ /\ input' = Nothing
       /\ \/ /\ input = "text"
             /\ selected_item # NoItem /\ ~selected_item.is_request
             /\ c = Aimed("/send", selected_item.pk)
          \/ /\ input \in {"/accept", "/reject"}
             /\ selected_item.is_request
             /\ c = Aimed(input, selected_item.pk)
          \/ /\ input = "/add"
             /\ \E p \in Contacts : c = Command("/add", p)
          \/ input \in {"/quit", "/id"} /\ c = Command(input, Nobody)

Commands ==
    {Aimed(cmd, p) : cmd \in {"/accept", "/reject", "/send"}, p \in Contacts}
    \cup {Command("/add", p) : p \in Contacts}
    \cup {Command(cmd, Nobody) : cmd \in {"/quit", "/id"}}

\* getch() returns a key, or nothing after 120 ms.
on_key ==
    /\ ui = "getch"
    /\ ui' = "loop"
    /\ \/ MoveOrEdit /\ UNCHANGED <<queue, typed>>
       \/ \E c \in Commands : Press(c) /\ Submit(c) /\ UNCHANGED selected
    /\ UNCHANGED <<net, running, batch, engine, events, handled, items, drawn>>

NoKey ==
    /\ ui = "getch"
    /\ ui' = "loop"
    /\ UNCHANGED <<net, running, queue, batch, engine, events, typed, handled, screen>>

TerminalMain ==
    Start \/ UiLoop \/ Draw \/ NoKey \/ (Join /\ UNCHANGED screen)
TerminalUser == on_key
TerminalNet == TakeCommands \/ Lock \/ Exec \/ PollAll \/ Unlock

-----------------------------------------------------------------------------
(* Properties *)

AimedCommands == {"/send", "/accept", "/reject"}

\* A message, an acceptance or a rejection reaches the peer that was drawn as
\* selected when the key was pressed, although the list may be sorted anew
\* and rows come and go before the network thread executes it (handle_enter,
\* on_key, exec).
ActsOnDrawn ==
    \A i \in DOMAIN handled :
        LET h == handled[i] IN
        h.command.cmd \in AimedCommands => h.on = h.command.drawn.pk

\* A new snapshot leaves the selection with the item that was drawn as selected,
\* as long as that is still listed: Enter sends to the chat the user selected
\* (build_snapshot).
SelectionStays ==
    [][selected_item = drawn /\ Contains(items', drawn) => selected_item' = drawn]_items
=============================================================================
