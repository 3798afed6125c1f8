------------------------------- MODULE OmChat -------------------------------
(***************************************************************************)
(* om-chat (main() in cli/src/main.cpp): the full-screen client on a        *)
(* terminal, the line-based client otherwise.                               *)
(***************************************************************************)
EXTENDS LineClient, Terminal

VARIABLE tty    \* standard input and output are a terminal

clientVars == <<threads, names, screen, tty>>

ChatInit ==
    /\ tty \in BOOLEAN
    /\ ThreadsInit /\ NamesInit /\ ScreenInit

MainThread ==
    \/ tty /\ TerminalMain /\ UNCHANGED <<names, tty>>
    \/ ~tty /\ LineMain /\ UNCHANGED <<screen, tty>>

NetworkThread ==
    \/ tty /\ TerminalNet /\ UNCHANGED <<names, tty>>
    \/ ~tty /\ LineNet /\ UNCHANGED <<screen, tty>>

User ==
    \/ tty /\ TerminalUser /\ UNCHANGED <<names, tty>>
    \/ ~tty /\ LineUser /\ UNCHANGED <<screen, tty>>

ChatNext == MainThread \/ NetworkThread \/ User

\* The threads run.  The user need not type, and getch() does not wait for it;
\* getline() does.
ChatSpec ==
    /\ ChatInit /\ [][ChatNext]_clientVars
    /\ WF_clientVars(MainThread) /\ WF_clientVars(NetworkThread)

-----------------------------------------------------------------------------
(* Properties *)

\* The user gave the name n to p.
Given(n, p) == \E i \in DOMAIN handled : handled[i].command = Add(n, p)

\* The store knew p when om-chat started, and the user named it nothing since.
OnlyStored(p) == p \in engine.stored /\ \A n \in AllNames : ~Given(n, p)

\* In the line-based client the name a peer's messages and answers are shown
\* under leads back to that peer in /accept, /msg and the rest, except that
\*  - a peer only the store knows is shown under the start of its key, which
\*    then leads nowhere, and not to somebody else;
\*  - the user may have given that name to another peer, or another peer's key
\*    may start with it
\* (name_of, cmd_add, auto_alias, resolve).
ShownNameResolves ==
    ~tty => \A p \in Contacts : engine.trust[p] # "none" =>
        LET n == name_of(p) IN
        \/ resolve(n) = p
        \/ resolve(n) = Nobody /\ OnlyStored(p)
        \/ \E q \in Contacts \ {p} : Given(n, q) \/ n = ShortKey(q)

-----------------------------------------------------------------------------
(* The invariant the properties follow from *)

\* What was typed is what was handled, what the network thread took, and what is
\* still queued, in this order; between two batches nothing is taken, and there
\* is no network thread before the main thread starts it.
NothingSkipped ==
    /\ Len(typed) = Len(handled) + Len(batch) + Len(queue)
    /\ \A i \in DOMAIN handled : handled[i].command = typed[i]
    /\ \A i \in DOMAIN batch : batch[i] = typed[Len(handled) + i]
    /\ \A i \in DOMAIN queue : queue[i] = typed[Len(handled) + Len(batch) + i]
    /\ net \in {"none", "start", "loop"} => batch = <<>>
    /\ ui = "start" => net = "none"

\* A key acts on what was drawn, and a command keeps its aim on its way.
AimIsKept ==
    tty => /\ ui = "getch" => selected_item = drawn
           /\ \A i \in DOMAIN typed :
                 typed[i].cmd \in AimedCommands => typed[i].peer = typed[i].drawn.pk

\* The engine has nothing from or about p.
Unheard(e, p) == e.trust[p] = "none" /\ ~HasRequest(e, p) /\ p \notin e.asked

\* Lines stay lines.  A name leads to a peer it was given to or whose key starts
\* with it, and a peer's name leads somewhere; a peer without a name was not
\* heard of since the start.
NamesAreKnown ==
    /\ ~tty => \A i \in DOMAIN typed : typed[i] \in Lines
    /\ name_to_pk \in [AllNames -> Contacts \cup {Nobody}]
    /\ pk_to_name \in [Contacts -> AllNames \cup {Nobody}]
    /\ \A n \in AllNames :
          LET p == name_to_pk[n] IN p # Nobody => Given(n, p) \/ n = ShortKey(p)
    /\ \A p \in Contacts : pk_to_name[p] # Nobody => name_to_pk[pk_to_name[p]] # Nobody
    /\ ~tty => \A p \in Contacts : pk_to_name[p] = Nobody =>
          /\ Unheard(engine, p) \/ p \in engine.stored
          /\ \A n \in AllNames : ~Given(n, p)

\* Inductive; HandledAsTyped, ActsOnDrawn and ShownNameResolves follow
\* (submit, the swap of the queue, on_key, exec, cmd_add, auto_alias).
ChatInv ==
    /\ NothingSkipped
    /\ AimIsKept
    /\ NamesAreKnown
    /\ ActsOnDrawn
=============================================================================
