----------------------------- MODULE LineClient -----------------------------
(***************************************************************************)
(* The line-based client (ChatApp and main() in cli/src/main.cpp).  Names   *)
(* belong to the network thread: a peer has a name by /add, or the start of *)
(* its key when its contact request comes.  Names are not stored: contacts  *)
(* of an earlier run have none.                                             *)
(***************************************************************************)
EXTENDS ClientThreads

CONSTANTS
    Names,      \* names a user gives
    Lines       \* lines a user may type

VARIABLES
    name_to_pk,     \* name_to_pk_
    pk_to_name,     \* pk_to_name_
    current         \* current_

names == <<name_to_pk, pk_to_name, current>>

Key(p) == <<"key", p>>          \* the whole key, in hex
ShortKey(p) == <<"short", p>>   \* its first 8 digits
AllNames == Names \cup {ShortKey(p) : p \in Contacts}

Add(name, p) == [cmd |-> "add", name |-> name, peer |-> p]
Accept(name) == [cmd |-> "accept", name |-> name]
Reject(name) == [cmd |-> "reject", name |-> name]
Msg(name) == [cmd |-> "msg", name |-> name]
Text == [cmd |-> "text"]
Quit == [cmd |-> "quit"]        \* exactly "/quit"
QuitNow == [cmd |-> "quit now"] \* "/quit" and more on the line
Other == [cmd |-> "other"]      \* the empty line, /id, /peers, /register, mistakes

\* /add with both of its arguments, the second a key; less is a mistake.
ASSUME LineAssumption ==
    /\ Nobody \notin AllNames
    /\ \A l \in Lines : l.cmd = "add" => \E n \in Names, p \in Contacts : l = Add(n, p)

NamesInit ==
    /\ name_to_pk = [n \in AllNames |-> Nobody]
    /\ pk_to_name = [p \in Contacts |-> Nobody]
    /\ current = Nobody

\* name_of: the name messages and answers are shown under; for a peer without
\* a name the start of its key, which this does not make a name.
name_of(p) == IF pk_to_name[p] = Nobody THEN ShortKey(p) ELSE pk_to_name[p]

-----------------------------------------------------------------------------
(* The main thread *)

Launch ==
    /\ ui = "start"
    /\ ui' = "check"
    /\ net' = "start"
    /\ UNCHANGED <<running, queue, batch, engine, events, typed, handled, names>>

\* while (app.running() && ...
CheckRunning ==
    /\ ui = "check"
    /\ ui' = IF running THEN "getline" ELSE "joining"
    /\ UNCHANGED <<net, running, queue, batch, engine, events, typed, handled, names>>

ReadLine(line) ==
    /\ ui = "getline"
    /\ \/ /\ line # Quit
          /\ Submit(line)
          /\ ui' = "check"
          /\ UNCHANGED running
       \/ /\ line = Quit
          /\ running' = FALSE
          /\ ui' = "joining"
          /\ UNCHANGED <<queue, typed>>
    /\ UNCHANGED <<net, batch, engine, events, handled, names>>

EndOfInput ==
    /\ ui = "getline"
    /\ running' = FALSE
    /\ ui' = "joining"
    /\ UNCHANGED <<net, queue, batch, engine, events, typed, handled, names>>

-----------------------------------------------------------------------------
(* The network thread *)

\* bind may fail; registering and announcing change nothing here.
BindLine ==
    /\ net = "start"
    /\ \/ net' = "loop" /\ UNCHANGED running
       \/ net' = "ended" /\ running' = FALSE
    /\ UNCHANGED <<ui, queue, batch, engine, events, typed, handled, names>>

TakeLines ==
    /\ net = "loop"
    /\ \/ Stay /\ Take /\ net' = "handle"
       \/ ~Stay /\ net' = "ended" /\ UNCHANGED <<queue, batch>>
    /\ UNCHANGED <<ui, running, engine, events, typed, handled, names>>

\* resolve: a name, or else a key.
resolve(token) ==
    IF token \in AllNames /\ name_to_pk[token] # Nobody THEN name_to_pk[token]
    ELSE IF \E p \in Contacts : token = Key(p) THEN CHOOSE p \in Contacts : token = Key(p)
    ELSE Nobody

\* /add: named both ways, over whatever was there; the request is sent if the
\* peer is found.
cmd_add(l) ==
    /\ name_to_pk' = [name_to_pk EXCEPT ![l.name] = l.peer]
    /\ pk_to_name' = [pk_to_name EXCEPT ![l.peer] = l.name]
    /\ current' = l.peer
    /\ engine' \in {engine, send_contact_request(engine, l.peer)}

\* /accept and /reject make the peer current if the answer could be sent.
cmd_decide(l) ==
    LET p == resolve(l.name) IN
    /\ p # Nobody
    /\ engine' = DecideContact(engine, p, IF l.cmd = "accept" THEN "Accepted" ELSE "Rejected")
    /\ current' \in {current} \cup {q \in {p} : HasRequest(engine, q)}
    /\ UNCHANGED <<name_to_pk, pk_to_name>>

\* deliver() to an accepted contact, reached or not.
deliver(p) ==
    engine' \in {engine} \cup {Record(engine, q, t) : q \in {r \in {p} \cap Contacts :
                                engine.trust[r] = "Accepted"}, t \in Seconds(engine)}

\* /msg makes a peer it knows current, delivered or not.
cmd_msg(l) ==
    LET p == resolve(l.name) IN
    /\ p # Nobody
    /\ current' = p
    /\ deliver(p)
    /\ UNCHANGED <<name_to_pk, pk_to_name>>

send_current == deliver(current) /\ UNCHANGED names

\* Whom a line is about, as handle() finds out.
About(l) ==
    CASE l.cmd = "add" -> l.peer
      [] l.cmd = "text" -> current
      [] l.cmd \in {"accept", "reject", "msg"} -> resolve(l.name)
      [] OTHER -> Nobody

\* handle(), for every line of the batch, also the ones after /quit.
HandleLine ==
    /\ net = "handle"
    /\ batch # <<>>
    /\ LET l == Head(batch) IN
       /\ HandleNext(About(l))
       /\ \/ l.cmd = "add" /\ cmd_add(l)
          \/ l.cmd \in {"accept", "reject"} /\ cmd_decide(l)
          \/ l.cmd = "msg" /\ cmd_msg(l)
          \/ l.cmd = "text" /\ send_current
          \/ l.cmd \in {"quit now", "other"} /\ UNCHANGED <<names, engine>>
          \/ l.cmd \in {"accept", "reject", "msg"} /\ About(l) = Nobody
             /\ UNCHANGED <<names, engine>>
       /\ running' = (running /\ l.cmd # "quit now")
    /\ UNCHANGED <<ui, net, queue, events, typed>>

\* Fault: a peer that introduces itself gets a name that leads nowhere.
AliasOneWay(p) == name_to_pk

\* The part of auto_alias that makes the name usable.
AliasLeadsBack(p) == [name_to_pk EXCEPT ![ShortKey(p)] = p]

\* auto_alias: the start of the key, unless the peer has a name.
auto_alias(p) ==
    \/ pk_to_name[p] # Nobody /\ UNCHANGED <<name_to_pk, pk_to_name>>
    \/ /\ pk_to_name[p] = Nobody
       /\ name_to_pk' = AliasLeadsBack(p)
       /\ pk_to_name' = [pk_to_name EXCEPT ![p] = ShortKey(p)]

\* What one poll() brings: a first request, an answer to ours, a message.
Arrival(p) ==
    \/ /\ engine.trust[p] = "none"
       /\ engine' = Requested(engine, p)
       /\ auto_alias(p)
    \/ /\ p \in engine.asked
       /\ engine' \in {Responded(engine, p, t) : t \in {"Accepted", "Rejected"}}
       /\ UNCHANGED <<name_to_pk, pk_to_name>>
    \/ /\ engine.trust[p] = "Accepted"
       /\ engine' \in {Record(engine, p, t) : t \in Seconds(engine)}
       /\ UNCHANGED <<name_to_pk, pk_to_name>>

\* The batch is done: leave, or poll() for one datagram.
PollLine ==
    /\ net = "handle"
    /\ batch = <<>>
    /\ net' = IF Stay THEN "loop" ELSE "ended"
    /\ \/ UNCHANGED <<engine, events, names>>
       \/ /\ Stay
          /\ events < MaxEvents /\ events' = events + 1
          /\ \E p \in Contacts : Arrival(p)
          /\ UNCHANGED current
    /\ UNCHANGED <<ui, running, queue, batch, typed, handled>>

LineMain == Launch \/ CheckRunning \/ (Join /\ UNCHANGED names)
LineUser == EndOfInput \/ \E l \in Lines : ReadLine(l)
LineNet == BindLine \/ TakeLines \/ HandleLine \/ PollLine
=============================================================================
