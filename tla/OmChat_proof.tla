----------------------------- MODULE OmChat_proof -----------------------------
(***************************************************************************)
(* Theorems about OmChat, for all contacts, names, lines and words, and     *)
(* however much is typed and received.                                      *)
(***************************************************************************)
EXTENDS OmChat, SequenceTheorems, TLAPS

\* s is a sequence; of what does not matter.
Listed(s) == \E S : s \in Seq(S)

\* The histories and queues are sequences.
AllListed == Listed(typed) /\ Listed(handled) /\ Listed(batch) /\ Listed(queue)

\* What the line-based client knows of the engine, by its type.
EngineStates ==
    [trust : [Contacts -> {"none", "Pending", "Accepted", "Rejected"}],
     requests : Seq(Contacts),
     asked : SUBSET Contacts,
     last : [Contacts -> Nat],
     stored : SUBSET Contacts]

EngineTyped == ~tty => engine \in EngineStates

IInv == AllListed /\ EngineTyped /\ ChatInv

-----------------------------------------------------------------------------
(* Sequences *)

LEMMA ListedFacts ==
    ASSUME NEW s, Listed(s)
    PROVE  Len(s) \in Nat /\ DOMAIN s = 1 .. Len(s)
BY DEF Listed

LEMMA EmptyListed == Listed(<<>>)
BY DEF Listed

LEMMA AppendListed ==
    ASSUME NEW s, Listed(s), NEW e
    PROVE  /\ Listed(Append(s, e))
           /\ Len(Append(s, e)) = Len(s) + 1
           /\ DOMAIN Append(s, e) = 1 .. Len(s) + 1
           /\ \A i \in 1 .. Len(s) : Append(s, e)[i] = s[i]
           /\ Append(s, e)[Len(s) + 1] = e
<1>1. PICK S : s \in Seq(S)
  BY DEF Listed
<1>2. s \in Seq(S \cup {e}) /\ e \in S \cup {e}
  BY <1>1
<1>3. Append(s, e) \in Seq(S \cup {e})
  BY <1>2
<1> QED BY <1>2, <1>3 DEF Listed

LEMMA TailListed ==
    ASSUME NEW s, Listed(s), s # <<>>
    PROVE  /\ Listed(Tail(s))
           /\ Len(s) > 0
           /\ Len(Tail(s)) = Len(s) - 1
           /\ DOMAIN Tail(s) = 1 .. Len(s) - 1
           /\ \A i \in 1 .. Len(s) - 1 : Tail(s)[i] = s[i + 1]
           /\ Head(s) = s[1]
<1>1. PICK S : s \in Seq(S)
  BY DEF Listed
<1>2. Tail(s) \in Seq(S)
  BY <1>1, HeadTailProperties
<1> QED BY <1>1, <1>2, HeadTailProperties DEF Listed

LEMMA ListedPrefix ==
    ASSUME NEW s, Listed(s), NEW t, Listed(t), Len(s) <= Len(t),
           \A i \in 1 .. Len(s) : s[i] = t[i]
    PROVE  IsPrefix(s, t)
<1>1. PICK S : s \in Seq(S)
  BY DEF Listed
<1>2. PICK T : t \in Seq(T)
  BY DEF Listed
<1>3. /\ SubSeq(s, 1, Len(s)) = [i \in 1 .. Len(s) |-> s[i]]
      /\ SubSeq(t, 1, Len(s)) = [i \in 1 .. Len(s) |-> t[i]]
  BY <1>1, <1>2
<1> QED BY <1>3 DEF IsPrefix

-----------------------------------------------------------------------------
(* What the steps do to the queue *)

LEMMA SubmitKeeps ==
    ASSUME AllListed, NothingSkipped, NEW c, Submit(c),
           UNCHANGED <<handled, batch, net>>, ui' # "start"
    PROVE  /\ AllListed' /\ NothingSkipped'
           /\ DOMAIN typed' = DOMAIN typed \cup {Len(typed) + 1}
           /\ Len(typed) \in Nat /\ DOMAIN typed = 1 .. Len(typed)
           /\ \A i \in DOMAIN typed : typed'[i] = typed[i]
           /\ typed'[Len(typed) + 1] = c
<1>1. /\ Listed(queue') /\ Len(queue') = Len(queue) + 1 /\ DOMAIN queue' = 1 .. Len(queue) + 1
      /\ \A i \in 1 .. Len(queue) : queue'[i] = queue[i]
      /\ queue'[Len(queue) + 1] = c
  BY AppendListed DEF AllListed, Submit
<1>2. /\ Listed(typed') /\ Len(typed') = Len(typed) + 1 /\ DOMAIN typed' = 1 .. Len(typed) + 1
      /\ \A i \in 1 .. Len(typed) : typed'[i] = typed[i]
      /\ typed'[Len(typed) + 1] = c
  BY AppendListed DEF AllListed, Submit
<1>3. /\ Len(handled) \in Nat /\ DOMAIN handled = 1 .. Len(handled)
      /\ Len(batch) \in Nat /\ DOMAIN batch = 1 .. Len(batch)
      /\ Len(queue) \in Nat /\ DOMAIN queue = 1 .. Len(queue)
      /\ Len(typed) \in Nat /\ DOMAIN typed = 1 .. Len(typed)
  BY ListedFacts DEF AllListed
<1>4. AllListed'
  BY <1>1, <1>2 DEF AllListed
<1>5. Len(typed') = Len(handled) + Len(batch) + Len(queue')
  BY <1>1, <1>2, <1>3 DEF NothingSkipped
<1>6. \A i \in DOMAIN handled : handled[i].command = typed'[i]
  BY <1>2, <1>3 DEF NothingSkipped
<1>7. \A i \in DOMAIN batch : batch[i] = typed'[Len(handled) + i]
  <2> SUFFICES ASSUME NEW i \in 1 .. Len(batch)
               PROVE  batch[i] = typed'[Len(handled) + i]
    BY <1>3
  <2>1. Len(handled) + i \in 1 .. Len(typed)
    BY <1>3 DEF NothingSkipped
  <2> QED BY <1>2, <1>3, <2>1 DEF NothingSkipped
<1>8. \A i \in DOMAIN queue' : queue'[i] = typed'[Len(handled) + Len(batch) + i]
  <2> SUFFICES ASSUME NEW i \in 1 .. Len(queue) + 1
               PROVE  queue'[i] = typed'[Len(handled) + Len(batch) + i]
    BY <1>1
  <2>1. CASE i = Len(queue) + 1
    <3>1. Len(handled) + Len(batch) + i = Len(typed) + 1
      BY <1>3, <2>1 DEF NothingSkipped
    <3> QED BY <1>1, <1>2, <2>1, <3>1
  <2>2. CASE i \in 1 .. Len(queue)
    <3>1. Len(handled) + Len(batch) + i \in 1 .. Len(typed)
      BY <1>3, <2>2 DEF NothingSkipped
    <3>2. queue[i] = typed[Len(handled) + Len(batch) + i]
      BY <1>3, <2>2 DEF NothingSkipped
    <3> QED BY <1>1, <1>2, <2>2, <3>1, <3>2
  <2> QED BY <1>3, <2>1, <2>2
<1>9. NothingSkipped'
  BY <1>5, <1>6, <1>7, <1>8 DEF NothingSkipped
<1> QED BY <1>2, <1>3, <1>4, <1>9

LEMMA TakeKeeps ==
    ASSUME AllListed, NothingSkipped, batch = <<>>, Take,
           net = "loop", net' \notin {"none", "start", "loop"}, UNCHANGED <<ui, typed, handled>>
    PROVE  AllListed' /\ NothingSkipped'
<1>1. /\ Len(handled) \in Nat /\ Len(queue) \in Nat /\ Len(batch) = 0
      /\ batch' = queue /\ queue' = <<>> /\ Len(queue') = 0 /\ DOMAIN queue' = {}
      /\ DOMAIN queue = 1 .. Len(queue)
  BY ListedFacts DEF AllListed, Take
<1>2. AllListed'
  BY <1>1, EmptyListed DEF AllListed
<1>3. NothingSkipped'
  BY <1>1 DEF NothingSkipped
<1> QED BY <1>2, <1>3

LEMMA HandleKeeps ==
    ASSUME AllListed, NothingSkipped, batch # <<>>, NEW p, HandleNext(p),
           UNCHANGED <<ui, typed, queue, net>>, net \notin {"none", "start", "loop"}
    PROVE  /\ AllListed' /\ NothingSkipped'
           /\ Len(handled) \in Nat /\ DOMAIN handled = 1 .. Len(handled)
           /\ DOMAIN handled' = DOMAIN handled \cup {Len(handled) + 1}
           /\ \A i \in DOMAIN handled : handled'[i] = handled[i]
           /\ handled'[Len(handled) + 1] = [command |-> Head(batch), on |-> p]
           /\ Len(handled) + 1 \in DOMAIN typed
           /\ Head(batch) = typed[Len(handled) + 1]
<1>1. /\ Listed(batch') /\ Len(batch) > 0 /\ Len(batch') = Len(batch) - 1
      /\ DOMAIN batch' = 1 .. Len(batch) - 1
      /\ \A i \in 1 .. Len(batch) - 1 : batch'[i] = batch[i + 1]
      /\ Head(batch) = batch[1]
  BY TailListed DEF AllListed, HandleNext
<1>2. /\ Listed(handled') /\ Len(handled') = Len(handled) + 1
      /\ DOMAIN handled' = 1 .. Len(handled) + 1
      /\ \A i \in 1 .. Len(handled) : handled'[i] = handled[i]
      /\ handled'[Len(handled) + 1] = [command |-> Head(batch), on |-> p]
  BY AppendListed DEF AllListed, HandleNext
<1>3. /\ Len(handled) \in Nat /\ DOMAIN handled = 1 .. Len(handled)
      /\ Len(batch) \in Nat /\ DOMAIN batch = 1 .. Len(batch)
      /\ Len(queue) \in Nat /\ DOMAIN queue = 1 .. Len(queue)
      /\ Len(typed) \in Nat /\ DOMAIN typed = 1 .. Len(typed)
  BY ListedFacts DEF AllListed
<1>4. AllListed'
  BY <1>1, <1>2 DEF AllListed
<1>5. Head(batch) = typed[Len(handled) + 1]
  <2>1. 1 \in DOMAIN batch
    BY <1>1, <1>3
  <2> QED BY <1>1, <2>1 DEF NothingSkipped
<1>6. \A i \in DOMAIN handled' : handled'[i].command = typed[i]
  BY <1>2, <1>3, <1>5 DEF NothingSkipped
<1>7. \A i \in DOMAIN batch' : batch'[i] = typed[Len(handled') + i]
  <2> SUFFICES ASSUME NEW i \in 1 .. Len(batch) - 1
               PROVE  batch'[i] = typed[Len(handled) + 1 + i]
    BY <1>1, <1>2
  <2>1. i + 1 \in DOMAIN batch /\ batch'[i] = batch[i + 1]
    BY <1>1, <1>3
  <2>2. batch[i + 1] = typed[Len(handled) + (i + 1)]
    BY <2>1 DEF NothingSkipped
  <2>3. Len(handled) + (i + 1) = Len(handled) + 1 + i
    BY <1>3
  <2> QED BY <2>1, <2>2, <2>3
<1>8. \A i \in DOMAIN queue : queue[i] = typed[Len(handled') + Len(batch') + i]
  <2>1. Len(handled') + Len(batch') = Len(handled) + Len(batch)
    BY <1>1, <1>2, <1>3
  <2> QED BY <2>1 DEF NothingSkipped
<1>9. Len(typed) = Len(handled') + Len(batch') + Len(queue)
  BY <1>1, <1>2, <1>3 DEF NothingSkipped
<1>10. NothingSkipped'
  BY <1>6, <1>7, <1>8, <1>9 DEF NothingSkipped
<1>11. Len(handled) + 1 \in DOMAIN typed
  BY <1>1, <1>3 DEF NothingSkipped
<1> QED BY <1>2, <1>3, <1>4, <1>5, <1>10, <1>11

LEMMA QueueLeftAlone ==
    ASSUME AllListed, NothingSkipped, UNCHANGED <<typed, handled, batch, queue>>,
           net' \in {"none", "start", "loop"} =>
               net \in {"none", "start", "loop"} \/ batch = <<>>,
           ui' = "start" => ui = "start" /\ net' = net
    PROVE  AllListed' /\ NothingSkipped'
BY DEF AllListed, NothingSkipped

-----------------------------------------------------------------------------
(* What the steps do to names and aims *)

\* The commands handled so far stay handled.
HandledGrows ==
    DOMAIN handled \subseteq DOMAIN handled' /\ \A i \in DOMAIN handled : handled'[i] = handled[i]

LEMMA GivenStays ==
    ASSUME HandledGrows, NEW n, NEW q, Given(n, q)
    PROVE  Given(n, q)'
BY DEF HandledGrows, Given

LEMMA NamesLeftAlone ==
    ASSUME NamesAreKnown, UNCHANGED <<typed, names, tty>>, HandledGrows,
           tty \/ UNCHANGED <<engine, handled>>
    PROVE  NamesAreKnown'
<1>1. UNCHANGED <<name_to_pk, pk_to_name, typed, tty>>
  BY DEF names
<1>2. ASSUME NEW n \in AllNames, NEW q, q = name_to_pk'[n], q # Nobody
      PROVE  Given(n, q)' \/ n = ShortKey(q)
  <2>1. Given(n, q) \/ n = ShortKey(q)
    BY <1>1, <1>2 DEF NamesAreKnown
  <2> QED BY <2>1, GivenStays
<1>3. ASSUME ~tty, NEW p \in Contacts, pk_to_name[p] = Nobody
      PROVE  /\ Unheard(engine', p) \/ p \in engine'.stored
             /\ \A n \in AllNames : ~Given(n, p)'
  BY <1>3 DEF NamesAreKnown, Given
<1> QED BY <1>1, <1>2, <1>3 DEF NamesAreKnown

LEMMA AimsLeftAlone ==
    ASSUME AimIsKept, UNCHANGED <<typed, screen, tty>>, ui' = "getch" => ui = "getch"
    PROVE  AimIsKept'
BY DEF AimIsKept, screen, selected_item

\* Most steps neither submit nor handle a command.
LEMMA Bystander ==
    ASSUME IInv, UNCHANGED <<typed, handled, batch, queue, names, screen, tty>>,
           tty \/ UNCHANGED engine,
           ui' = "getch" => ui = "getch",
           net' \in {"none", "start", "loop"} =>
               net \in {"none", "start", "loop"} \/ batch = <<>>,
           ui' = "start" => ui = "start" /\ net' = net
    PROVE  IInv'
<1>1. AllListed' /\ NothingSkipped'
  BY QueueLeftAlone DEF IInv, ChatInv
<1>2. AimIsKept' /\ NamesAreKnown'
  BY AimsLeftAlone, NamesLeftAlone DEF IInv, ChatInv, HandledGrows
<1>3. ActsOnDrawn'
  BY DEF IInv, ChatInv, ActsOnDrawn
<1>4. EngineTyped'
  BY DEF IInv, EngineTyped
<1> QED BY <1>1, <1>2, <1>3, <1>4 DEF IInv, ChatInv

-----------------------------------------------------------------------------
(* The full-screen client *)

LEMMA DrawKeeps ==
    ASSUME IInv, Draw, UNCHANGED <<names, tty>>
    PROVE  IInv'
<1>1. AllListed' /\ NothingSkipped'
  BY QueueLeftAlone DEF IInv, ChatInv, Draw
<1>2. AimIsKept'
  BY DEF IInv, ChatInv, Draw, render, AimIsKept
<1>3. NamesAreKnown'
  BY NamesLeftAlone DEF IInv, ChatInv, Draw, HandledGrows
<1>4. ActsOnDrawn'
  BY DEF IInv, ChatInv, Draw, ActsOnDrawn
<1>5. EngineTyped'
  BY DEF IInv, Draw, EngineTyped
<1> QED BY <1>1, <1>2, <1>3, <1>4, <1>5 DEF IInv, ChatInv

\* A key that submits a command aims it at the row that was drawn.
LEMMA PressAims ==
    ASSUME AimIsKept, tty, ui = "getch", NEW c, Press(c)
    PROVE  c.cmd \in AimedCommands => c.peer = c.drawn.pk
BY DEF AimIsKept, Press, Aimed, Command, AimedCommands, NoItem, Item

LEMMA KeyKeeps ==
    ASSUME IInv, tty, on_key, UNCHANGED <<names, tty>>
    PROVE  IInv'
<1>1. /\ ui = "getch" /\ ui' = "loop"
      /\ UNCHANGED <<net, batch, handled, items, drawn>>
  BY DEF on_key
<1>2. ActsOnDrawn'
  BY <1>1 DEF IInv, ChatInv, ActsOnDrawn
<1>3. EngineTyped'
  BY DEF EngineTyped
<1>4. CASE UNCHANGED <<queue, typed>>
  <2>1. AllListed' /\ NothingSkipped'
    BY <1>1, <1>4, QueueLeftAlone DEF IInv, ChatInv
  <2>2. AimIsKept'
    BY <1>1, <1>4 DEF IInv, ChatInv, AimIsKept
  <2>3. NamesAreKnown'
    BY <1>1, <1>4, NamesLeftAlone DEF IInv, ChatInv, HandledGrows
  <2> QED BY <1>2, <1>3, <2>1, <2>2, <2>3 DEF IInv, ChatInv
<1>5. ASSUME NEW c, Press(c), Submit(c)
      PROVE  IInv'
  <2>1. /\ AllListed' /\ NothingSkipped'
        /\ DOMAIN typed' = DOMAIN typed \cup {Len(typed) + 1}
        /\ \A i \in DOMAIN typed : typed'[i] = typed[i]
        /\ typed'[Len(typed) + 1] = c
    BY <1>1, <1>5, SubmitKeeps DEF IInv, ChatInv
  <2>2. c.cmd \in AimedCommands => c.peer = c.drawn.pk
    BY <1>1, <1>5, PressAims DEF IInv, ChatInv
  <2>3. AimIsKept'
    BY <1>1, <2>1, <2>2 DEF IInv, ChatInv, AimIsKept
  <2>4. NamesAreKnown'
    BY <1>1 DEF IInv, ChatInv, NamesAreKnown, Given, names
  <2> QED BY <1>2, <1>3, <2>1, <2>3, <2>4 DEF IInv, ChatInv
<1> QED BY <1>4, <1>5 DEF on_key

LEMMA ExecKeeps ==
    ASSUME IInv, tty, Exec, UNCHANGED <<names, tty>>
    PROVE  IInv'
<1> DEFINE c == Head(batch)
           n == Len(handled) + 1
<1>1. /\ net = "exec" /\ batch # <<>> /\ HandleNext(PeerOf(c))
      /\ UNCHANGED <<ui, net, queue, typed, screen>>
  BY DEF Exec
<1>2. /\ AllListed' /\ NothingSkipped'
      /\ DOMAIN handled' = DOMAIN handled \cup {n}
      /\ \A i \in DOMAIN handled : handled'[i] = handled[i]
      /\ handled'[n] = [command |-> c, on |-> PeerOf(c)]
      /\ n \in DOMAIN typed /\ c = typed[n]
  BY <1>1, HandleKeeps DEF IInv, ChatInv
<1>3. AimIsKept' /\ NamesAreKnown'
  BY <1>1, <1>2, AimsLeftAlone, NamesLeftAlone DEF IInv, ChatInv, HandledGrows
<1>4. c.cmd \in AimedCommands => c.peer = c.drawn.pk
  BY <1>2 DEF IInv, ChatInv, AimIsKept
<1>5. ActsOnDrawn'
  BY <1>2, <1>4 DEF IInv, ChatInv, ActsOnDrawn, PeerOf
<1>6. EngineTyped'
  BY DEF EngineTyped
<1> QED BY <1>2, <1>3, <1>5, <1>6 DEF IInv, ChatInv

LEMMA TakeCommandsKeeps ==
    ASSUME IInv, TakeCommands, UNCHANGED <<names, tty>>
    PROVE  IInv'
<1>1. net = "loop" /\ UNCHANGED <<ui, engine, typed, handled, screen>>
  BY DEF TakeCommands
<1>2. AllListed' /\ NothingSkipped'
  <2>1. CASE Take /\ net' = "taken"
    BY <1>1, <2>1, TakeKeeps DEF IInv, ChatInv, NothingSkipped
  <2>2. CASE net' = "ended" /\ UNCHANGED <<queue, batch>>
    <3>1. ui # "start"
      BY <1>1 DEF IInv, ChatInv, NothingSkipped
    <3> QED BY <1>1, <2>2, <3>1, QueueLeftAlone DEF IInv, ChatInv
  <2> QED BY <2>1, <2>2 DEF TakeCommands
<1>3. AimIsKept' /\ NamesAreKnown'
  BY <1>1, AimsLeftAlone, NamesLeftAlone DEF IInv, ChatInv, HandledGrows
<1>4. ActsOnDrawn'
  BY <1>1 DEF IInv, ChatInv, ActsOnDrawn
<1>5. EngineTyped'
  BY <1>1 DEF IInv, EngineTyped
<1> QED BY <1>2, <1>3, <1>4, <1>5 DEF IInv, ChatInv

\* Nothing the full-screen client's threads do breaks the invariant.
LEMMA TerminalKeeps ==
    ASSUME IInv, tty, TerminalMain \/ TerminalUser \/ TerminalNet, UNCHANGED <<names, tty>>
    PROVE  IInv'
<1>1. ASSUME Start \/ UiLoop \/ NoKey \/ (Join /\ UNCHANGED screen) \/ Lock \/ PollAll \/ Unlock
      PROVE  IInv'
  <2>1. /\ UNCHANGED <<typed, handled, batch, queue, screen>>
        /\ ui' = "getch" => ui = "getch"
        /\ net' \in {"none", "start", "loop"} =>
               net \in {"none", "start", "loop"} \/ batch = <<>>
        /\ ui' = "start" => ui = "start" /\ net' = net
    BY <1>1 DEF IInv, ChatInv, NothingSkipped, Start, UiLoop, NoKey, Join, Lock, PollAll, Unlock, screen
  <2> QED BY <2>1, Bystander
<1> QED BY <1>1, DrawKeeps, KeyKeeps, ExecKeeps, TakeCommandsKeeps
        DEF TerminalMain, TerminalUser, TerminalNet

-----------------------------------------------------------------------------
(* The line-based client *)

\* The next line, and what handling it does to the queue, in the line client.
LEMMA NextLine ==
    ASSUME IInv, ~tty, HandleLine
    PROVE  /\ AllListed' /\ NothingSkipped' /\ HandledGrows
           /\ Head(batch) \in Lines
           /\ \E i \in DOMAIN handled' : handled'[i].command = Head(batch)
           /\ \A i \in DOMAIN handled' : i \in DOMAIN handled \/ handled'[i].command = Head(batch)
           /\ ActsOnDrawn'
<1> DEFINE l == Head(batch)
           n == Len(handled) + 1
<1>1. /\ net = "handle" /\ batch # <<>> /\ HandleNext(About(l))
      /\ UNCHANGED <<ui, net, queue, typed>>
  BY DEF HandleLine
<1>2. /\ AllListed' /\ NothingSkipped'
      /\ DOMAIN handled' = DOMAIN handled \cup {n}
      /\ \A i \in DOMAIN handled : handled'[i] = handled[i]
      /\ handled'[n] = [command |-> l, on |-> About(l)]
      /\ n \in DOMAIN typed /\ l = typed[n]
  BY <1>1, HandleKeeps DEF IInv, ChatInv
<1>3. l \in Lines
  BY <1>2 DEF IInv, ChatInv, NamesAreKnown
<1>4. l.cmd \notin AimedCommands
  BY DEF HandleLine, AimedCommands
<1>5. ActsOnDrawn'
  BY <1>2, <1>4 DEF IInv, ChatInv, ActsOnDrawn
<1> QED BY <1>2, <1>3, <1>5 DEF HandledGrows

\* What happened to the engine concerns at most the peers of S, of those it had
\* not heard of.
Concerns(e, f, S) ==
    /\ f \in EngineStates
    /\ f.stored = e.stored
    /\ \A p \in Contacts \ S : Unheard(e, p) => Unheard(f, p)

LEMMA RemoveAtElements ==
    ASSUME NEW s \in Seq(Contacts), NEW k \in 1 .. Len(s)
    PROVE  /\ RemoveAt(s, k) \in Seq(Contacts)
           /\ \A p : Contains(RemoveAt(s, k), p) => Contains(s, p)
<1> DEFINE a == SubSeq(s, 1, k - 1)
           b == SubSeq(s, k + 1, Len(s))
<1>0. Len(s) \in Nat /\ k \in Nat
  OBVIOUS
<1>1. /\ a \in Seq(Contacts) /\ Len(a) = k - 1
      /\ \A i \in 1 .. Len(a) : a[i] = s[i]
  OBVIOUS
<1>2. /\ b \in Seq(Contacts) /\ Len(b) = Len(s) - k
      /\ \A i \in 1 .. Len(b) : b[i] = s[k + i]
  OBVIOUS
<1>3. RemoveAt(s, k) = a \o b
  BY DEF RemoveAt
<1> HIDE DEF a, b
<1>4. a \o b \in Seq(Contacts) /\ Len(a \o b) = Len(s) - 1
  <2>1. a \o b \in Seq(Contacts) /\ Len(a \o b) = Len(a) + Len(b)
    BY <1>1, <1>2, ConcatProperties
  <2> QED BY <1>0, <1>1, <1>2, <2>1
<1>5. ASSUME NEW i \in 1 .. Len(s) - 1
      PROVE  \E j \in 1 .. Len(s) : (a \o b)[i] = s[j]
  <2>1. CASE i <= k - 1
    <3>1. (a \o b)[i] = s[i] /\ i \in 1 .. Len(s)
      BY <1>1, <1>2, <2>1
    <3> QED BY <3>1
  <2>2. CASE i > k - 1
    <3>1. (a \o b)[i] = b[i - (k - 1)] /\ i - (k - 1) \in 1 .. Len(b)
      BY <1>1, <1>2, <2>2
    <3>2. b[i - (k - 1)] = s[k + (i - (k - 1))] /\ k + (i - (k - 1)) \in 1 .. Len(s)
      BY <1>2, <2>2, <3>1
    <3> QED BY <3>1, <3>2
  <2>3. i <= k - 1 \/ i > k - 1
    BY <1>0
  <2> QED BY <2>1, <2>2, <2>3
<1> QED BY <1>3, <1>4, <1>5 DEF Contains

LEMMA DecideConcerns ==
    ASSUME NEW e \in EngineStates, NEW q \in Contacts, NEW t \in {"Accepted", "Rejected"}
    PROVE  Concerns(e, DecideContact(e, q, t), {})
<1>1. CASE ~HasRequest(e, q)
  BY <1>1 DEF DecideContact, Concerns
<1>2. CASE HasRequest(e, q)
  <2> DEFINE r == e.requests
             k == CHOOSE i \in DOMAIN r : r[i] = q
             f == DecideContact(e, q, t)
  <2>1. r \in Seq(Contacts) /\ k \in 1 .. Len(r)
    <3>1. r \in Seq(Contacts) /\ \E i \in DOMAIN r : r[i] = q
      BY <1>2 DEF EngineStates, HasRequest, Contains
    <3> QED BY <3>1
  <2>2. f = [e EXCEPT !.trust[q] = t, !.requests = RemoveAt(@, k)]
    BY <1>2 DEF DecideContact
  <2> HIDE DEF r, k, f
  <2>3. /\ RemoveAt(r, k) \in Seq(Contacts)
        /\ \A p : Contains(RemoveAt(r, k), p) => Contains(r, p)
    BY <2>1, RemoveAtElements
  <2>4. /\ f.trust = [e.trust EXCEPT ![q] = t] /\ f.requests = RemoveAt(r, k)
        /\ f.asked = e.asked /\ f.last = e.last /\ f.stored = e.stored
        /\ f \in EngineStates
    BY <2>2, <2>3 DEF EngineStates, r
  <2>5. \A p \in Contacts : Unheard(e, p) => Unheard(f, p)
    BY <1>2, <2>3, <2>4 DEF EngineStates, Unheard, HasRequest, r
  <2> QED BY <2>4, <2>5 DEF Concerns, f
<1> QED BY <1>1, <1>2

LEMMA RecordConcerns ==
    ASSUME NEW e \in EngineStates, NEW q \in Contacts, NEW t \in Seconds(e)
    PROVE  Concerns(e, Record(e, q, t), {})
<1> DEFINE f == Record(e, q, t)
<1>1. t \in Nat
  BY ThreadsAssumption DEF Seconds
<1>2. /\ f.trust = e.trust /\ f.requests = e.requests /\ f.asked = e.asked
      /\ f.stored = e.stored /\ f \in EngineStates
  BY <1>1 DEF EngineStates, Record
<1> QED BY <1>2 DEF Concerns, Unheard, HasRequest

LEMMA AskConcerns ==
    ASSUME NEW e \in EngineStates, NEW q \in Contacts
    PROVE  Concerns(e, send_contact_request(e, q), {q})
<1> DEFINE f == send_contact_request(e, q)
<1>1. CASE e.trust[q] = "Accepted"
  BY <1>1 DEF send_contact_request, Concerns
<1>2. CASE e.trust[q] # "Accepted"
  <2>1. /\ f.trust = [e.trust EXCEPT ![q] = "Pending"] /\ f.requests = e.requests
        /\ f.asked = e.asked \cup {q} /\ f.stored = e.stored /\ f \in EngineStates
    BY <1>2 DEF EngineStates, send_contact_request
  <2> QED BY <2>1 DEF Concerns, Unheard, HasRequest, EngineStates
<1> QED BY <1>1, <1>2

LEMMA RequestConcerns ==
    ASSUME NEW e \in EngineStates, NEW q \in Contacts
    PROVE  Concerns(e, Requested(e, q), {q})
<1> DEFINE f == Requested(e, q)
<1> DEFINE s == Append(e.requests, q)
<1>0. e.requests \in Seq(Contacts) /\ e.trust \in [Contacts -> {"none", "Pending", "Accepted", "Rejected"}]
  BY DEF EngineStates
<1>1. /\ s \in Seq(Contacts) /\ Len(s) = Len(e.requests) + 1
      /\ \A i \in 1 .. Len(s) : (i \in 1 .. Len(e.requests) /\ s[i] = e.requests[i]) \/ s[i] = q
  <2>1. s \in Seq(Contacts) /\ Len(s) = Len(e.requests) + 1
    BY <1>0
  <2>2. /\ \A i \in 1 .. Len(e.requests) : s[i] = e.requests[i]
        /\ s[Len(e.requests) + 1] = q
    BY <1>0
  <2> HIDE DEF s
  <2> QED BY <1>0, <2>1, <2>2
<1>2. \A p : Contains(s, p) => Contains(e.requests, p) \/ p = q
  BY <1>1 DEF Contains
<1> HIDE DEF s
<1>3. /\ f.trust = [e.trust EXCEPT ![q] = "Pending"] /\ f.requests = s
      /\ f.asked = e.asked /\ f.stored = e.stored /\ f \in EngineStates
  <2>1. f = [e EXCEPT !.trust[q] = "Pending", !.requests = s]
    BY DEF Requested, s
  <2>2. /\ f.trust = [e.trust EXCEPT ![q] = "Pending"] /\ f.requests = s
        /\ f.asked = e.asked /\ f.stored = e.stored
    BY <2>1 DEF EngineStates
  <2>3. f.trust \in [Contacts -> {"none", "Pending", "Accepted", "Rejected"}]
    BY <1>0, <2>2
  <2>4. f \in EngineStates
    BY <1>1, <2>1, <2>3 DEF EngineStates
  <2> QED BY <2>2, <2>4
<1> QED BY <1>2, <1>3 DEF Concerns, Unheard, HasRequest, EngineStates

LEMMA AnswerConcerns ==
    ASSUME NEW e \in EngineStates, NEW q \in e.asked, NEW t \in {"Accepted", "Rejected"}
    PROVE  Concerns(e, Responded(e, q, t), {})
<1> DEFINE f == Responded(e, q, t)
<1>1. q \in Contacts
  BY DEF EngineStates
<1>2. /\ f.trust = [e.trust EXCEPT ![q] = t] /\ f.requests = e.requests
      /\ f.asked = e.asked \ {q} /\ f.stored = e.stored /\ f \in EngineStates
  BY <1>1 DEF EngineStates, Responded
<1> QED BY <1>1, <1>2 DEF Concerns, Unheard, HasRequest, EngineStates

\* Nobody gets a name, and the engine hears of nobody new.
LEMMA NoNewName ==
    ASSUME NamesAreKnown, UNCHANGED <<typed, name_to_pk, pk_to_name, tty>>, HandledGrows,
           Concerns(engine, engine', {}),
           \A n \in AllNames, p \in Contacts : Given(n, p)' => Given(n, p)
    PROVE  NamesAreKnown'
<1>1. ASSUME NEW n \in AllNames, NEW q, q = name_to_pk'[n], q # Nobody
      PROVE  Given(n, q)' \/ n = ShortKey(q)
  <2>1. Given(n, q) \/ n = ShortKey(q)
    BY <1>1 DEF NamesAreKnown
  <2> QED BY <2>1, GivenStays
<1>2. ASSUME ~tty, NEW p \in Contacts, pk_to_name[p] = Nobody
      PROVE  /\ Unheard(engine', p) \/ p \in engine'.stored
             /\ \A n \in AllNames : ~Given(n, p)'
  BY <1>2 DEF NamesAreKnown, Concerns
<1> QED BY <1>1, <1>2 DEF NamesAreKnown

\* The peer p gets the name n, and the engine hears of nobody else.
LEMMA NewName ==
    ASSUME NamesAreKnown, NEW n \in AllNames, NEW p \in Contacts,
           name_to_pk' = [name_to_pk EXCEPT ![n] = p],
           pk_to_name' = [pk_to_name EXCEPT ![p] = n],
           UNCHANGED <<typed, tty>>, HandledGrows,
           Concerns(engine, engine', {p}),
           Given(n, p)' \/ n = ShortKey(p),
           \A m \in AllNames, r \in Contacts \ {p} : Given(m, r)' => Given(m, r)
    PROVE  NamesAreKnown'
<1>1. n # Nobody /\ p # Nobody
  BY LineAssumption, ThreadsAssumption
<1>2. /\ name_to_pk' \in [AllNames -> Contacts \cup {Nobody}]
      /\ pk_to_name' \in [Contacts -> AllNames \cup {Nobody}]
      /\ \A m \in AllNames : name_to_pk'[m] = IF m = n THEN p ELSE name_to_pk[m]
      /\ \A r \in Contacts : pk_to_name'[r] = IF r = p THEN n ELSE pk_to_name[r]
  BY DEF NamesAreKnown
<1>3. ASSUME NEW m \in AllNames, NEW q, q = name_to_pk'[m], q # Nobody
      PROVE  Given(m, q)' \/ m = ShortKey(q)
  <2>1. CASE m = n
    BY <1>2, <1>3, <2>1
  <2>2. CASE m # n
    <3>1. Given(m, q) \/ m = ShortKey(q)
      BY <1>2, <1>3, <2>2 DEF NamesAreKnown
    <3> QED BY <3>1, GivenStays
  <2> QED BY <2>1, <2>2
<1>4. ASSUME NEW r \in Contacts, pk_to_name'[r] # Nobody
      PROVE  name_to_pk'[pk_to_name'[r]] # Nobody
  BY <1>1, <1>2, <1>4 DEF NamesAreKnown
<1>5. ASSUME ~tty, NEW r \in Contacts, pk_to_name'[r] = Nobody
      PROVE  /\ Unheard(engine', r) \/ r \in engine'.stored
             /\ \A m \in AllNames : ~Given(m, r)'
  <2>1. r # p /\ pk_to_name[r] = Nobody
    BY <1>1, <1>2, <1>5
  <2> QED BY <1>5, <2>1 DEF NamesAreKnown, Concerns
<1>6. ~tty => \A i \in DOMAIN typed : typed[i] \in Lines
  BY DEF NamesAreKnown
<1> QED BY <1>2, <1>3, <1>4, <1>5, <1>6 DEF NamesAreKnown

LEMMA HandleLineKeeps ==
    ASSUME IInv, ~tty, HandleLine, UNCHANGED <<screen, tty>>
    PROVE  IInv'
<1> DEFINE l == Head(batch)
<1>1. /\ AllListed' /\ NothingSkipped' /\ HandledGrows /\ ActsOnDrawn'
      /\ l \in Lines
      /\ \E i \in DOMAIN handled' : handled'[i].command = l
      /\ \A i \in DOMAIN handled' : i \in DOMAIN handled \/ handled'[i].command = l
  BY NextLine
<1>2. UNCHANGED <<ui, net, queue, typed>>
  BY DEF HandleLine
<1>3. AimIsKept'
  BY <1>2, AimsLeftAlone DEF IInv, ChatInv
<1>4. engine \in EngineStates
  BY DEF IInv, EngineTyped
<1>5. \A n, p : Given(n, p)' => Given(n, p) \/ l = Add(n, p)
  BY <1>1 DEF Given, HandledGrows
<1>6. CASE l.cmd = "add" /\ cmd_add(l)
  <2>1. PICK n \in Names, p \in Contacts : l = Add(n, p)
    BY <1>1, <1>6, LineAssumption
  <2>2. l.name = n /\ l.peer = p
    BY <2>1 DEF Add
  <2>3. /\ name_to_pk' = [name_to_pk EXCEPT ![n] = p]
        /\ pk_to_name' = [pk_to_name EXCEPT ![p] = n]
        /\ engine' = engine \/ engine' = send_contact_request(engine, p)
        /\ n \in AllNames
    <3> HIDE DEF l
    <3> QED BY <1>6, <2>2 DEF cmd_add, AllNames
  <2>4. Concerns(engine, engine', {p})
    <3>1. engine' = engine => Concerns(engine, engine', {p})
      BY <1>4 DEF Concerns
    <3> QED BY <1>4, <2>3, <3>1, AskConcerns
  <2>5. Given(n, p)'
    BY <1>1, <2>1 DEF Given
  <2>6. \A m \in AllNames, r \in Contacts \ {p} : Given(m, r)' => Given(m, r)
    BY <1>5, <2>1 DEF Add
  <2>7. NamesAreKnown'
    BY <1>1, <1>2, <2>3, <2>4, <2>5, <2>6, NewName DEF IInv, ChatInv
  <2>8. EngineTyped'
    BY <2>4 DEF Concerns, EngineTyped
  <2> QED BY <1>1, <1>3, <2>7, <2>8 DEF IInv, ChatInv
<1>7. CASE l.cmd # "add"
  <2>1. \A n, p : Given(n, p)' => Given(n, p)
    BY <1>5, <1>7 DEF Add
  <2>2. UNCHANGED <<name_to_pk, pk_to_name>> /\ Concerns(engine, engine', {})
    <3>1. ASSUME UNCHANGED engine PROVE Concerns(engine, engine', {})
      BY <1>4, <3>1 DEF Concerns
    <3>2. ASSUME NEW p, deliver(p) PROVE Concerns(engine, engine', {})
      BY <1>4, <3>1, <3>2, RecordConcerns DEF deliver
    <3>3. ASSUME cmd_decide(l) PROVE Concerns(engine, engine', {})
      <4>1. PICK p : p = resolve(l.name) /\ p # Nobody
                     /\ \E t \in {"Accepted", "Rejected"} : engine' = DecideContact(engine, p, t)
        BY <3>3 DEF cmd_decide
      <4>2. p \in Contacts
        BY <4>1 DEF resolve, IInv, ChatInv, NamesAreKnown
      <4> QED BY <1>4, <4>1, <4>2, DecideConcerns
    <3>4. \/ cmd_decide(l) /\ UNCHANGED <<name_to_pk, pk_to_name>>
          \/ \E p : deliver(p) /\ UNCHANGED <<name_to_pk, pk_to_name>>
          \/ UNCHANGED <<engine, name_to_pk, pk_to_name>>
      BY <1>7 DEF HandleLine, cmd_decide, cmd_msg, send_current, names
    <3> QED BY <3>1, <3>2, <3>3, <3>4
  <2>3. NamesAreKnown'
    BY <1>1, <1>2, <2>1, <2>2, NoNewName DEF IInv, ChatInv
  <2>4. EngineTyped'
    BY <2>2 DEF Concerns, EngineTyped
  <2> QED BY <1>1, <1>3, <2>3, <2>4 DEF IInv, ChatInv
<1>8. l.cmd # "add" \/ (l.cmd = "add" /\ cmd_add(l))
  BY DEF HandleLine
<1> QED BY <1>6, <1>7, <1>8

LEMMA PollLineKeeps ==
    ASSUME IInv, ~tty, PollLine, UNCHANGED <<screen, tty>>
    PROVE  IInv'
<1>1. /\ net = "handle" /\ batch = <<>> /\ net' # "handle"
      /\ UNCHANGED <<ui, queue, batch, typed, handled>>
  BY DEF PollLine
<1>2. AllListed' /\ NothingSkipped'
  <2>1. ui # "start"
    BY <1>1 DEF IInv, ChatInv, NothingSkipped
  <2> QED BY <1>1, <2>1, QueueLeftAlone DEF IInv, ChatInv
<1>3. AimIsKept' /\ ActsOnDrawn' /\ HandledGrows
  BY <1>1, AimsLeftAlone DEF IInv, ChatInv, ActsOnDrawn, HandledGrows
<1>4. engine \in EngineStates
  BY DEF IInv, EngineTyped
<1>5. \A n, p : Given(n, p)' => Given(n, p)
  BY <1>1 DEF Given
<1>6. ASSUME Concerns(engine, engine', {}), UNCHANGED <<name_to_pk, pk_to_name>>
      PROVE  IInv'
  <2>1. NamesAreKnown'
    BY <1>1, <1>3, <1>5, <1>6, NoNewName DEF IInv, ChatInv
  <2>2. EngineTyped'
    BY <1>6 DEF Concerns, EngineTyped
  <2> QED BY <1>2, <1>3, <2>1, <2>2 DEF IInv, ChatInv
<1>7. ASSUME NEW p \in Contacts, engine' = Requested(engine, p), auto_alias(p)
      PROVE  IInv'
  <2>1. Concerns(engine, engine', {p})
    BY <1>4, <1>7, RequestConcerns
  <2>2. ASSUME pk_to_name[p] = Nobody PROVE NamesAreKnown'
    <3>1. ShortKey(p) \in AllNames
      BY DEF AllNames
    <3>2. /\ name_to_pk' = [name_to_pk EXCEPT ![ShortKey(p)] = p]
          /\ pk_to_name' = [pk_to_name EXCEPT ![p] = ShortKey(p)]
      BY <1>7, <2>2 DEF auto_alias, AliasLeadsBack
    <3> QED BY <1>1, <1>3, <1>5, <2>1, <3>1, <3>2, NewName DEF IInv, ChatInv
  <2>3. ASSUME pk_to_name[p] # Nobody PROVE NamesAreKnown'
    <3>1. UNCHANGED <<name_to_pk, pk_to_name>>
      BY <1>7, <2>3 DEF auto_alias
    <3>2. ASSUME NEW r \in Contacts, pk_to_name[r] = Nobody
          PROVE  /\ Unheard(engine', r) \/ r \in engine'.stored
                 /\ \A n \in AllNames : ~Given(n, r)'
      BY <1>5, <2>1, <2>3, <3>2 DEF Concerns, IInv, ChatInv, NamesAreKnown
    <3>3. \A n \in AllNames, q \in Contacts : Given(n, q)' <=> Given(n, q)
      BY <1>1 DEF Given
    <3> QED BY <1>1, <3>1, <3>2, <3>3 DEF IInv, ChatInv, NamesAreKnown
  <2>4. NamesAreKnown'
    BY <2>2, <2>3
  <2>5. EngineTyped'
    BY <2>1 DEF Concerns, EngineTyped
  <2> QED BY <1>2, <1>3, <2>4, <2>5 DEF IInv, ChatInv
<1>8. ASSUME NEW p \in Contacts, Arrival(p)
      PROVE  IInv'
  <2>1. CASE p \in engine.asked
             /\ engine' \in {Responded(engine, p, t) : t \in {"Accepted", "Rejected"}}
             /\ UNCHANGED <<name_to_pk, pk_to_name>>
    BY <1>4, <1>6, <2>1, AnswerConcerns
  <2>2. CASE engine' \in {Record(engine, p, t) : t \in Seconds(engine)}
             /\ UNCHANGED <<name_to_pk, pk_to_name>>
    BY <1>4, <1>6, <2>2, RecordConcerns
  <2> QED BY <1>7, <1>8, <2>1, <2>2 DEF Arrival
<1>9. CASE UNCHANGED <<engine, names>>
  BY <1>4, <1>6, <1>9 DEF Concerns, names
<1> QED BY <1>8, <1>9 DEF PollLine

LEMMA ReadLineKeeps ==
    ASSUME IInv, ~tty, NEW line \in Lines, ReadLine(line), UNCHANGED <<screen, tty>>
    PROVE  IInv'
<1>1. /\ ui = "getline" /\ ui' # "start" /\ ui' # "getch"
      /\ UNCHANGED <<net, batch, engine, handled, names>>
  BY DEF ReadLine
<1>2. CASE UNCHANGED <<queue, typed>>
  BY <1>1, <1>2, Bystander
<1>3. CASE Submit(line)
  <2>1. /\ AllListed' /\ NothingSkipped'
        /\ DOMAIN typed' = DOMAIN typed \cup {Len(typed) + 1}
        /\ \A i \in DOMAIN typed : typed'[i] = typed[i]
        /\ typed'[Len(typed) + 1] = line
    BY <1>1, <1>3, SubmitKeeps DEF IInv, ChatInv
  <2>2. AimIsKept'
    BY DEF AimIsKept
  <2>3. NamesAreKnown'
    BY <1>1, <2>1 DEF IInv, ChatInv, NamesAreKnown, Given, names
  <2>4. ActsOnDrawn' /\ EngineTyped'
    BY <1>1 DEF IInv, ChatInv, ActsOnDrawn, EngineTyped
  <2> QED BY <2>1, <2>2, <2>3, <2>4 DEF IInv, ChatInv
<1> QED BY <1>2, <1>3 DEF ReadLine

LEMMA TakeLinesKeeps ==
    ASSUME IInv, TakeLines, UNCHANGED <<screen, tty>>
    PROVE  IInv'
<1>1. net = "loop" /\ UNCHANGED <<ui, engine, typed, handled, names>>
  BY DEF TakeLines
<1>2. AllListed' /\ NothingSkipped'
  <2>1. CASE Take /\ net' = "handle"
    BY <1>1, <2>1, TakeKeeps DEF IInv, ChatInv, NothingSkipped
  <2>2. CASE net' = "ended" /\ UNCHANGED <<queue, batch>>
    <3>1. ui # "start"
      BY <1>1 DEF IInv, ChatInv, NothingSkipped
    <3> QED BY <1>1, <2>2, <3>1, QueueLeftAlone DEF IInv, ChatInv
  <2> QED BY <2>1, <2>2 DEF TakeLines
<1>3. AimIsKept' /\ NamesAreKnown'
  BY <1>1, AimsLeftAlone, NamesLeftAlone DEF IInv, ChatInv, HandledGrows
<1>4. ActsOnDrawn' /\ EngineTyped'
  BY <1>1 DEF IInv, ChatInv, ActsOnDrawn, EngineTyped
<1> QED BY <1>2, <1>3, <1>4 DEF IInv, ChatInv

LEMMA LineKeeps ==
    ASSUME IInv, ~tty, LineMain \/ LineUser \/ LineNet, UNCHANGED <<screen, tty>>
    PROVE  IInv'
<1>1. ASSUME Launch \/ CheckRunning \/ (Join /\ UNCHANGED names) \/ EndOfInput \/ BindLine
      PROVE  IInv'
  <2>1. /\ UNCHANGED <<engine, typed, handled, batch, queue, names>>
        /\ ui' = "getch" => ui = "getch"
        /\ net' \in {"none", "start", "loop"} =>
               net \in {"none", "start", "loop"} \/ batch = <<>>
        /\ ui' = "start" => ui = "start" /\ net' = net
    BY <1>1 DEF IInv, ChatInv, NothingSkipped, Launch, CheckRunning, Join, EndOfInput, BindLine
  <2> QED BY <2>1, Bystander
<1>2. ASSUME LineUser, ~EndOfInput
      PROVE  IInv'
  BY <1>2, ReadLineKeeps DEF LineUser
<1> QED BY <1>1, <1>2, HandleLineKeeps, PollLineKeeps, TakeLinesKeeps
        DEF LineMain, LineUser, LineNet

-----------------------------------------------------------------------------
LEMMA InvInit == ASSUME ChatInit PROVE IInv
<1>1. AllListed
  BY EmptyListed DEF ChatInit, ThreadsInit, AllListed
<1>2. NothingSkipped /\ ActsOnDrawn
  BY DEF ChatInit, ThreadsInit, NothingSkipped, ActsOnDrawn
<1>3. AimIsKept
  BY DEF ChatInit, ThreadsInit, AimIsKept
<1>4. PICK accepted \in SUBSET Contacts :
          engine = [trust |-> [p \in Contacts |-> IF p \in accepted THEN "Accepted" ELSE "none"],
                    requests |-> <<>>, asked |-> {}, last |-> [p \in Contacts |-> 0],
                    stored |-> accepted]
  BY DEF ChatInit, ThreadsInit, Loaded
<1>5. EngineTyped
  BY <1>4 DEF EngineTyped, EngineStates
<1>6. \A p \in Contacts : Unheard(engine, p) \/ p \in engine.stored
  BY <1>4 DEF Unheard, HasRequest, Contains
<1>7. NamesAreKnown
  BY <1>6 DEF ChatInit, ThreadsInit, NamesInit, NamesAreKnown, Given
<1> QED BY <1>1, <1>2, <1>3, <1>5, <1>7 DEF IInv, ChatInv

LEMMA InvNext == ASSUME IInv, [ChatNext]_clientVars PROVE IInv'
<1>1. CASE UNCHANGED clientVars
  <2>1. UNCHANGED <<ui, net, engine, typed, handled, batch, queue, names, screen, tty>>
    BY <1>1 DEF clientVars, threads
  <2> QED BY <2>1, Bystander
<1>2. ASSUME tty, TerminalMain \/ TerminalUser \/ TerminalNet, UNCHANGED <<names, tty>>
      PROVE  IInv'
  BY <1>2, TerminalKeeps
<1>3. ASSUME ~tty, LineMain \/ LineUser \/ LineNet, UNCHANGED <<screen, tty>>
      PROVE  IInv'
  BY <1>3, LineKeeps
<1> QED BY <1>1, <1>2, <1>3 DEF ChatNext, MainThread, NetworkThread, User

\* What was typed is nowhere lost, repeated or overtaken, what is aimed at a row
\* stays aimed at it, and names lead to whom they were given (submit, net_loop, on_key, cmd_add,
\* auto_alias): the invariant the three theorems below follow from.
THEOREM NothingLost == ChatSpec => []ChatInv
<1>1. IInv => ChatInv
  BY DEF IInv
<1> QED BY <1>1, InvInit, InvNext, PTL DEF ChatSpec

\* Commands are handled in the order they were typed, none twice and none
\* skipped, in both clients, however the threads interleave (submit, the swap
\* of the queue in run() and net_loop()).
THEOREM InOrder == ChatSpec => []HandledAsTyped
<1>1. ASSUME IInv PROVE HandledAsTyped
  <2> DEFINE commands == [i \in DOMAIN handled |-> handled[i].command]
  <2>1. /\ Len(handled) \in Nat /\ DOMAIN handled = 1 .. Len(handled)
        /\ Len(batch) \in Nat /\ Len(queue) \in Nat /\ Len(typed) \in Nat
    BY <1>1, ListedFacts DEF IInv, AllListed
  <2>2. commands \in Seq({handled[i].command : i \in DOMAIN handled}) /\ Len(commands) = Len(handled)
    BY <2>1
  <2>3. Listed(commands) /\ Listed(typed)
    BY <1>1, <2>2 DEF IInv, AllListed, Listed
  <2>4. Len(commands) <= Len(typed) /\ \A i \in 1 .. Len(commands) : commands[i] = typed[i]
    BY <1>1, <2>1, <2>2 DEF IInv, ChatInv, NothingSkipped
  <2> HIDE DEF commands
  <2>5. IsPrefix(commands, typed)
    BY <2>3, <2>4, ListedPrefix
  <2> QED BY <2>5 DEF HandledAsTyped, commands
<1> QED BY <1>1, InvInit, InvNext, PTL DEF ChatSpec

\* A message, an acceptance or a rejection reaches the peer that was drawn as
\* selected when the key was pressed (handle_enter, on_key, exec).
THEOREM ReachesTheDrawn == ChatSpec => []ActsOnDrawn
<1>1. ChatInv => ActsOnDrawn
  BY DEF ChatInv
<1> QED BY <1>1, NothingLost, PTL

\* The name a peer is shown under leads back to it; nowhere, if only the store
\* knew the peer; or to another peer that was given the name or whose key starts
\* with it (name_of, cmd_add, auto_alias, resolve).
THEOREM NamesLeadBack == ChatSpec => []ShownNameResolves
<1>1. ASSUME ChatInv PROVE ShownNameResolves
  <2> SUFFICES ASSUME ~tty, NEW p \in Contacts, NEW n, n = name_of(p), engine.trust[p] # "none"
               PROVE  \/ resolve(n) = p
                      \/ resolve(n) = Nobody /\ OnlyStored(p)
                      \/ \E q \in Contacts \ {p} : Given(n, q) \/ n = ShortKey(q)
    BY DEF ShownNameResolves
  <2>1. n \in AllNames
    BY <1>1 DEF ChatInv, NamesAreKnown, name_of, AllNames
  <2>2. CASE name_to_pk[n] # Nobody
    <3>1. resolve(n) = name_to_pk[n] /\ name_to_pk[n] \in Contacts
      BY <1>1, <2>1, <2>2 DEF ChatInv, NamesAreKnown, resolve
    <3>2. Given(n, name_to_pk[n]) \/ n = ShortKey(name_to_pk[n])
      BY <1>1, <2>1, <2>2 DEF ChatInv, NamesAreKnown
    <3> QED BY <3>1, <3>2
  <2>3. CASE name_to_pk[n] = Nobody
    <3>1. pk_to_name[p] = Nobody
      BY <1>1, <2>3 DEF ChatInv, NamesAreKnown, name_of
    <3>2. OnlyStored(p)
      BY <1>1, <3>1 DEF ChatInv, NamesAreKnown, Unheard, OnlyStored
    <3>3. n = ShortKey(p)
      BY <3>1 DEF name_of
    <3>4. \A q \in Contacts : n # Key(q)
      BY <3>3 DEF ShortKey, Key
    <3>5. resolve(n) = Nobody
      BY <2>1, <2>3, <3>4 DEF resolve
    <3> QED BY <3>2, <3>5
  <2> QED BY <2>2, <2>3
<1> QED BY <1>1, NothingLost, PTL
=============================================================================
