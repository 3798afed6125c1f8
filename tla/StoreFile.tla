------------------------------ MODULE StoreFile -----------------------------
(***************************************************************************)
(* The two files of a client: its identity (libs/storage/src/              *)
(* identity_store.cpp) and its contacts, messages and requests             *)
(* (store.cpp), both sealed under a passphrase (blob.cpp).  A process      *)
(* loads or creates them, saves after every change and may end at any      *)
(* time; a write may fail with or without notice, and files may be         *)
(* removed, mixed up or damaged.                                           *)
(***************************************************************************)
EXTENDS ByteFormat, SequencesExt

CONSTANTS Passphrases, Identities,         \* key pairs generate_identity may give
          Contacts, Messages, Requests,    \* what the engine stores
          PublicKeyBytes, SecretKeyBytes,
          MaxMessages, MaxSalts, MaxFaults, MaxHarm

kPayloadVersion == 2
kFileVersion == 1
TrustStatus == 0 .. 3      \* Pending, Accepted, Rejected, Blocked

ASSUME StoreAssumption ==
    /\ Base > 3 /\ U32 > 1
    /\ Identities \subseteq [public_key : Seq(Byte), secret_key : Seq(Byte)]
    /\ \A i \in Identities :
          Len(i.public_key) = PublicKeyBytes /\ Len(i.secret_key) = SecretKeyBytes
    /\ PublicKeyBytes < Limit[U16] /\ SecretKeyBytes < Limit[U16]
    /\ Contacts \subseteq [public_key : Seq(Byte), nickname : Seq(Byte),
                          trust : TrustStatus, last_seen : 0 .. Limit[U64] - 1]
    /\ Messages \subseteq [peer : Seq(Byte), text : Seq(Byte),
                          outgoing : BOOLEAN, timestamp : 0 .. Limit[U64] - 1]
    /\ Requests \subseteq [peer : Seq(Byte), greeting : Seq(Byte),
                          timestamp : 0 .. Limit[U64] - 1]
    /\ {MaxMessages, MaxSalts, MaxFaults, MaxHarm} \subseteq Nat

VARIABLES disk,        \* the file at either path
          phase,       \* of the process: stopped, started, running
          pass,        \* the passphrase it was given
          me,          \* its identity
          store,       \* contacts_, messages_, requests_
          persistent, salt,
          written,     \* history: per path, the last file written completely
                       \* and the value in memory it was made from
          misread,     \* history: a file was opened that cannot say what it was made from
          salts, faults, harm

memory == <<phase, pass, me, store, persistent, salt>>
vars == <<disk, memory, written, misread, salts, faults, harm>>

-----------------------------------------------------------------------------
(* The plaintext of the files *)

NoIdentity == [public_key |-> <<>>, secret_key |-> <<>>]
EmptyStore == [contacts |-> <<>>, messages |-> <<>>, requests |-> <<>>]

PutContact(c) ==
    put_bytes(c.public_key) \o put_bytes(c.nickname)
        \o put_uint(1, c.trust) \o put_uint(U64, c.last_seen)

\* Fault: the text is written where the peer is read.
PutMessageSwapped(m) ==
    put_bytes(m.text) \o put_bytes(m.peer)
        \o put_uint(1, IF m.outgoing THEN 1 ELSE 0) \o put_uint(U64, m.timestamp)

PutMessage(m) ==
    put_bytes(m.peer) \o put_bytes(m.text)
        \o put_uint(1, IF m.outgoing THEN 1 ELSE 0) \o put_uint(U64, m.timestamp)

PutRequest(q) ==
    put_bytes(q.peer) \o put_bytes(q.greeting) \o put_uint(U64, q.timestamp)

PutElement(kind, e) ==
    CASE kind = "contact" -> PutContact(e)
      [] kind = "message" -> PutMessage(e)
      [] kind = "request" -> PutRequest(e)

\* The bytes of the first k elements, for every k.
PutElements(kind, s) ==
    LET B[k \in 0 .. Len(s)] == IF k = 0 THEN <<>> ELSE B[k - 1] \o PutElement(kind, s[k]) IN B

\* A count and then the bytes of every element.
PutList(kind, s) == put_uint(U32, Len(s)) \o PutElements(kind, s)[Len(s)]

encode_contacts(contacts) == PutList("contact", contacts)

encode(s) ==
    put_uint(1, kPayloadVersion) \o encode_contacts(s.contacts)
        \o PutList("message", s.messages) \o PutList("request", s.requests)

\* The cursor r, with what was made of the values read so far.
Made(r, v) == [ok |-> r.ok, rest |-> r.rest, value |-> v]

ReadContact(r) ==
    LET key  == read_bytes(r)
        name == read_bytes(key)
        tr   == read_uint(1, name)
        seen == read_uint(U64, tr)
    IN  Made(seen, [public_key |-> key.value, nickname |-> name.value,
                   trust |-> tr.value, last_seen |-> seen.value])

ReadMessage(r) ==
    LET peer == read_bytes(r)
        text == read_bytes(peer)
        og   == read_uint(1, text)
        ts   == read_uint(U64, og)
    IN  Made(ts, [peer |-> peer.value, text |-> text.value,
                 outgoing |-> og.value # 0, timestamp |-> ts.value])

ReadRequest(r) ==
    LET peer  == read_bytes(r)
        greet == read_bytes(peer)
        ts    == read_uint(U64, greet)
    IN  Made(ts, [peer |-> peer.value, greeting |-> greet.value, timestamp |-> ts.value])

ReadElement(kind, r) ==
    CASE kind = "contact" -> ReadContact(r)
      [] kind = "message" -> ReadMessage(r)
      [] kind = "request" -> ReadRequest(r)

\* What was read before, with one more element.
WithOne(before, one) == Made(one, Append(before.value, one.value))

ReadNext(kind, before) == WithOne(before, ReadElement(kind, before))

\* The cursor after k elements, with the sequence of them, for every k up to n.
ReadElements(kind, r, n) ==
    LET A[k \in 0 .. n] == IF k = 0 THEN Made(r, <<>>) ELSE ReadNext(kind, A[k - 1]) IN A

\* decode_contacts and the two loops of decode: a count and as many elements.
ReadList(kind, r) ==
    LET count == read_uint(U32, r)
    IN  IF count.ok THEN ReadElements(kind, count, count.value)[count.value] ELSE count

\* The current format begins with its version, the legacy one with the number
\* of contacts, whose first byte is small.
IsCurrent(blob) == blob # <<>> /\ blob[1] = kPayloadVersion

\* The lists of the current format, one after the other.
ThenRequests(c, m) ==
    LET q == ReadList("request", m)
    IN  [end |-> q, store |-> [contacts |-> c.value, messages |-> m.value, requests |-> q.value]]

ThenMessages(c) == ThenRequests(c, ReadList("message", c))

ReadCurrent(blob) == ThenMessages(ReadList("contact", read_uint(1, Reader(blob))))

ReadLegacy(blob) ==
    LET c == ReadList("contact", Reader(blob))
    IN  [end |-> c, store |-> [EmptyStore EXCEPT !.contacts = c.value]]

ReadStore(blob) == IF IsCurrent(blob) THEN ReadCurrent(blob) ELSE ReadLegacy(blob)

\* What decode accepts, and what it then makes of it.
CanDecode(blob) == done(ReadStore(blob).end)

decode(blob) == ReadStore(blob).store

PutIdentity(i) == put_bytes(i.public_key) \o put_bytes(i.secret_key)

ReadIdentity(text) ==
    LET public == read_bytes(Reader(text))
        secret == read_bytes(public)
    IN  [end |-> secret, identity |-> [public_key |-> public.value, secret_key |-> secret.value]]

MadeIdentity(text) == ReadIdentity(text).identity

valid(i) ==
    Len(i.public_key) = PublicKeyBytes /\ Len(i.secret_key) = SecretKeyBytes

-----------------------------------------------------------------------------
(* The sealed file *)

Magic == [identity |-> "OMID", store |-> "OMDB"]

derive_key(phrase, s) == <<phrase, s>>

Header(f) == <<f.magic, f.version, f.salt>>

NoSeal == [key |-> <<"none", 0>>, aad |-> <<>>, text |-> <<>>]
NoFile == [magic |-> "none", version |-> 0, salt |-> 0, sealed |-> NoSeal]
ShortFile == [NoFile EXCEPT !.magic = "short"]

Sealed(magic, s, phrase, text) ==
    [magic |-> magic, version |-> kFileVersion, salt |-> s,
     sealed |-> [key |-> derive_key(phrase, s),
                 aad |-> <<magic, kFileVersion, s>>, text |-> text]]

\* Fault: any of the program's files will do.
AnyHeader(f, magic) == f.magic \in {"OMID", "OMDB"} /\ f.version = kFileVersion

valid_header(f, magic) == f.magic = magic /\ f.version = kFileVersion

\* read_salt, derive_key and read_blob: the file opens under its key, and the
\* header is bound as associated data.
CanUnseal(f, magic, phrase) ==
    /\ valid_header(f, magic)
    /\ f.sealed.key = derive_key(phrase, f.salt)
    /\ f.sealed.aad = Header(f)

CanLoadIdentity(f, phrase) ==
    /\ CanUnseal(f, Magic.identity, phrase)
    /\ done(ReadIdentity(f.sealed.text).end)
    /\ valid(MadeIdentity(f.sealed.text))

CanLoadStore(f, phrase) ==
    CanUnseal(f, Magic.store, phrase) /\ CanDecode(f.sealed.text)

\* What the lengths and counts of the file can say.  Nothing limits a nickname
\* before it is saved, and put_str keeps the low bytes of its length.
Short(b) == Len(b) < Limit[U16]

Fits(st) ==
    /\ Len(st.contacts) < Limit[U32]
    /\ Len(st.messages) < Limit[U32]
    /\ Len(st.requests) < Limit[U32]
    /\ \A i \in DOMAIN st.contacts :
          Short(st.contacts[i].public_key) /\ Short(st.contacts[i].nickname)
    /\ \A i \in DOMAIN st.messages :
          Short(st.messages[i].peer) /\ Short(st.messages[i].text)
    /\ \A i \in DOMAIN st.requests :
          Short(st.requests[i].peer) /\ Short(st.requests[i].greeting)

\* write_blob fills a temporary file and renames it over the path.
Replaced(path, file, value) ==
    /\ disk' = [disk EXCEPT ![path] = file]
    /\ written' = [written EXCEPT ![path] = [file |-> file, value |-> value]]
    /\ UNCHANGED faults

\* It fails and says so, and the path is left alone.
WriteFails ==
    /\ faults < MaxFaults
    /\ faults' = faults + 1
    /\ UNCHANGED <<disk, written>>

\* The stream's buffer does not reach the disk, which nobody looks at once the
\* stream is closed, and the short file is renamed over the path.
WriteFallsShort(path) ==
    /\ faults < MaxFaults
    /\ faults' = faults + 1
    /\ disk' = [disk EXCEPT ![path] = ShortFile]
    /\ UNCHANGED written

\* Store::save with all its outcomes; no caller looks at the result.
save(s, st, phrase) ==
    \/ Replaced("store", Sealed(Magic.store, s, phrase, encode(st)), st)
    \/ WriteFails
    \/ WriteFallsShort("store")

-----------------------------------------------------------------------------
(* The process *)

\* main: load the identity, and give up if that fails.
LoadIdentity(phrase) ==
    /\ phase = "stopped"
    /\ disk.identity # NoFile
    /\ CanLoadIdentity(disk.identity, phrase)
    /\ phase' = "started"
    /\ pass' = phrase
    /\ me' = MadeIdentity(disk.identity.sealed.text)
    /\ UNCHANGED <<disk, store, persistent, salt, written, misread, salts, faults, harm>>

\* main: create an identity, and give up if it cannot be saved.
CreateIdentity(phrase, i) ==
    /\ phase = "stopped"
    /\ disk.identity = NoFile
    /\ salts < MaxSalts
    /\ salts' = salts + 1
    /\ \/ /\ \/ Replaced("identity",
                         Sealed(Magic.identity, salts', phrase, PutIdentity(i)), i)
             \/ WriteFallsShort("identity")
          /\ phase' = "started"
          /\ pass' = phrase
          /\ me' = i
       \/ WriteFails /\ UNCHANGED <<phase, pass, me>>
    /\ UNCHANGED <<store, persistent, salt, misread, harm>>

\* Fault: a store whose file was refused saves to it all the same.
RefusedButPersistent ==
    /\ store' = EmptyStore
    /\ persistent' = TRUE
    /\ salt' = disk.store.salt

\* A file that cannot be read leaves the store as constructed; main goes on.
RefuseStore ==
    /\ store' = EmptyStore
    /\ persistent' = FALSE
    /\ salt' = 0

\* Store::open on an existing file.
OpenStore ==
    /\ phase = "started"
    /\ phase' = "running"
    /\ disk.store # NoFile
    /\ \/ /\ CanLoadStore(disk.store, pass)
          /\ store' = decode(disk.store.sealed.text)
          /\ persistent' = TRUE
          /\ salt' = disk.store.salt
          /\ misread' = (misread \/ ~Fits(written.store.value))
       \/ ~CanLoadStore(disk.store, pass) /\ RefuseStore /\ UNCHANGED misread
    /\ UNCHANGED <<disk, pass, me, written, salts, faults, harm>>

\* Store::open without a file: the new store is persistent even if the first
\* save fails.
CreateStore ==
    /\ phase = "started"
    /\ phase' = "running"
    /\ disk.store = NoFile
    /\ salts < MaxSalts
    /\ salts' = salts + 1
    /\ salt' = salts'
    /\ persistent' = TRUE
    /\ store' = EmptyStore
    /\ save(salt', store', pass)
    /\ UNCHANGED <<pass, me, misread, harm>>

\* What every mutation ends in.
AutoSave ==
    /\ \/ persistent /\ save(salt, store', pass)
       \/ ~persistent /\ UNCHANGED <<disk, written, faults>>
    /\ UNCHANGED <<phase, pass, me, persistent, salt, misread, salts, harm>>

Known(c) == {i \in DOMAIN store.contacts : store.contacts[i].public_key = c.public_key}

\* Fault: a known contact is replaced in memory and not in the file.
UpsertForgets(c) ==
    /\ phase = "running"
    /\ \/ /\ Known(c) = {}
          /\ store' = [store EXCEPT !.contacts = Append(@, c)]
          /\ AutoSave
       \/ /\ Known(c) # {}
          /\ store' = [store EXCEPT !.contacts[Min(Known(c))] = c]
          /\ UNCHANGED <<disk, written, faults, phase, pass, me, persistent, salt,
                         misread, salts, harm>>

\* The first contact with this key is replaced, a new one is appended.
Upsert(c) ==
    /\ phase = "running"
    /\ store' = IF Known(c) = {}
                THEN [store EXCEPT !.contacts = Append(@, c)]
                ELSE [store EXCEPT !.contacts[Min(Known(c))] = c]
    /\ AutoSave

AppendMessage(m) ==
    /\ phase = "running"
    /\ Len(store.messages) < MaxMessages
    /\ store' = [store EXCEPT !.messages = Append(@, m)]
    /\ AutoSave

\* Fault: a second request of a peer is kept beside the first.
AddRequestAgain(q) ==
    /\ phase = "running"
    /\ Len(store.requests) < 3
    /\ store' = [store EXCEPT !.requests = Append(@, q)]
    /\ AutoSave

AddRequest(q) ==
    /\ phase = "running"
    /\ \A i \in DOMAIN store.requests : store.requests[i].peer # q.peer
    /\ store' = [store EXCEPT !.requests = Append(@, q)]
    /\ AutoSave

\* The first k requests of s without those of a peer, for every k.
Without(s, peer) ==
    LET K[k \in 0 .. Len(s)] ==
            IF k = 0 THEN <<>>
            ELSE IF s[k].peer = peer THEN K[k - 1] ELSE Append(K[k - 1], s[k])
    IN  K

\* Nothing is saved when there was nothing to remove.
RemoveRequest(peer) ==
    /\ phase = "running"
    /\ \E i \in DOMAIN store.requests : store.requests[i].peer = peer
    /\ store' = [store EXCEPT !.requests = Without(@, peer)[Len(@)]]
    /\ AutoSave

Exit ==
    /\ phase # "stopped"
    /\ phase' = "stopped"
    /\ pass' = ""
    /\ me' = NoIdentity
    /\ store' = EmptyStore
    /\ persistent' = FALSE
    /\ salt' = 0
    /\ UNCHANGED <<disk, written, misread, salts, faults, harm>>

\* A file is removed, overwritten by the other one, or damaged in its header or
\* in its sealed part.
Harmed(f, other) ==
    {NoFile, other, [f EXCEPT !.version = 0], [f EXCEPT !.sealed = NoSeal]}
        \cup {[f EXCEPT !.magic = other.magic], [f EXCEPT !.salt = other.salt]}

\* Nothing is expected of a file that was removed.
Absent == [identity |-> [file |-> NoFile, value |-> NoIdentity],
           store    |-> [file |-> NoFile, value |-> EmptyStore]]

Harm ==
    /\ harm < MaxHarm
    /\ harm' = harm + 1
    /\ \E p, o \in DOMAIN disk :
          /\ p # o
          /\ disk[p] # NoFile
          /\ \E f \in Harmed(disk[p], disk[o]) \ {disk[p]} :
                /\ disk' = [disk EXCEPT ![p] = f]
                /\ written' = IF f = NoFile THEN [written EXCEPT ![p] = Absent[p]]
                                            ELSE written
    /\ UNCHANGED <<memory, misread, salts, faults>>

\* The files an older version left: an identity and the contacts-only store.
LegacyFiles(phrase, i, contacts) ==
    [identity |-> [file  |-> Sealed(Magic.identity, 1, phrase, PutIdentity(i)),
                   value |-> i],
     store    |-> [file  |-> Sealed(Magic.store, 2, phrase, encode_contacts(contacts)),
                   value |-> [EmptyStore EXCEPT !.contacts = contacts]]]

Init ==
    /\ phase = "stopped"
    /\ pass = ""
    /\ me = NoIdentity
    /\ store = EmptyStore
    /\ persistent = FALSE
    /\ salt = 0
    /\ misread = FALSE
    /\ faults = 0
    /\ harm = 0
    /\ \/ written = Absent /\ salts = 0
       \/ /\ \E p \in Passphrases, i \in Identities,
                c \in {<<>>} \cup {<<c>> : c \in Contacts} :
                written = LegacyFiles(p, i, c)
          /\ salts = 2
    /\ disk = [p \in DOMAIN written |-> written[p].file]

Next ==
    \/ \E p \in Passphrases :
          LoadIdentity(p) \/ \E i \in Identities : CreateIdentity(p, i)
    \/ OpenStore
    \/ CreateStore
    \/ \E c \in Contacts : Upsert(c)
    \/ \E m \in Messages : AppendMessage(m)
    \/ \E q \in Requests : AddRequest(q) \/ RemoveRequest(q.peer)
    \/ Exit
    \/ Harm

Spec == Init /\ [][Next]_vars

-----------------------------------------------------------------------------
\* A file that nothing happened to since it was written loads, under the
\* passphrase it was written with, as exactly what was in memory then, whichever
\* version wrote it, if and only if every length and count in it could be written
\* (put_str and put_u16, blob.hpp): one nickname that is too long, and the store
\* with all its history is refused or read as another one.
FileHoldsSaved ==
    /\ disk.identity # NoFile /\ disk.identity = written.identity.file =>
          /\ CanLoadIdentity(disk.identity, disk.identity.sealed.key[1])
          /\ MadeIdentity(disk.identity.sealed.text) = written.identity.value
    /\ disk.store # NoFile /\ disk.store = written.store.file =>
          (Fits(written.store.value) <=>
              /\ CanLoadStore(disk.store, disk.store.sealed.key[1])
              /\ decode(disk.store.sealed.text) = written.store.value)

\* "After open(), mutations auto-persist" (store.hpp:30): if no write failed and
\* no file was misread, a running client's file was made from all that it has in
\* memory.
MutationsAreSaved ==
    phase = "running" /\ persistent /\ faults = 0 /\ ~misread /\ written.store.file # NoFile
        => written.store.value = store

\* A file opens under some passphrase only if it is, unchanged, the one that was
\* last written to that path: neither damage nor the other file passes.
OpensOnlyWritten ==
    \A p \in DOMAIN disk, phrase \in Passphrases :
        CanUnseal(disk[p], Magic[p], phrase) => disk[p] = written[p].file

\* The store holds at most one contact per key and one request per peer, also
\* after it was saved and loaded again, unless it was misread.
OneEntryPerKey ==
    ~misread =>
        /\ \A i, j \in DOMAIN store.contacts :
              store.contacts[i].public_key = store.contacts[j].public_key => i = j
        /\ \A i, j \in DOMAIN store.requests :
              store.requests[i].peer = store.requests[j].peer => i = j

\* As long as the file is not removed, the history in it only grows: a client
\* that could not read the file, after a short write, damage, with another
\* passphrase or because of a nickname that is too long, never replaces it by its
\* own empty store.  Only a file that could be misread may be replaced by what was
\* made of it.
HistoryOnlyGrows ==
    [][written'.store # written.store /\ disk.store # NoFile
           /\ disk'.store # NoFile /\ ~misread
         => IsPrefix(written.store.value.messages,
                     written'.store.value.messages)]_vars
=============================================================================
