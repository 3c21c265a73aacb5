------------------------------ MODULE FrontDoor ------------------------------
(***************************************************************************)
(* How a device finds this host and knows it again: the identity file      *)
(* (identity.go), the TLS listener (transport.go), the Bonjour record      *)
(* (bonjour), and the code a pairing window shows (QR, pairing.go), over   *)
(* several runs of the host process.                                       *)
(*                                                                         *)
(* One process runs at a time.  It creates or loads its identity, listens  *)
(* once on an ephemeral port, and may die at any moment.  The phone is     *)
(* external: it scans a code, dials the port, and trusts who shows the     *)
(* certificate it pinned.  Key generation, x509 and the escaping of URLs   *)
(* are libraries: an identity is a number, everything in it minted         *)
(* together, and a URL is the function of its query parameters.            *)
(***************************************************************************)
EXTENDS Integers, FiniteSets, SequencesExt

CONSTANTS
    Octet,          \* 256
    Ports,          \* ports the system may bind
    Interfaces,     \* what net.InterfaceAddrs may answer
    HostName,       \* what the embedder calls the host; may be empty
    MaxStarts,      \* bound on the runs of the process
    MaxWindows      \* bound on the pairing windows

Nil == <<>>
Text == Seq(Nat)
Comma == 44

\* net.IP.String writes digits, dots and colons, and never nothing.
ASSUME FrontDoorConstants ==
    /\ Octet \in Nat \ {0} /\ Ports \subseteq 1..Octet * Octet - 1
    /\ Interfaces \subseteq Seq([ip : Text, v4 : BOOLEAN, loopback : BOOLEAN,
                                 linkLocal : BOOLEAN])
    /\ \A ifaces \in Interfaces : \A i \in DOMAIN ifaces :
         ifaces[i].ip # Nil /\ Comma \notin Range(ifaces[i].ip)
    /\ HostName \in Text
    /\ MaxStarts \in Nat /\ MaxWindows \in Nat

VARIABLES
    file, tmp,      \* the identity file and its temporary
    backup,         \* what a file that was damaged held
    proc,           \* where the process is
    id,             \* its identity, 0 for none
    starts, minted, \* runs so far, identities minted so far
    listener, port, \* Listener.srv and Listener.port
    done,           \* Listener.done: an error not taken yet
    build,          \* which of the two bonjour implementations is compiled in
    advert,         \* the record the network sees, while there is one
    responder,      \* the advertiser's goroutine
    secret,         \* Manager.secret, 0 for no window
    code,           \* the code shown last: what it says, and its URL
    paired          \* what the phones have pinned

disk == <<file, tmp, backup>>
door == <<listener, port, done>>
bonjour == <<build, advert, responder>>
window == <<secret, code>>
vars == <<disk, proc, id, starts, minted, door, bonjour, window, paired>>

\* A file that is not there, half written, or does not parse.
None == 0
Half == -1
Bad == -2

Init ==
    /\ file = None /\ tmp = None /\ backup = None
    /\ proc = "off" /\ id = None
    /\ starts = 0 /\ minted = 0
    /\ listener = "none" /\ port = 0 /\ done = Nil
    /\ build \in {"darwin", "other"} /\ advert = Nil /\ responder = "none"
    /\ secret = 0 /\ code = Nil
    /\ paired = {}

-----------------------------------------------------------------------------
(* The identity *)

HostID(n) == <<100 + n>>
SPKIPin(n) == <<200 + n>>
TrustDomainID(n) == <<300 + n>>

\* load: JSON, seed, key pair and trust domain.
Loads(f) == f > 0

\* Mutant: a file that does not load is replaced.
LoadOrCreateReplaces ==
    /\ proc = "off" /\ starts < MaxStarts
    /\ starts' = starts + 1
    /\ IF Loads(file) THEN proc' = "ready" /\ id' = file
       ELSE proc' = "create" /\ id' = None
    /\ UNCHANGED <<disk, minted, door, bonjour, window, paired>>

\* Only a file that is not there is created; any other error is returned.
LoadOrCreate ==
    /\ proc = "off" /\ starts < MaxStarts
    /\ starts' = starts + 1
    /\ \/ Loads(file) /\ proc' = "ready" /\ id' = file
       \/ file = None /\ proc' = "create" /\ id' = None
       \/ proc' = "off" /\ id' = None       \* reading or loading failed
    /\ UNCHANGED <<disk, minted, door, bonjour, window, paired>>

\* Mutant: the file itself is written.
CreateInPlace ==
    /\ proc = "create" /\ proc' = "write"
    /\ minted' = minted + 1 /\ id' = minted + 1
    /\ file' = Half
    /\ UNCHANGED <<tmp, backup, starts, door, bonjour, window, paired>>

\* The keys are minted, and os.WriteFile truncates and begins to write.
CreateBegin ==
    /\ proc = "create" /\ proc' = "write"
    /\ minted' = minted + 1 /\ id' = minted + 1
    /\ tmp' = Half
    /\ UNCHANGED <<file, backup, starts, door, bonjour, window, paired>>

CreateWritten ==
    /\ proc = "write" /\ proc' = "rename"
    /\ tmp' = id
    /\ UNCHANGED <<file, backup, id, starts, minted, door, bonjour, window, paired>>

CreateRename ==
    /\ proc = "rename" /\ proc' = "ready"
    /\ file' = tmp /\ tmp' = None
    /\ UNCHANGED <<backup, id, starts, minted, door, bonjour, window, paired>>

CreateFails ==
    /\ proc \in {"create", "write", "rename"} /\ proc' = "off"
    /\ id' = None
    /\ UNCHANGED <<disk, starts, minted, door, bonjour, window, paired>>

\* Not the host's doing: the file is damaged, and brought back.
Damage ==
    /\ Loads(file) /\ backup' = file /\ file' = Bad
    /\ UNCHANGED <<tmp, proc, id, starts, minted, door, bonjour, window, paired>>

Restore ==
    /\ file = Bad /\ file' = backup /\ backup' = None
    /\ UNCHANGED <<tmp, proc, id, starts, minted, door, bonjour, window, paired>>

\* The process ends, with everything it held in memory.  Darwin's daemon takes
\* the record back at once; the responder of the other build dies too, and what
\* it last told the network is there a while unless it could still say goodbye.
Die ==
    /\ proc # "off" /\ proc' = "off"
    /\ id' = None
    /\ listener' = "none" /\ port' = 0 /\ done' = Nil
    /\ advert' \in (IF build = "darwin" THEN {Nil} ELSE {Nil, advert})
    /\ responder' = "none"
    /\ secret' = 0
    /\ UNCHANGED <<disk, starts, minted, build, code, paired>>

-----------------------------------------------------------------------------
(* The listener *)

Listen(p) ==
    /\ proc = "ready" /\ listener = "none"
    /\ listener' = "serving" /\ port' = p
    /\ UNCHANGED <<disk, proc, id, starts, minted, done, bonjour, window, paired>>

\* ServeTLS returns an error other than ErrServerClosed.
ServeFails ==
    /\ listener = "serving" /\ listener' = "failed"
    /\ done' = <<"error">>
    /\ UNCHANGED <<disk, proc, id, starts, minted, port, bonjour, window, paired>>

\* The failure once.  Before it, and after it from the closed channel, Err
\* returns nil and leaves everything as it is.
Err ==
    /\ done # Nil /\ done' = Nil
    /\ UNCHANGED <<disk, proc, id, starts, minted, listener, port, bonjour, window, paired>>

\* http.Server.Shutdown closes the listener; the wait for the handlers is its own.
Shutdown ==
    /\ listener = "serving" /\ listener' = "closed"
    /\ UNCHANGED <<disk, proc, id, starts, minted, port, done, bonjour, window, paired>>

-----------------------------------------------------------------------------
(* The advertisement *)

\* The port's two bytes, swapped.
networkOrder(p) == ((p % Octet) * Octet) + ((p \div Octet) % Octet)

txt(n) == [v |-> 1, hid |-> HostID(n), td |-> TrustDomainID(n), pv |-> 1]

Register(p) ==
    /\ listener = "serving" /\ responder = "none"
    /\ advert' = <<[port |-> p, txt |-> txt(id)]>>
    /\ responder' = "running"
    /\ UNCHANGED <<disk, proc, id, starts, minted, door, build, window, paired>>

\* Mutant: the port is registered in the machine's own order.
AdvertiseHostOrder == Register(port)

\* DNSServiceRegister takes the port in network order, dnssd as it is.
Advertise == Register(IF build = "darwin" THEN networkOrder(port) ELSE port)

\* Stop, or the end of the context: the goroutine is told.
Stop ==
    /\ responder = "running" /\ responder' = "stopping"
    /\ UNCHANGED <<disk, proc, id, starts, minted, door, build, advert, window, paired>>

\* DNSServiceRefDeallocate, or Respond returns and has said goodbye.
Withdraw ==
    /\ responder = "stopping" /\ responder' = "none"
    /\ advert' = Nil
    /\ UNCHANGED <<disk, proc, id, starts, minted, door, build, window, paired>>

\* Not the host's doing: a record nobody renews is forgotten.
RecordExpires ==
    /\ advert # Nil /\ responder = "none"
    /\ advert' = Nil
    /\ UNCHANGED <<disk, proc, id, starts, minted, door, build, responder, window, paired>>

\* The port a device that resolves the record dials.
Resolved(record) == IF build = "darwin" THEN networkOrder(record.port) ELSE record.port

-----------------------------------------------------------------------------
(* The code *)

\* strings.Join(addrs, ",")
Join(addrs) ==
    LET joined[i \in 0..Len(addrs)] ==
          IF i = 0 THEN Nil
          ELSE IF i = 1 THEN addrs[i]
          ELSE joined[i - 1] \o <<Comma>> \o addrs[i]
    IN joined[Len(addrs)]

\* strings.Split(s, ","): a comma begins a piece, any other byte extends the
\* last; a text without a comma is one piece.
Cut(pieces, b) ==
    IF b = Comma THEN Append(pieces, Nil)
    ELSE [pieces EXCEPT ![Len(pieces)] = Append(@, b)]

Split(s) ==
    LET pieces[i \in 0..Len(s)] == IF i = 0 THEN <<Nil>> ELSE Cut(pieces[i - 1], s[i])
    IN pieces[Len(s)]

\* strconv.Itoa takes the digits off from the last to the first.
Itoa(n) ==
    LET rest[i \in 0..n + 1] == IF i = 0 THEN n ELSE rest[i - 1] \div 10
        digits == CHOOSE k \in 1..n + 1 : rest[k] = 0 /\ \A j \in 1..k - 1 : rest[j] # 0
    IN [i \in 1..digits |-> 48 + (rest[digits - i] % 10)]

Atoi(s) ==
    LET value[i \in 0..Len(s)] == IF i = 0 THEN 0 ELSE 10 * value[i - 1] + (s[i] - 48)
    IN value[Len(s)]

\* transport.Addrs: IPv4 only, neither loopback nor link-local.
Addrs(ifaces) ==
    LET Direct(a) == a.v4 /\ ~a.loopback /\ ~a.linkLocal
        out[i \in 0..Len(ifaces)] ==
          IF i = 0 THEN Nil
          ELSE IF Direct(ifaces[i]) THEN Append(out[i - 1], ifaces[i].ip) ELSE out[i - 1]
    IN out[Len(ifaces)]

\* Empty optional fields are omitted.
URL(q) ==
    [k \in {"v", "hid", "spki", "s", "p"}
           \cup (IF q.TrustDomainID # Nil THEN {"td"} ELSE {})
           \cup (IF q.HostName # Nil THEN {"n"} ELSE {})
           \cup (IF q.Addrs # Nil THEN {"a"} ELSE {}) |->
        CASE k = "v" -> <<49>> [] k = "hid" -> q.HostID [] k = "spki" -> q.SPKIPin
          [] k = "s" -> q.Secret [] k = "p" -> Itoa(q.Port)
          [] k = "td" -> q.TrustDomainID [] k = "n" -> q.HostName
          [] k = "a" -> Join(q.Addrs)]

\* url.Values.Get
Get(u, k) == IF k \in DOMAIN u THEN u[k] ELSE Nil

Fields(u, addrs) ==
    [HostID |-> Get(u, "hid"), TrustDomainID |-> Get(u, "td"),
     HostName |-> Get(u, "n"), SPKIPin |-> Get(u, "spki"), Secret |-> Get(u, "s"),
     Port |-> Atoi(Get(u, "p")), Addrs |-> addrs]

Complete(u) ==
    /\ Get(u, "v") = <<49>>
    /\ Get(u, "p") # Nil /\ Atoi(Get(u, "p")) \in 1..Octet * Octet - 1
    /\ Get(u, "hid") # Nil /\ Get(u, "spki") # Nil /\ Get(u, "s") # Nil

\* Mutant: the hints are split whether there are any or not.
ParseURLSplits(u) ==
    IF Complete(u) THEN <<Fields(u, Split(Get(u, "a")))>> ELSE Nil

ParseURL(u) ==
    IF Complete(u)
    THEN <<Fields(u, IF Get(u, "a") = Nil THEN Nil ELSE Split(Get(u, "a")))>>
    ELSE Nil

\* Manager.Open, and the code the embedder makes of it, with or without the
\* trust domain.
OpenWindow(ifaces, td) ==
    LET s == IF code = Nil THEN 1 ELSE code[1].says.Secret[1] + 1
        q == [HostID |-> HostID(id), TrustDomainID |-> td, HostName |-> HostName,
              SPKIPin |-> SPKIPin(id), Secret |-> <<s>>, Port |-> port,
              Addrs |-> Addrs(ifaces)] IN
    /\ listener = "serving" /\ s <= MaxWindows
    /\ secret' = s
    /\ code' = <<[says |-> q, url |-> URL(q)]>>
    /\ UNCHANGED <<disk, proc, id, starts, minted, door, bonjour, paired>>

\* Manager.Close, or the window's time is over.
CloseWindow ==
    /\ secret # 0 /\ secret' = 0
    /\ UNCHANGED <<disk, proc, id, starts, minted, door, bonjour, code, paired>>

\* Server.GetHostInfo
HostInfo == [HostId |-> HostID(id), HostName |-> HostName,
             TrustDomainId |-> TrustDomainID(id), PairingOpen |-> secret # 0]

\* A phone scans the code shown last, however long ago, dials, finds the
\* pinned certificate, and redeems the secret.
Pair ==
    /\ code # Nil /\ listener = "serving"
    /\ LET q == ParseURL(code[1].url) IN
       /\ q # Nil /\ q[1].Port = port /\ q[1].SPKIPin = SPKIPin(id)
       /\ q[1].Secret = <<secret>> /\ HostInfo.PairingOpen
       /\ paired' = paired \cup {[hid |-> q[1].HostID, spki |-> q[1].SPKIPin,
                                  td |-> HostInfo.TrustDomainId]}
    /\ secret' = 0
    /\ UNCHANGED <<disk, proc, id, starts, minted, door, bonjour, code>>

-----------------------------------------------------------------------------
Next ==
    \/ LoadOrCreate \/ CreateBegin \/ CreateWritten \/ CreateRename \/ CreateFails
    \/ Damage \/ Restore \/ Die
    \/ \E p \in Ports : Listen(p)
    \/ ServeFails \/ Err \/ Shutdown
    \/ Advertise \/ Stop \/ Withdraw \/ RecordExpires
    \/ \E ifaces \in Interfaces, td \in {Nil, TrustDomainID(id)} : OpenWindow(ifaces, td)
    \/ CloseWindow \/ Pair

Spec == Init /\ [][Next]_vars

-----------------------------------------------------------------------------
(* Properties *)

Up == proc = "ready"

\* "replacing an identity orphans every paired device" (LoadOrCreate): every
\* run of the host that comes up is the one the paired devices know, by its
\* id, its certificate and its trust domain, whatever happened to earlier runs,
\* and although the file was damaged in between.  (A file that is removed makes
\* a new host, as the code intends.)
PairedStillTrusted ==
    \A d \in paired : Up =>
        d = [hid |-> HostInfo.HostId, spki |-> SPKIPin(id), td |-> HostInfo.TrustDomainId]

\* "never leave a half-written identity for the next boot to half-load"
\* (create): a host that is up can be started again, and is then the same.
ComesBackTheSame ==
    /\ file # Half
    /\ Up => file = id \/ (file = Bad /\ backup = id)

\* The code of an open window leads to this listener and to this identity:
\* ParseURL gives back what the host put into URL, hints or no hints.
CodeLeadsHere ==
    secret # 0 /\ listener = "serving" =>
        LET q == ParseURL(code[1].url) IN
        /\ q = <<code[1].says>>
        /\ q[1].Port = port /\ q[1].Secret = <<secret>>
        /\ q[1].HostID = HostInfo.HostId /\ q[1].SPKIPin = SPKIPin(id)

\* "a phone matches paired hosts by the hid field" (bonjour): the record on the
\* network names the host that is up, the one an earlier run left behind too;
\* while a run advertises, the port a device resolves is the one this run bound;
\* and on darwin "the advertisement dies with the process".
AdvertLeadsHere ==
    advert # Nil => /\ Up => advert[1].txt.hid = HostInfo.HostId
                    /\ responder # "none" => Resolved(advert[1]) = port
                    /\ build = "darwin" => Up

-----------------------------------------------------------------------------
(* The inductive invariant of FrontDoorProofs *)

\* The identity file, or what it held before it was damaged, is the identity
\* of a process that is up; one is made only while there is none.
IdentityInv ==
    /\ minted \in Nat /\ id \in 0..minted
    /\ file \in (0..minted) \cup {Bad}
    /\ file = Bad => backup \in 1..minted
    /\ proc \in {"off", "create", "write", "rename", "ready"}
    /\ proc \in {"create", "write", "rename"} => file = None
    /\ proc \in {"write", "rename", "ready"} => id > 0
    /\ proc = "rename" => tmp = id
    /\ Up => file = id \/ (file = Bad /\ backup = id)

\* The phones have pinned the identity that is on disk.
PinnedInv ==
    \A d \in paired :
        LET n == IF file = Bad THEN backup ELSE file IN
        n # None /\ d = [hid |-> HostID(n), spki |-> SPKIPin(n), td |-> TrustDomainID(n)]

\* A code names one identity by its id and its certificate; the secrets of the
\* windows are counted.
CodeInv ==
    code # Nil =>
        LET u == code[1].url IN
        /\ \E m \in 1..MaxWindows : code[1].says.Secret = <<m>>
        /\ {"hid", "spki"} \subseteq DOMAIN u
        /\ \E n \in 0..minted : u["hid"] = HostID(n) /\ u["spki"] = SPKIPin(n)

\* The code of a window that is open says who runs here, and where.
WindowInv ==
    secret # 0 =>
        /\ listener # "none" /\ code # Nil
        /\ code[1].url = URL(code[1].says)
        /\ \E ifaces \in Interfaces, td \in {Nil, TrustDomainID(id)} :
             code[1].says = [HostID |-> HostID(id), TrustDomainID |-> td,
                             HostName |-> HostName, SPKIPin |-> SPKIPin(id),
                             Secret |-> <<secret>>, Port |-> port,
                             Addrs |-> Addrs(ifaces)]

\* A listener belongs to the process that is up, and so does an advertiser; a
\* record that is left without one is of the identity on disk.
DoorInv ==
    /\ listener # "none" => Up /\ port \in Ports
    /\ responder # "none" => /\ listener # "none"
                             /\ advert # Nil => Resolved(advert[1]) = port
    /\ advert # Nil =>
         LET n == IF file = Bad THEN backup ELSE file IN
         /\ n # None /\ advert[1].txt = txt(n)
         /\ build = "darwin" => responder # "none"

IInv == IdentityInv /\ PinnedInv /\ CodeInv /\ WindowInv /\ DoorInv
=============================================================================
