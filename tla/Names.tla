--------------------------------- MODULE Names ---------------------------------
(***************************************************************************)
(* The replicated table of robot names: store.py's name_registry, the      *)
(* socket operations names_set and names_clear, the HTTP service of        *)
(* names_api.py, and what peering.py does to copy the table.               *)
(*                                                                         *)
(* A handler writes its host's table under the host's lock and publishes   *)
(* the change after it has let the lock go.  Each host subscribes to every *)
(* other; a link that (re)connects also fetches the other's whole table.   *)
(* Nothing arbitrates: what arrives last wins, and is never passed on.     *)
(*                                                                         *)
(* Peering models how links are built, dropped and resynced; here a link   *)
(* loses its queue when it goes down and fetches once when it comes up.    *)
(* Its subscription takes effect at a time of its own, which may be after  *)
(* the answer to the fetch; until then what the other publishes is lost.   *)
(***************************************************************************)
EXTENDS Naming, Sequences, FiniteSets

CONSTANTS
    Host,
    Name,           \* the names in use
    Pair,           \* the links an operator assigns
    Request,        \* handler threads
    HostOf,         \* Request -> the host that runs it
    MaxWrites,      \* bound on requests served
    MaxDrops        \* bound on dropped links

ASSUME NamesAreInSpace == Name \subseteq 0 .. Space - 1
ASSUME PairsAreLinks == Pair \subseteq [channel : Nat, group : Nat]
ASSUME RequestsHaveHosts == HostOf \in [Request -> Host]

VARIABLES
    table,      \* Host -> Name -> its name_registry row
    req,        \* Request -> what the handler has left to do
    link,       \* link[h][k]: h's link to k, "down", "asking", "answered", "up"
    subscribed, \* subscribed[h][k]: k's PUB socket knows of h's subscription
    queue,      \* queue[h][k]: k's events that h has not received
    snap,       \* snap[h][k]: k's answer that h has not applied
    torn,       \* history: the names whose copies need not agree
    count       \* how much of each bound is used

vars == <<table, req, link, subscribed, queue, snap, torn, count>>
linkVars == <<link, subscribed, queue, snap>>

NoPair == Link(-1, -1)
Entry(p, source) == [pair |-> p, source |-> source]
NoEntry == Entry(NoPair, "none")
Event(n, p) == [name |-> n, pair |-> p]     \* NoPair: name_clear

Others(h) == Host \ {h}
Links == {hk \in Host \X Host : hk[1] # hk[2]}
-----------------------------------------------------------------------------
(* The store's operations on one table. *)
Resolve(t, n) ==
    IF t[n] = NoEntry THEN [t EXCEPT ![n] = Entry(Address(n), "derived")] ELSE t

\* Faulty variant: the UPDATE of set forgets the source column.
SetKeepsSource(t, n, p) ==
    [t EXCEPT ![n] = Entry(p, IF @ = NoEntry THEN "registry" ELSE @.source)]

Set(t, n, p) == [t EXCEPT ![n] = Entry(p, "registry")]

Clear(t, n) == [t EXCEPT ![n] = NoEntry]

\* Faulty variant: name_for does not look whether the name it derives has moved.
NameForAnyDerived(t, p) ==
    LET assigned == {n \in Name : t[n] = Entry(p, "registry")}
    IN  IF assigned # {} THEN assigned ELSE RadioToName(p) \cap Name

\* name_for: an assigned row on the link wins, else the name that derives it,
\* unless that name's row has moved it.  Several rows: sqlite picks one.
NameFor(t, p) ==
    LET assigned == {n \in Name : t[n] = Entry(p, "registry")}
    IN  IF assigned # {} THEN assigned
        ELSE {n \in RadioToName(p) \cap Name : t[n].pair \in {NoPair, p}}

\* What resolve answers, whether or not it has to write the row.
PairOf(t, n) == Resolve(t, n)[n].pair

\* _apply_event and _apply_snapshot_name: whatever its source was, a copied
\* row becomes an assigned one.
ApplyEvent(t, e) == IF e.pair = NoPair THEN Clear(t, e.name) ELSE Set(t, e.name, e.pair)

ApplySnapshot(t, s) ==
    [n \in Name |-> IF s[n] = NoEntry THEN t[n] ELSE Entry(s[n].pair, "registry")]
-----------------------------------------------------------------------------
(* History. *)
Pending(n, q) == IF req[q].pc = "publish" /\ req[q].ev.name = n THEN {req[q].ev.pair} ELSE {}
Queued(n, h, k) ==
    {queue[h][k][i].pair : i \in {j \in DOMAIN queue[h][k] : queue[h][k][j].name = n}}
Fetched(n, h, k) ==
    IF link[h][k] = "answered" /\ snap[h][k][n] # NoEntry THEN {snap[h][k][n].pair} ELSE {}

AllUp == \A hk \in Links : link[hk[1]][hk[2]] = "up"
NothingMoving(n) ==
    /\ \A q \in Request : Pending(n, q) = {}
    /\ \A hk \in Links : Queued(n, hk[1], hk[2]) = {} /\ Fetched(n, hk[1], hk[2]) = {}

\* Writing p for n does not race another change of n: nothing under way says
\* otherwise, but for what this host published before, which arrives first.
InTurn(r, n, p) ==
    /\ \A q \in Request \ {r} : Pending(n, q) \subseteq {p}
    /\ \A hk \in Links :
        /\ hk[2] # HostOf[r] => Queued(n, hk[1], hk[2]) \subseteq {p}
        /\ Fetched(n, hk[1], hk[2]) \subseteq {p}

\* The names of lost events that the next snapshot does not make up for.
Missed(h, events) ==
    {e.name : e \in {x \in events : \/ x.pair = NoPair
                                    \/ table[h][x.name].pair \notin {NoPair, x.pair}}}

\* k's change e, which h does not hear of, reaches h with a snapshot.
Awaited(h, k, e) ==
    \/ link[h][k] \in {"down", "asking"}
    \/ link[h][k] = "answered" /\ snap[h][k][e.name].pair = e.pair

Unheard(h, k, e) ==
    Missed(h, {e}) \cup (IF Awaited(h, k, e) \/ table[h][e.name].pair = e.pair THEN {}
                         ELSE {e.name})

\* The names k's answer to h brings back although k is about to hear of a
\* later change.
Outdated(h, k) ==
    {n \in Name :
        /\ table[k][n] # NoEntry
        /\ \/ \E j \in Others(k) : ~(Queued(n, k, j) \subseteq {table[k][n].pair})
           \/ \E q \in Request : HostOf[q] # k /\ ~(Pending(n, q) \subseteq {table[k][n].pair})}
-----------------------------------------------------------------------------
Idle == [pc |-> "idle"]
Publishing(e, then) == [pc |-> "publish", ev |-> e, then |-> then]
Resolving(n) == [pc |-> "resolve", name |-> n]

\* A registry starts with the table its database kept.
Init ==
    /\ \E t \in [Name -> {NoEntry} \cup {Entry(p, "registry") : p \in Pair}] :
            table = [h \in Host |-> t]
    /\ req = [r \in Request |-> Idle]
    /\ link = [h \in Host |-> [k \in Host |-> "down"]]
    /\ subscribed = [h \in Host |-> [k \in Host |-> FALSE]]
    /\ queue = [h \in Host |-> [k \in Host |-> <<>>]]
    /\ snap = [h \in Host |-> [k \in Host |-> [n \in Name |-> NoEntry]]]
    /\ torn = {}
    /\ count = [writes |-> 0, drops |-> 0]

Use(what, bound) == count[what] < bound /\ count' = [count EXCEPT ![what] = @ + 1]

\* The part of a handler that holds the host's lock.
Write(r, n, t, then) ==
    /\ table' = [table EXCEPT ![HostOf[r]] = t]
    /\ req' = [req EXCEPT ![r] = Publishing(Event(n, t[n].pair), then)]
    /\ torn' = IF InTurn(r, n, t[n].pair) THEN torn \ {n} ELSE torn \cup {n}
    /\ UNCHANGED linkVars

Table(r) == table[HostOf[r]]
Serve(r) == req[r] = Idle /\ Use("writes", MaxWrites)

\* The socket operation takes any channel and group.
OpNamesSet(r, n, p) == Serve(r) /\ Write(r, n, Set(Table(r), n, p), Idle)

OpNamesClear(r, n) == Serve(r) /\ Write(r, n, Clear(Table(r), n), Idle)

\* Faulty variant: the row a read derives is not published.
HandleGetUnpublished(r, n) ==
    /\ Table(r)[n] = NoEntry
    /\ Serve(r)
    /\ table' = [table EXCEPT ![HostOf[r]] = Resolve(Table(r), n)]
    /\ UNCHANGED <<req, torn, linkVars>>

\* GET writes the row it derives, and publishes it only then.
HandleGet(r, n) ==
    /\ Table(r)[n] = NoEntry
    /\ Serve(r)
    /\ Write(r, n, Resolve(Table(r), n), Idle)

\* PUT refuses what the relay's !CG refuses.
ParsePair(p) == p.channel \in 0 .. 83 /\ p.group \in 0 .. 255
HandlePut(r, n, p) ==
    /\ ParsePair(p)
    /\ Serve(r)
    /\ Write(r, n, Set(Table(r), n, p), Idle)

\* DELETE clears and publishes, then derives the row again and publishes.
HandleDelete(r, n) == Serve(r) /\ Write(r, n, Clear(Table(r), n), Resolving(n))

DeleteResolves(r) ==
    /\ req[r].pc = "resolve"
    /\ Write(r, req[r].name, Resolve(Table(r), req[r].name), Idle)
    /\ UNCHANGED count

\* publish_event: PUB drops what is for a host whose subscription it does not
\* know.
PublishName(r) ==
    LET h == HostOf[r]
        deaf == {j \in Others(h) : ~subscribed[j][h]}
    IN  /\ req[r].pc = "publish"
        /\ req' = [req EXCEPT ![r] = req[r].then]
        /\ queue' = [j \in Host |->
               IF j \in Others(h) \ deaf THEN [queue[j] EXCEPT ![h] = Append(@, req[r].ev)]
               ELSE queue[j]]
        /\ torn' = torn \cup UNION {Unheard(j, h, req[r].ev) : j \in deaf}
        /\ UNCHANGED <<table, link, subscribed, snap, count>>

\* Faulty variant: what is received is published again.
ReceiveAndRepublish(h, k) ==
    /\ queue[h][k] # <<>>
    /\ table' = [table EXCEPT ![h] = ApplyEvent(@, Head(queue[h][k]))]
    /\ queue' = [j \in Host |->
           IF j = h THEN [queue[h] EXCEPT ![k] = Tail(@)]
           ELSE IF ~subscribed[j][h] THEN queue[j]
           ELSE [queue[j] EXCEPT ![h] = Append(@, Head(queue[h][k]))]]
    /\ UNCHANGED <<req, link, subscribed, snap, torn, count>>

ReceiveName(h, k) ==
    /\ queue[h][k] # <<>>
    /\ table' = [table EXCEPT ![h] = ApplyEvent(@, Head(queue[h][k]))]
    /\ queue' = [queue EXCEPT ![h][k] = Tail(@)]
    /\ UNCHANGED <<req, link, subscribed, snap, torn, count>>

\* SUB connects and the snapshot is asked for, neither waiting for the other.
LinkConnects(h, k) ==
    /\ link[h][k] = "down"
    /\ link' = [link EXCEPT ![h][k] = "asking"]
    /\ UNCHANGED <<table, req, subscribed, queue, snap, torn, count>>

\* The subscription of a connecting SUB arrives at the other's PUB.
Subscribe(h, k) ==
    /\ link[h][k] # "down" /\ ~subscribed[h][k]
    /\ subscribed' = [subscribed EXCEPT ![h][k] = TRUE]
    /\ UNCHANGED <<table, req, link, queue, snap, torn, count>>

AnswerSnapshot(h, k) ==
    /\ link[h][k] = "asking"
    /\ link' = [link EXCEPT ![h][k] = "answered"]
    /\ snap' = [snap EXCEPT ![h][k] = table[k]]
    /\ torn' = torn \cup Outdated(h, k)
    /\ UNCHANGED <<table, req, subscribed, queue, count>>

FetchApplies(h, k) ==
    /\ link[h][k] = "answered"
    /\ table' = [table EXCEPT ![h] = ApplySnapshot(@, snap[h][k])]
    /\ link' = [link EXCEPT ![h][k] = "up"]
    /\ snap' = [snap EXCEPT ![h][k] = [n \in Name |-> NoEntry]]
    /\ UNCHANGED <<req, subscribed, queue, torn, count>>

LinkDrops(h, k) ==
    /\ link[h][k] # "down"
    /\ Use("drops", MaxDrops)
    /\ link' = [link EXCEPT ![h][k] = "down"]
    /\ subscribed' = [subscribed EXCEPT ![h][k] = FALSE]
    /\ queue' = [queue EXCEPT ![h][k] = <<>>]
    /\ snap' = [snap EXCEPT ![h][k] = [n \in Name |-> NoEntry]]
    /\ torn' = torn \cup Missed(h, {queue[h][k][i] : i \in DOMAIN queue[h][k]})
    /\ UNCHANGED <<table, req>>

Next ==
    \/ \E r \in Request, n \in Name :
        \/ \E p \in Pair : OpNamesSet(r, n, p) \/ HandlePut(r, n, p)
        \/ OpNamesClear(r, n) \/ HandleGet(r, n) \/ HandleDelete(r, n)
    \/ \E r \in Request : DeleteResolves(r) \/ PublishName(r)
    \/ \E h \in Host : \E k \in Others(h) :
        \/ ReceiveName(h, k)
        \/ LinkConnects(h, k) \/ Subscribe(h, k)
        \/ AnswerSnapshot(h, k) \/ FetchApplies(h, k)
        \/ LinkDrops(h, k)

Spec == Init /\ [][Next]_vars

\* Handlers and receive loops run on; a link that is up is answered.  Nothing
\* obliges a network to come back.
Fairness ==
    /\ \A r \in Request : WF_vars(DeleteResolves(r)) /\ WF_vars(PublishName(r))
    /\ \A h \in Host : \A k \in Others(h) :
        WF_vars(ReceiveName(h, k)) /\ WF_vars(AnswerSnapshot(h, k)) /\ WF_vars(FetchApplies(h, k))

FairSpec == Spec /\ Fairness
-----------------------------------------------------------------------------
(* Properties. *)
Assigned == Pair \cup {Address(m) : m \in Name}
Rows(n) == {NoEntry, Entry(Address(n), "derived")} \cup {Entry(p, "registry") : p \in Assigned}
Tables == {t \in [Name -> UNION {Rows(n) : n \in Name}] : \A n \in Name : t[n] \in Rows(n)}
Events == [name : Name, pair : Assigned \cup {NoPair}]
Resolvings == {Idle} \cup {Resolving(n) : n \in Name}
Works == Resolvings \cup {Publishing(e, then) : e \in Events, then \in Resolvings}

\* A row marked derived holds the address its name derives, however it was
\* last written: set also marks what it overwrites (store.py, Store.set).
\* The queue of a link without a subscription is empty.
NamesTypeOK ==
    /\ table \in [Host -> Tables]
    /\ req \in [Request -> Works]
    /\ link \in [Host -> [Host -> {"down", "asking", "answered", "up"}]]
    /\ queue \in [Host -> [Host -> Seq(Events)]]
    /\ snap \in [Host -> [Host -> Tables]]
    /\ torn \subseteq Name
    /\ subscribed \in [Host -> [Host -> BOOLEAN]]
    /\ \A h, k \in Host : /\ link[h][k] = "down" => ~subscribed[h][k]
                         /\ ~subscribed[h][k] => queue[h][k] = <<>>

\* name_for inverts resolve on every host, whatever has been assigned to
\* what: a name it answers is on that link, and it finds one for every link
\* some robot is on (store.py, Store.name_for).
NameForInvertsResolve ==
    \A h \in Host, p \in Assigned :
        LET there == {n \in Name : PairOf(table[h], n) = p}
        IN  NameFor(table[h], p) \subseteq there
            /\ (there # {} => NameFor(table[h], p) # {})

\* A name whose last write raced no other change is the same on every host
\* once nothing more is on its way, links having been up or down: every write
\* is published, and the snapshot makes up for one that is lost, unless it was
\* built before the write and the subscription came later (peering.py, "Name
\* registry replication").
NamesAgree ==
    AllUp => \A n \in Name \ torn : NothingMoving(n) =>
        \A h, k \in Host : table[h][n].pair = table[k][n].pair

\* Replication comes to rest: an event that was received is not sent on.
ReplicationEnds == <>[](\A n \in Name : NothingMoving(n))
================================================================================
