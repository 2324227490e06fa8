------------------------------- MODULE Beacon -------------------------------
(***************************************************************************)
(* The LAN beacon: nodes announce themselves on a local network and answer *)
(* the announcements they hear, at most once per host and Cap times in all *)
(* in any window of Gap.                                                   *)
(*                                                                         *)
(* The network is UDP: what is in flight may be lost, overtaken, held back *)
(* for any time and, while it is unruly, doubled; and while it is unruly   *)
(* anybody may send a node a datagram under any source address.  A source  *)
(* is its host here, for the port decides nothing.  A broadcast reaches    *)
(* the nodes that Hears says, an answer a node of the host it is sent to,  *)
(* if there is one.  Time is relative.                                     *)
(***************************************************************************)
EXTENDS Naturals, FiniteSets

CONSTANTS
    Nodes,      \* the nodes, each known by its node_id
    Stranger,   \* the node_id of anybody else
    HostOf,     \* the address of each node's host
    Hosts,      \* the addresses of the local network
    Far,        \* an address that is not
    Hears,      \* <<m, n>>: a broadcast of m reaches n
    Forged,     \* the datagrams of strangers, under any source address
    Gap, Cap,   \* ANSWER_GAP, ANSWERED_CAP
    MaxFlight   \* bound on what is in flight when a stranger sends

VARIABLES
    net,        \* the datagrams in flight
    answered,   \* Answered.at: how long ago each host was answered, Gap if
                \* it was not within the window
    announcing, \* whether the applications still announce
    unruly,     \* whether datagrams are doubled and forged
    sent,       \* history: <<host, age>> of the answers sent in the last Gap
    found       \* history: <<node, host>> of the sightings of other nodes

vars == <<net, answered, announcing, unruly, sent, found>>

Datagrams == [kind : {"announce", "answer", "junk"}, node : Nodes \cup {Stranger},
              from : Hosts \cup {Far}, to : Nodes]

\* The hello of `m`, on its way to `n`.
Hello(kind, m, n) == [kind |-> kind, node |-> m, from |-> HostOf[m], to |-> n]
Hellos == {Hello(kind, m, n) : kind \in {"announce", "answer"}, m \in Nodes, n \in Nodes}

ASSUME BeaconAssumption ==
    /\ IsFiniteSet(Hosts) /\ Far \notin Hosts
    /\ Stranger \notin Nodes
    /\ HostOf \in [Nodes -> Hosts]
    /\ Forged \subseteq {d \in Datagrams : d.node = Stranger}
    /\ Gap \in Nat \ {0} /\ Cap \in Nat /\ MaxFlight \in Nat

-----------------------------------------------------------------------------
Init ==
    /\ net = {}
    /\ answered = [n \in Nodes |-> [h \in Hosts |-> Gap]]
    /\ announcing = TRUE /\ unruly = TRUE
    /\ sent = [n \in Nodes |-> {}]
    /\ found = [n \in Nodes |-> {}]

\* announce: a node's broadcast, which its own socket hears as well.
Announce(m) ==
    /\ announcing
    /\ LET heard == {n \in Nodes : n = m \/ <<m, n>> \in Hears}
       IN  net' = net \cup {Hello("announce", m, n) : n \in heard}
    /\ UNCHANGED <<answered, announcing, unruly, sent, found>>

Hush ==
    /\ announcing /\ announcing' = FALSE
    /\ UNCHANGED <<net, answered, unruly, sent, found>>

-----------------------------------------------------------------------------
\* recv.

\* The hosts in the table, once the entries as old as the window are out of it.
Live(n) == {h \in Hosts : answered[n][h] < Gap}

\* Mutation: a full table forgets the hosts it holds.
AllowForgetting(n, host) ==
    IF host \in Live(n) THEN {}
    ELSE {IF Cardinality(Live(n)) < Cap THEN [answered[n] EXCEPT ![host] = 0]
          ELSE [h \in Hosts |-> IF h = host THEN 0 ELSE Gap]}

\* Answered.allow: the table with the host recorded, if it may be answered.
Allow(n, host) ==
    IF host \in Live(n) \/ Cardinality(Live(n)) >= Cap THEN {}
    ELSE {[answered[n] EXCEPT ![host] = 0]}

OnLocalNetwork(d) == d.from \in Hosts

\* Not a beacon, from elsewhere, or its own: read, and nothing comes of it.
Ignored(n, d) == ~OnLocalNetwork(d) \/ d.kind = "junk" \/ d.node = n

\* Where a node answered at an address hears it, if one is there: nodes of one
\* host share the port, and the system hands a datagram to one of them.
Answers(n, d) ==
    LET there == {m \in Nodes : HostOf[m] = d.from}
    IN  IF there = {} THEN {{}} ELSE {{Hello("answer", n, m)} : m \in there}

\* answer_to.  The host counts as answered whether or not the answer leaves.
AnswerTo(n, d, left) ==
    IF Allow(n, d.from) = {}
       THEN net' = left /\ UNCHANGED <<answered, sent>>
       ELSE /\ \E table \in Allow(n, d.from) : answered' = [answered EXCEPT ![n] = table]
            /\ sent' = [sent EXCEPT ![n] = @ \cup {<<d.from, 0>>}]
            /\ \E answer \in Answers(n, d) : net' = left \cup answer

\* Mutation: whatever is heard is answered.
CallsForAnswerAlways(d) == TRUE

CallsForAnswer(d) == d.kind = "announce"

\* Mutation: only an answer is a sighting.
SightingOfAnswers(d) == IF d.kind = "answer" /\ d.node \in Nodes THEN {<<d.node, d.from>>} ELSE {}

\* The Sighting: its listener, advertised on an unspecified host, is where the
\* datagram came from.
Sighting(d) == IF d.node \in Nodes THEN {<<d.node, d.from>>} ELSE {}

Hear(d, left) ==
    /\ d \in net
    /\ IF Ignored(d.to, d)
          THEN net' = left /\ UNCHANGED <<answered, sent, found>>
          ELSE /\ IF CallsForAnswer(d) THEN AnswerTo(d.to, d, left)
                  ELSE net' = left /\ UNCHANGED <<answered, sent>>
               /\ found' = [found EXCEPT ![d.to] = @ \cup Sighting(d)]
    /\ UNCHANGED <<announcing, unruly>>

Receive(d) == Hear(d, net \ {d})

-----------------------------------------------------------------------------
\* The network and the clock.

Lose(d) ==
    /\ d \in net /\ net' = net \ {d}
    /\ UNCHANGED <<answered, announcing, unruly, sent, found>>

\* A datagram is heard, and a copy of it is still to come.
ReceiveCopy(d) == unruly /\ Hear(d, net)

\* Somebody else is heard.
Forge(d) ==
    /\ unruly /\ Cardinality(net) < MaxFlight
    /\ net' = net \cup {d}
    /\ UNCHANGED <<answered, announcing, unruly, sent, found>>

Settle ==
    /\ unruly /\ unruly' = FALSE
    /\ UNCHANGED <<net, answered, announcing, sent, found>>

Later(age) == IF age < Gap THEN age + 1 ELSE age

Pass ==
    /\ answered' = [n \in Nodes |-> [h \in Hosts |-> Later(answered[n][h])]]
    /\ sent' = [n \in Nodes |-> {<<p[1], p[2] + 1>> : p \in {q \in sent[n] : q[2] + 1 < Gap}}]
    /\ UNCHANGED <<net, announcing, unruly, found>>

Next ==
    \/ \E m \in Nodes : Announce(m)
    \/ \E d \in net : Receive(d) \/ ReceiveCopy(d) \/ Lose(d)
    \/ \E d \in Forged : Forge(d)
    \/ Hush \/ Settle \/ Pass

Spec == Init /\ [][Next]_vars

\* Applications that announce go on announcing and all go on receiving, time
\* passes, and a hello that is sent to another node again and again is at last
\* delivered.
Fairness ==
    /\ \A m \in Nodes : WF_vars(Announce(m))
    /\ \A n \in Nodes : WF_vars(\E d \in net : d.to = n /\ Receive(d))
    /\ \A d \in {h \in Hellos : h.to # h.node} : SF_vars(Receive(d))
    /\ WF_vars(Pass)

FairSpec == Spec /\ Fairness

-----------------------------------------------------------------------------
TypeOK ==
    /\ net \subseteq Datagrams
    /\ answered \in [Nodes -> [Hosts -> 0..Gap]]
    /\ announcing \in BOOLEAN /\ unruly \in BOOLEAN
    /\ sent \in [Nodes -> SUBSET (Hosts \X (0..(Gap - 1)))]
    /\ found \in [Nodes -> SUBSET (Nodes \X Hosts)]

\* "One answer per host in this window" and "the most answers sent in one":
\* whatever is announced, forged or doubled, and by whatever ports, what a
\* node has sent in the last Gap went to different hosts and is Cap at most.
AnswersAreBounded ==
    \A n \in Nodes :
        /\ Cardinality(sent[n]) <= Cap
        /\ \A p, q \in sent[n] : p[1] = q[1] => p = q

\* "so nothing loops": once nobody announces and the network has settled, the
\* answers under way are the last datagrams there are.
NothingLoops == ~announcing /\ ~unruly ~> net = {}

\* "a network that carries broadcasts only one way still lets both sides find
\* each other": as long as they announce, and the network settles in the end,
\* each of two nodes, one of which hears the other, has seen the other where
\* it is.
BothSidesFind ==
    ([]announcing /\ <>~unruly) =>
        \A m, n \in Nodes :
            <<m, n>> \in Hears =>
                <>(<<m, HostOf[m]>> \in found[n] /\ <<n, HostOf[n]>> \in found[m])
=============================================================================
