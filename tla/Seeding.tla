-------------------------------- MODULE Seeding --------------------------------
(***************************************************************************)
(* The scripted scenarios a demonstration deployment is seeded with        *)
(* (services/api/app/main.py and seed.py): every container that starts and *)
(* finds no marker loads them, writes what each implies, and leaves the    *)
(* marker.  The ids of a scenario are fixed; those of its audit records    *)
(* are not.                                                                *)
(***************************************************************************)
EXTENDS DocumentStore

CONSTANT Scripts    \* the scenarios: an incident, an entity, an edge, a signal and an audit record each

ASSUME SeedingAssumption == IsFiniteSet(Scripts) /\ Scripts \subseteq Int \ Nat

Node(s) == <<"NODE", s>>
Edge(s) == <<"EDGE", s>>
Signalled(s) == <<"EVENT", s>>
Incident(s) == <<"INCIDENT", s>>
Audited(n) == <<"AUDIT", n>>
Marker == <<"META", "SEED">>

(* save_events of the scenarios' signals, and their index. *)
Signals == {[id |-> s, at |-> 0] : s \in Scripts}
SavesSignals ==
    [i \in 1..Cardinality(Scripts) |->
        LET s == SetToSeq(Scripts)[i] IN Put(Signalled(s), [feed |-> "scenario", n |-> s, at |-> 0])]
    \o <<Later("index", [feed |-> "scenario", fresh |-> Signals])>>

(* incidents.save, and _audit of each scenario after it. *)
SavesIncidents ==
    LET s == SetToSeq(Scripts)
        n(i) == (i + 1) \div 2
    IN [i \in 1..2 * Cardinality(Scripts) |->
            IF i % 2 = 1 THEN Put(Incident(s[n(i)]), None) ELSE Put(Audited(minted + n(i)), s[n(i)])]

Maps == SetToSeq({Put(Node(s), None) : s \in Scripts}) \o SetToSeq({Put(Edge(s), None) : s \in Scripts})

(* Slip: the marker is left before the incidents, so that no other container seeds meanwhile. *)
SeedsMarkedEarly == Maps \o SavesSignals \o <<Put(Marker, None)>> \o SavesIncidents

(* seed_security, and mark_seeded. *)
Seeds == Maps \o SavesSignals \o SavesIncidents \o <<Put(Marker, None)>>

(* _seed_demo, as a container starts. *)
SeedDemo(h) ==
    /\ ~Held(Marker)
    /\ Starts(h, "seed", NoTopic, Seeds)
    /\ Mints(Cardinality(Scripts))

-----------------------------------------------------------------------------
(* "A citation that dangles for even one request is the defect this ordering exists to prevent" (seed.py), *)
(* and no container trusts a marker before everything is there, whichever containers seeded at once or died *)
(* on the way. *)
SeededIsWhole ==
    /\ \A s \in Scripts : Held(Incident(s)) =>
         Held(Node(s)) /\ Held(Signalled(s)) /\ \E key \in Partition("EDGE") : key[2] = s
    /\ Held(Marker) => \A s \in Scripts :
         Held(Incident(s)) /\ \E key \in Partition("AUDIT") : doc[key] = s
=============================================================================
