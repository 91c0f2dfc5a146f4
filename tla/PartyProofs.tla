---------------------------- MODULE PartyProofs ----------------------------
(***************************************************************************)
(* Two clients that run this plugin keep to their roles towards each       *)
(* other, for any session ids, queue bound and reports, stale ones too:    *)
(* what CallController assumes of a contact is what it does itself.  And   *)
(* without stale ones they agree on every call when nothing is on its way. *)
(* CallPeerProofs says what a step of one client does; here are the two    *)
(* streams between them.                                                   *)
(***************************************************************************)
EXTENDS PartyProperties, StreamProofs, FiniteSetTheorems

-----------------------------------------------------------------------------
(* What is put on the wire.                                                *)

\* A stanza that counts has its place among them: how many come before it.
LEMMA PlacesAre ==
    ASSUME NEW set, NEW stanzas \in Seq(set)
    PROVE  /\ IsFiniteSet(Counting(stanzas)) /\ Cardinality(Counting(stanzas)) \in Nat
           /\ \A i \in Counting(stanzas) :
                 Cardinality(Before(stanzas, i)) \in 0..Cardinality(Counting(stanzas)) - 1
           /\ \A i, j \in Counting(stanzas) : i < j =>
                 Cardinality(Before(stanzas, i)) < Cardinality(Before(stanzas, j))
<1> DEFINE all == Counting(stanzas)
           Place(i) == Cardinality(Before(stanzas, i))
<1>1. IsFiniteSet(all) /\ Cardinality(all) \in Nat /\ all \subseteq Nat
  <2>1. all \subseteq 1..Len(stanzas) /\ Len(stanzas) \in Nat
    BY DEF Counting
  <2>2. IsFiniteSet(1..Len(stanzas))
    BY <2>1, FS_Interval
  <2> QED BY <2>1, <2>2, FS_Subset, FS_CardinalityType
<1>2. ASSUME NEW i \in all
      PROVE  /\ Before(stanzas, i) \subseteq all \ {i}
             /\ IsFiniteSet(Before(stanzas, i)) /\ Place(i) \in Nat
  <2>1. Before(stanzas, i) \subseteq all \ {i}
    BY <1>1 DEF Before
  <2> QED BY <1>1, <2>1, FS_Subset, FS_CardinalityType
<1>3. ASSUME NEW i \in all PROVE Place(i) \in 0..Cardinality(all) - 1
  <2>1. IsFiniteSet(all \ {i}) /\ Cardinality(all \ {i}) = Cardinality(all) - 1
    BY <1>1, FS_RemoveElement
  <2>2. Place(i) <= Cardinality(all \ {i})
    BY <1>2, <2>1, FS_Subset
  <2> QED BY <1>1, <1>2, <2>1, <2>2
<1>4. ASSUME NEW i \in all, NEW j \in all, i < j PROVE Place(i) < Place(j)
  <2> DEFINE more == Before(stanzas, i) \cup {i}
  <2>1. IsFiniteSet(more) /\ Cardinality(more) = Place(i) + 1
    BY <1>2, FS_AddElement
  <2>2. more \subseteq Before(stanzas, j)
    BY <1>1, <1>4 DEF Before
  <2>3. Cardinality(more) <= Place(j)
    BY <1>2, <2>2, FS_Subset
  <2> QED BY <1>2, <2>1, <2>3
<1> QED BY <1>1, <1>3, <1>4

\* No place is left empty.
LEMMA PlacesAreTaken ==
    ASSUME NEW set, NEW stanzas \in Seq(set),
           NEW k \in 1..Cardinality(Counting(stanzas))
    PROVE  \E i \in Counting(stanzas) : Cardinality(Before(stanzas, i)) = k - 1
<1> DEFINE all == Counting(stanzas)
           size == Cardinality(all)
           place == [i \in all |-> Cardinality(Before(stanzas, i))]
           places == 0..size - 1
<1>1. IsFiniteSet(all) /\ size \in Nat /\ all \subseteq Nat
  BY PlacesAre DEF Counting
<1>2. place \in Injection(all, places)
  <2>1. place \in [all -> places]
    BY PlacesAre
  <2>2. ASSUME NEW i \in all, NEW j \in all, place[i] = place[j] PROVE i = j
    <3>1. CASE i < j
      BY <2>1, <2>2, <3>1, PlacesAre, <1>1
    <3>2. CASE j < i
      BY <2>1, <2>2, <3>2, PlacesAre, <1>1
    <3>3. i \in Nat /\ j \in Nat
      BY <1>1
    <3> QED BY <3>1, <3>2, <3>3
  <2> QED BY <2>1, <2>2 DEF Injection, IsInjective
<1>3. IsFiniteSet(places) /\ Cardinality(places) = size
  <2> HIDE DEF all, size
  <2>1. 0 \in Int /\ size - 1 \in Int /\ (0 > size - 1 <=> size = 0) /\ (size - 1) - 0 + 1 = size
    BY <1>1
  <2> QED BY <2>1, FS_Interval
<1>4. place \in Surjection(all, places)
  BY <1>1, <1>2, <1>3, FS_Injection
<1>5. k - 1 \in places
  BY <1>1
<1>6. \E i \in all : place[i] = k - 1
  BY <1>4, <1>5 DEF Surjection
<1> QED BY <1>6

\* The wire carries the stanzas that count, all of them and in order.
LEMMA WireOf ==
    ASSUME NEW set, NEW stanzas \in Seq(set)
    PROVE  /\ OnTheWire(stanzas) \in Seq(set)
           /\ \E pos \in [1..Len(OnTheWire(stanzas)) -> Counting(stanzas)] :
                 /\ \A k \in 1..Len(OnTheWire(stanzas)) : OnTheWire(stanzas)[k] = stanzas[pos[k]]
                 /\ \A j, k \in 1..Len(OnTheWire(stanzas)) : j < k => pos[j] < pos[k]
                 /\ \A i \in Counting(stanzas) :
                       \E k \in 1..Len(OnTheWire(stanzas)) : pos[k] = i
<1> DEFINE all == Counting(stanzas)
           size == Cardinality(all)
           Place(i) == Cardinality(Before(stanzas, i))
           pos == [k \in 1..size |-> CHOOSE i \in all : Place(i) = k - 1]
<1>0. DOMAIN stanzas = 1..Len(stanzas) /\ \A i \in DOMAIN stanzas : stanzas[i] \in set
  OBVIOUS
<1>1. size \in Nat /\ all \subseteq Nat /\ all \subseteq DOMAIN stanzas
  <2>1. size \in Nat
    BY PlacesAre
  <2>2. all \subseteq DOMAIN stanzas
    BY DEF Counting
  <2> HIDE DEF all, size
  <2> QED BY <1>0, <2>1, <2>2
<1>2. \A k \in 1..size : pos[k] \in all /\ Place(pos[k]) = k - 1
  BY PlacesAreTaken
<1>3. \A i, j \in all : i < j => Place(i) < Place(j)
  BY PlacesAre
<1>4. \A i \in all : Place(i) \in 0..size - 1
  BY PlacesAre
<1>5. OnTheWire(stanzas) = [k \in 1..size |-> stanzas[pos[k]]]
  BY DEF OnTheWire
<1> HIDE DEF all, size, Place
<1>6. pos \in [1..size -> all]
  BY <1>2
<1> HIDE DEF pos
<1>7. \A k \in 1..size : stanzas[pos[k]] \in set
  BY <1>0, <1>1, <1>2
<1>8. OnTheWire(stanzas) \in Seq(set) /\ Len(OnTheWire(stanzas)) = size
  <2>1. OnTheWire(stanzas) \in [1..size -> set]
    BY <1>5, <1>7
  <2>2. OnTheWire(stanzas) \in Seq(set)
    BY <1>1, <2>1, SeqDef
  <2> QED BY <1>1, <2>1, <2>2, LenProperties
<1>9. ASSUME NEW i \in all, NEW j \in all, Place(i) = Place(j) PROVE i = j
  BY <1>1, <1>3, <1>4, <1>9
<1>10. ASSUME NEW j \in 1..size, NEW k \in 1..size, j < k PROVE pos[j] < pos[k]
  <2>1. PICK a \in all, b \in all : a = pos[j] /\ b = pos[k] /\ Place(a) = j - 1 /\ Place(b) = k - 1
    BY <1>2
  <2>2. a \in Nat /\ b \in Nat
    BY <1>1
  <2>3. a # b /\ ~(Place(b) < Place(a))
    BY <1>1, <1>10, <2>1
  <2>4. ~(b < a)
    BY <1>3, <2>3
  <2>5. a < b
    BY <2>2, <2>3, <2>4
  <2> QED BY <2>1, <2>5
<1>11. ASSUME NEW i \in all PROVE \E k \in 1..size : pos[k] = i
  <2>1. Place(i) + 1 \in 1..size
    BY <1>1, <1>4
  <2>2. Place(pos[Place(i) + 1]) = Place(i) /\ pos[Place(i) + 1] \in all
    BY <1>1, <1>2, <1>4, <2>1
  <2> QED BY <1>9, <2>1, <2>2
<1>12. \A k \in 1..size : OnTheWire(stanzas)[k] = stanzas[pos[k]]
  BY <1>5
<1> QED BY <1>6, <1>8, <1>10, <1>11, <1>12 DEF all

\* The wire says what a client said, in that order.
LEMMA WireSays ==
    ASSUME NEW kinds, NEW begun, NEW begunNext, NEW own, NEW theirs, NEW stanzas \in Seq(kinds),
           \A stanza \in kinds : stanza.action \in WireActions \cup {"result", "presence"},
           begun \subseteq begunNext,
           \A i \in DOMAIN stanzas : stanzas[i].action \in WireActions =>
              /\ SaidInRole(stanzas[i], begunNext, own, theirs)
              /\ stanzas[i].action \in Openers =>
                    /\ <<stanzas[i].sid, stanzas[i].action>> \notin begun
                    /\ \A j \in DOMAIN stanzas : stanzas[j].action \in Openers => j = i,
           \A sid \in own : <<sid, "propose">> \in begunNext \ begun =>
              1 \in DOMAIN stanzas /\ stanzas[1].action = "propose" /\ stanzas[1].sid = sid
    PROVE  Said(OnTheWire(stanzas), kinds, begun, begunNext, own, theirs)
<1> DEFINE wire == OnTheWire(stanzas)
           size == Len(wire)
<1>1. wire \in Seq(kinds) /\ size \in Nat /\ DOMAIN wire = 1..size
  BY WireOf
<1>2. PICK pos \in [1..size -> Counting(stanzas)] :
         /\ \A k \in 1..size : wire[k] = stanzas[pos[k]]
         /\ \A j, k \in 1..size : j < k => pos[j] < pos[k]
         /\ \A i \in Counting(stanzas) : \E k \in 1..size : pos[k] = i
  BY WireOf
<1> HIDE DEF wire, size
<1>3. \A k \in DOMAIN wire : /\ pos[k] \in DOMAIN stanzas /\ wire[k] = stanzas[pos[k]]
                             /\ pos[k] \in Nat /\ pos[k] >= 1
                             /\ wire[k].action \in WireActions
  <2> SUFFICES ASSUME NEW k \in DOMAIN wire
               PROVE  /\ pos[k] \in DOMAIN stanzas /\ wire[k] = stanzas[pos[k]]
                      /\ pos[k] \in Nat /\ pos[k] >= 1
                      /\ wire[k].action \in WireActions
    OBVIOUS
  <2>1. pos[k] \in Counting(stanzas) /\ wire[k] = stanzas[pos[k]]
    BY <1>1, <1>2
  <2>2. pos[k] \in DOMAIN stanzas /\ stanzas[pos[k]].action \notin {"result", "presence"}
    BY <2>1 DEF Counting
  <2>3. stanzas[pos[k]] \in kinds /\ pos[k] \in Nat /\ pos[k] >= 1
    BY <2>2
  <2> QED BY <2>1, <2>2, <2>3
<1>4. \A j, k \in DOMAIN wire : pos[j] = pos[k] => j = k
  <2> SUFFICES ASSUME NEW j \in DOMAIN wire, NEW k \in DOMAIN wire, pos[j] = pos[k], j # k
               PROVE  FALSE
    OBVIOUS
  <2>1. j \in Nat /\ k \in Nat /\ j \in 1..size /\ k \in 1..size
    BY <1>1
  <2>2. CASE j < k
    BY <1>2, <1>3, <2>1, <2>2
  <2>3. CASE k < j
    BY <1>2, <1>3, <2>1, <2>3
  <2> QED BY <2>1, <2>2, <2>3
<1>5. \A k \in DOMAIN wire : SaidInRole(wire[k], begunNext, own, theirs)
  BY <1>3
<1>6. OpensNew(wire, begun)
  <2> SUFFICES ASSUME NEW k \in DOMAIN wire, wire[k].action \in Openers
               PROVE  /\ <<wire[k].sid, wire[k].action>> \notin begun
                      /\ \A j \in DOMAIN wire :
                            wire[j].action = wire[k].action /\ wire[j].sid = wire[k].sid => j = k
    BY DEF OpensNew
  <2>1. /\ <<wire[k].sid, wire[k].action>> \notin begun
        /\ \A j \in DOMAIN stanzas : stanzas[j].action \in Openers => j = pos[k]
    BY <1>3
  <2>2. \A j \in DOMAIN wire : wire[j].action = wire[k].action => j = k
    BY <1>3, <1>4, <2>1
  <2> QED BY <2>1, <2>2
<1>7. ASSUME NEW sid \in own, <<sid, "propose">> \in begunNext \ begun
      PROVE  Announced(wire, sid)
  <2>1. 1 \in DOMAIN stanzas /\ stanzas[1].action = "propose" /\ stanzas[1].sid = sid
    BY <1>7
  <2>2. 1 \in Counting(stanzas)
    BY <2>1 DEF Counting
  <2>3. PICK k \in DOMAIN wire : pos[k] = 1
    BY <1>1, <1>2, <2>2
  <2>4. ASSUME NEW j \in DOMAIN wire PROVE k <= j
    <3>1. j \in 1..size /\ k \in 1..size /\ j \in Nat /\ k \in Nat
      BY <1>1
    <3>2. CASE j < k
      <4>1. pos[j] < 1 /\ pos[j] \in Nat /\ pos[j] >= 1
        BY <1>2, <1>3, <2>3, <3>1, <3>2
      <4> QED BY <4>1
    <3> QED BY <3>1, <3>2
  <2>5. wire[k] = stanzas[1]
    BY <1>3, <2>3
  <2> QED BY <2>1, <2>4, <2>5 DEF Announced
<1> QED BY <1>1, <1>5, <1>6, <1>7 DEF Said, wire

\* On the wire a client says what moves the call.
LEMMA WireMoves ==
    ASSUME NEW kinds, NEW stanzas \in Seq(kinds), NEW X, NEW Y, NEW head, NEW own, NEW theirs,
           Moves(X, Y, stanzas, head, own, theirs)
    PROVE  Moves(X, Y, OnTheWire(stanzas), head, own, theirs)
<1> DEFINE wire == OnTheWire(stanzas)
           size == Len(wire)
<1>1. wire \in Seq(kinds) /\ DOMAIN wire = 1..size
  BY WireOf
<1>2. PICK pos \in [1..size -> Counting(stanzas)] :
         /\ \A k \in 1..size : wire[k] = stanzas[pos[k]]
         /\ \A i \in Counting(stanzas) : \E k \in 1..size : pos[k] = i
  BY WireOf
<1> HIDE DEF wire, size
<1>3. \A k \in DOMAIN wire : \E i \in DOMAIN stanzas : wire[k] = stanzas[i]
  BY <1>1, <1>2 DEF Counting
<1>4. ASSUME NEW actions, actions \cap {"result", "presence"} = {}, NEW sid,
             Carries(stanzas, actions, sid)
      PROVE  Carries(wire, actions, sid)
  <2>1. PICK i \in DOMAIN stanzas : Bears(stanzas[i], actions, sid)
    BY <1>4 DEF Carries
  <2>2. i \in Counting(stanzas)
    BY <1>4, <2>1 DEF Counting, Bears
  <2>3. PICK k \in 1..size : pos[k] = i
    BY <1>2, <2>2
  <2> QED BY <1>1, <1>2, <2>1, <2>3 DEF Carries
<1>5. /\ \A sid : Carries(stanzas, Endings, sid) => Carries(wire, Endings, sid)
      /\ \A sid : Carries(stanzas, {"proceed"}, sid) => Carries(wire, {"proceed"}, sid)
  BY <1>4 DEF Endings
<1>6. \A k \in DOMAIN wire :
         /\ wire[k].action \in Endings => wire[k].sid \notin Y.alive
         /\ wire[k].action \in TalkActions => wire[k].sid \in Y.alive \cup Y.straight
  BY <1>3 DEF Moves
<1> QED BY <1>5, <1>6 DEF Moves, wire

-----------------------------------------------------------------------------
(* The two clients.                                                        *)

\* The parties are what the model of one client takes its constants to be, and each has
\* one device.
LEMMA HereAssumptions ==
    Here!JidAssumption /\ Here!SidAssumption /\ Here!EnvironmentAssumption
    /\ Here!OneDevicePerContact
BY PartiesAssumption DEF Here!JidAssumption, Here!SidAssumption, Here!EnvironmentAssumption,
   Here!Sids, Sids, Here!NoSid, Here!OneDevicePerContact

\* The same of the other.
LEMMA ThereAssumptions ==
    There!JidAssumption /\ There!SidAssumption /\ There!EnvironmentAssumption
    /\ There!OneDevicePerContact
BY PartiesAssumption DEF There!JidAssumption, There!SidAssumption, There!EnvironmentAssumption,
   There!Sids, Sids, There!NoSid, There!OneDevicePerContact

HereBegun == Here!Begun(openings)
ThereBegun == There!Begun(thereOpenings)

LinkToThere == Link(thereInbox, Here!Stanzas, HereBegun, ThereBegun, OwnSids, PeerSids)
LinkToHere == Link(inbox, There!Stanzas, ThereBegun, HereBegun, PeerSids, OwnSids)

PartiesInvariant ==
    /\ Here!ClientInvariant /\ There!ClientInvariant
    /\ LinkToThere /\ LinkToHere

\* What a client puts on the wire is its to say.
LEMMA HereSays ==
    ASSUME Here!StepInRole
    PROVE  Said(OnTheWire(sent'), Here!Stanzas, HereBegun, HereBegun', OwnSids, PeerSids)
<1>1. /\ sent' \in Seq(Here!Stanzas) /\ HereBegun \subseteq HereBegun'
      /\ Here!SpeaksInRole /\ Here!ProposalsAreSaid
  BY DEF Here!StepInRole, HereBegun
<1>2. \A stanza \in Here!Stanzas : stanza.action \in WireActions \cup {"result", "presence"}
  BY DEF Here!Stanzas, Here!JmiActions, Here!JingleActions, WireActions
<1>3. ASSUME NEW i \in DOMAIN sent', sent'[i].action \in WireActions
      PROVE  /\ SaidInRole(sent'[i], HereBegun', OwnSids, PeerSids)
             /\ sent'[i].action \in Openers =>
                   /\ <<sent'[i].sid, sent'[i].action>> \notin HereBegun
                   /\ \A j \in DOMAIN sent' : sent'[j].action \in Openers => j = i
  <2>1. /\ Here!InRole(sent'[i].sid, sent'[i].action, HereBegun')
        /\ sent'[i].action \in Openers =>
              /\ <<sent'[i].sid, sent'[i].action>> \notin HereBegun
              /\ \A j \in DOMAIN sent' : sent'[j].action \in Openers => j = i
    BY <1>1, <1>3 DEF Here!SpeaksInRole, Here!Words, Here!JmiActions, Here!JingleActions,
       WireActions, Openers, Here!OpeningActions, HereBegun
  <2>2. SaidInRole(sent'[i], HereBegun', OwnSids, PeerSids)
    BY <1>3, <2>1 DEF Here!InRole, SaidInRole, Here!Sids, Openers, Here!OpeningActions
  <2> QED BY <2>1, <2>2
<1>4. \A sid \in OwnSids : <<sid, "propose">> \in HereBegun' \ HereBegun =>
         1 \in DOMAIN sent' /\ sent'[1].action = "propose" /\ sent'[1].sid = sid
  BY <1>1 DEF Here!ProposalsAreSaid, Here!NewlyBegun, HereBegun
<1> QED BY <1>1, <1>2, <1>3, <1>4, WireSays

\* The same of the other client.
LEMMA ThereSays ==
    ASSUME There!StepInRole
    PROVE  Said(OnTheWire(thereSent'), There!Stanzas, ThereBegun, ThereBegun', PeerSids, OwnSids)
<1>1. /\ thereSent' \in Seq(There!Stanzas) /\ ThereBegun \subseteq ThereBegun'
      /\ There!SpeaksInRole /\ There!ProposalsAreSaid
  BY DEF There!StepInRole, ThereBegun
<1>2. \A stanza \in There!Stanzas : stanza.action \in WireActions \cup {"result", "presence"}
  BY DEF There!Stanzas, There!JmiActions, There!JingleActions, WireActions
<1>3. ASSUME NEW i \in DOMAIN thereSent', thereSent'[i].action \in WireActions
      PROVE  /\ SaidInRole(thereSent'[i], ThereBegun', PeerSids, OwnSids)
             /\ thereSent'[i].action \in Openers =>
                   /\ <<thereSent'[i].sid, thereSent'[i].action>> \notin ThereBegun
                   /\ \A j \in DOMAIN thereSent' : thereSent'[j].action \in Openers => j = i
  <2>1. /\ There!InRole(thereSent'[i].sid, thereSent'[i].action, ThereBegun')
        /\ thereSent'[i].action \in Openers =>
              /\ <<thereSent'[i].sid, thereSent'[i].action>> \notin ThereBegun
              /\ \A j \in DOMAIN thereSent' : thereSent'[j].action \in Openers => j = i
    BY <1>1, <1>3 DEF There!SpeaksInRole, There!Words, There!JmiActions, There!JingleActions,
       WireActions, Openers, There!OpeningActions, ThereBegun
  <2>2. SaidInRole(thereSent'[i], ThereBegun', PeerSids, OwnSids)
    BY <1>3, <2>1 DEF There!InRole, SaidInRole, There!Sids, Openers, There!OpeningActions
  <2> QED BY <2>1, <2>2
<1>4. \A sid \in PeerSids : <<sid, "propose">> \in ThereBegun' \ ThereBegun =>
         1 \in DOMAIN thereSent' /\ thereSent'[1].action = "propose" /\ thereSent'[1].sid = sid
  BY <1>1 DEF There!ProposalsAreSaid, There!NewlyBegun, ThereBegun
<1> QED BY <1>1, <1>2, <1>3, <1>4, WireSays

\* What one side opens is not the other's to open.
LEMMA SidesDiffer ==
    ASSUME NEW o
    PROVE  /\ Here!Outward(o[1], o[2]) => ~OpenedBy(PeerSids, OwnSids, o)
           /\ There!Outward(o[1], o[2]) => ~OpenedBy(OwnSids, PeerSids, o)
BY PartiesAssumption DEF Here!Outward, There!Outward, OpenedBy

\* Of its own accord a client opens what the other has not heard of.
LEMMA HereActsKeeps ==
    ASSUME PartiesInvariant, HereActs
    PROVE  PartiesInvariant'
<1> DEFINE reportable == {r \in Here!Engines \X Here!Reports : CanReport(r[1], r[2])}
<1>1. /\ Here!Act(reportable) /\ reportable \in SUBSET (Here!Engines \X Here!Reports)
      /\ UNCHANGED thereVars /\ thereInbox' = thereInbox \o OnTheWire(sent')
  BY DEF HereActs, ToThere
<1> HIDE DEF reportable
<1>2. /\ Here!StepInRole /\ inbox' = inbox
      /\ \A o \in Here!NewlyBegun : Here!Outward(o[1], o[2])
  BY <1>1, HereAssumptions, Here!ClientActs DEF PartiesInvariant
<1>3. There!ClientInvariant' /\ ThereBegun' = ThereBegun
  <2>1. UNCHANGED There!vars
    BY <1>1 DEF thereVars, There!vars, There!callVars, There!mediaVars, There!timerVars,
       There!uiVars, There!networkVars
  <2>2. thereOpenings' = thereOpenings
    BY <1>1 DEF thereVars
  <2> QED BY <2>1, <2>2, ThereAssumptions, There!ClientWaits DEF PartiesInvariant, ThereBegun
<1>4. Said(OnTheWire(sent'), Here!Stanzas, HereBegun, HereBegun', OwnSids, PeerSids)
  BY <1>2, HereSays
<1>5. LinkToThere'
  <2>1. Link(thereInbox', Here!Stanzas, HereBegun', ThereBegun, OwnSids, PeerSids)
    BY <1>1, <1>4, LinkSends DEF PartiesInvariant, LinkToThere
  <2> QED BY <1>3, <2>1 DEF LinkToThere, Here!Stanzas
<1>6. LinkToHere'
  <2>1. HereBegun \subseteq HereBegun' /\ HereBegun' \ HereBegun = Here!NewlyBegun
    BY <1>2 DEF Here!StepInRole, HereBegun, Here!NewlyBegun
  <2>2. \A o \in HereBegun' \ HereBegun : ~OpenedBy(PeerSids, OwnSids, o)
    BY <1>2, <2>1, SidesDiffer
  <2>3. Link(inbox, There!Stanzas, ThereBegun, HereBegun', PeerSids, OwnSids)
    BY <2>1, <2>2, LinkHears DEF PartiesInvariant, LinkToHere
  <2> QED BY <1>2, <1>3, <2>3 DEF LinkToHere, There!Stanzas
<1>7. Here!ClientInvariant'
  BY <1>2 DEF Here!StepInRole
<1> QED BY <1>3, <1>5, <1>6, <1>7 DEF PartiesInvariant

\* A client that takes a stanza has heard of it, and answers in role.
LEMMA HereReceivesKeeps ==
    ASSUME PartiesInvariant, HereReceives
    PROVE  PartiesInvariant'
<1> DEFINE head == Head(inbox)
<1>1. /\ Here!Receive(contactDevice) /\ UNCHANGED thereVars
      /\ thereInbox' = thereInbox \o OnTheWire(sent')
  BY DEF HereReceives, ToThere
<1>2. head.sid \in Here!Sids
  <2>1. inbox # <<>>
    BY <1>1 DEF Here!Receive, Here!Arrives
  <2>2. SaidInRole(head, ThereBegun, PeerSids, OwnSids)
    BY <2>1 DEF PartiesInvariant, LinkToHere, Link
  <2> QED BY <2>2 DEF SaidInRole, Here!Sids
<1>3. /\ Here!StepInRole /\ inbox # <<>> /\ inbox' = Tail(inbox)
      /\ \A o \in Here!NewlyBegun : \/ o[1] \in PeerSids /\ o[2] = "proceed"
                                    \/ o = <<head.sid, head.action>>
      /\ head.action = "propose" => <<head.sid, "propose">> \in HereBegun'
  BY <1>1, <1>2, HereAssumptions, Here!ClientReceives DEF PartiesInvariant, HereBegun
<1>4. There!ClientInvariant' /\ ThereBegun' = ThereBegun
  <2>1. UNCHANGED There!vars
    BY <1>1 DEF thereVars, There!vars, There!callVars, There!mediaVars, There!timerVars,
       There!uiVars, There!networkVars
  <2>2. thereOpenings' = thereOpenings
    BY <1>1 DEF thereVars
  <2> QED BY <2>1, <2>2, ThereAssumptions, There!ClientWaits DEF PartiesInvariant, ThereBegun
<1>5. LinkToThere'
  <2>1. Said(OnTheWire(sent'), Here!Stanzas, HereBegun, HereBegun', OwnSids, PeerSids)
    BY <1>3, HereSays
  <2>2. Link(thereInbox', Here!Stanzas, HereBegun', ThereBegun, OwnSids, PeerSids)
    BY <1>1, <2>1, LinkSends DEF PartiesInvariant, LinkToThere
  <2> QED BY <1>4, <2>2 DEF LinkToThere, Here!Stanzas
<1>6. LinkToHere'
  <2>1. HereBegun \subseteq HereBegun' /\ HereBegun' \ HereBegun = Here!NewlyBegun
    BY <1>3 DEF Here!StepInRole, HereBegun, Here!NewlyBegun
  <2>2. \A o \in HereBegun' \ HereBegun :
           ~OpenedBy(PeerSids, OwnSids, o) \/ o = <<head.sid, head.action>>
    BY <1>3, <2>1, PartiesAssumption DEF OpenedBy
  <2>3. Link(Tail(inbox), There!Stanzas, ThereBegun, HereBegun', PeerSids, OwnSids)
    BY <1>3, <2>1, <2>2, LinkTakes DEF PartiesInvariant, LinkToHere
  <2> QED BY <1>3, <1>4, <2>3 DEF LinkToHere, There!Stanzas
<1>7. Here!ClientInvariant'
  BY <1>3 DEF Here!StepInRole
<1> QED BY <1>4, <1>5, <1>6, <1>7 DEF PartiesInvariant

\* The other client acts as the one does.
LEMMA ThereActsKeeps ==
    ASSUME PartiesInvariant, ThereActs
    PROVE  PartiesInvariant'
<1> DEFINE reportable == {r \in There!Engines \X There!Reports : CanReport(r[1], r[2])}
<1>1. /\ There!Act(reportable) /\ reportable \in SUBSET (There!Engines \X There!Reports)
      /\ UNCHANGED hereVars /\ inbox' = inbox \o OnTheWire(thereSent')
  BY DEF ThereActs, ToHere
<1> HIDE DEF reportable
<1>2. /\ There!StepInRole /\ thereInbox' = thereInbox
      /\ \A o \in There!NewlyBegun : There!Outward(o[1], o[2])
  BY <1>1, ThereAssumptions, There!ClientActs DEF PartiesInvariant
<1>3. Here!ClientInvariant' /\ HereBegun' = HereBegun
  <2>1. UNCHANGED Here!vars
    BY <1>1 DEF hereVars, Here!vars, Here!callVars, Here!mediaVars, Here!timerVars,
       Here!uiVars, Here!networkVars
  <2>2. openings' = openings
    BY <1>1 DEF hereVars
  <2> QED BY <2>1, <2>2, HereAssumptions, Here!ClientWaits DEF PartiesInvariant, HereBegun
<1>4. LinkToHere'
  <2>1. Said(OnTheWire(thereSent'), There!Stanzas, ThereBegun, ThereBegun', PeerSids, OwnSids)
    BY <1>2, ThereSays
  <2>2. Link(inbox', There!Stanzas, ThereBegun', HereBegun, PeerSids, OwnSids)
    BY <1>1, <2>1, LinkSends DEF PartiesInvariant, LinkToHere
  <2> QED BY <1>3, <2>2 DEF LinkToHere, There!Stanzas
<1>5. LinkToThere'
  <2>1. ThereBegun \subseteq ThereBegun' /\ ThereBegun' \ ThereBegun = There!NewlyBegun
    BY <1>2 DEF There!StepInRole, ThereBegun, There!NewlyBegun
  <2>2. \A o \in ThereBegun' \ ThereBegun : ~OpenedBy(OwnSids, PeerSids, o)
    BY <1>2, <2>1, SidesDiffer
  <2>3. Link(thereInbox, Here!Stanzas, HereBegun, ThereBegun', OwnSids, PeerSids)
    BY <2>1, <2>2, LinkHears DEF PartiesInvariant, LinkToThere
  <2> QED BY <1>2, <1>3, <2>3 DEF LinkToThere, Here!Stanzas
<1>6. There!ClientInvariant'
  BY <1>2 DEF There!StepInRole
<1> QED BY <1>3, <1>4, <1>5, <1>6 DEF PartiesInvariant

\* And receives as the one does.
LEMMA ThereReceivesKeeps ==
    ASSUME PartiesInvariant, ThereReceives
    PROVE  PartiesInvariant'
<1> DEFINE head == Head(thereInbox)
<1>1. /\ There!Receive(selfDevice) /\ UNCHANGED hereVars
      /\ inbox' = inbox \o OnTheWire(thereSent')
  BY DEF ThereReceives, ToHere
<1>2. head.sid \in There!Sids
  <2>1. thereInbox # <<>>
    BY <1>1 DEF There!Receive, There!Arrives
  <2>2. SaidInRole(head, HereBegun, OwnSids, PeerSids)
    BY <2>1 DEF PartiesInvariant, LinkToThere, Link
  <2> QED BY <2>2 DEF SaidInRole, There!Sids
<1>3. /\ There!StepInRole /\ thereInbox # <<>> /\ thereInbox' = Tail(thereInbox)
      /\ \A o \in There!NewlyBegun : \/ o[1] \in OwnSids /\ o[2] = "proceed"
                                     \/ o = <<head.sid, head.action>>
      /\ head.action = "propose" => <<head.sid, "propose">> \in ThereBegun'
  BY <1>1, <1>2, ThereAssumptions, There!ClientReceives DEF PartiesInvariant, ThereBegun
<1>4. Here!ClientInvariant' /\ HereBegun' = HereBegun
  <2>1. UNCHANGED Here!vars
    BY <1>1 DEF hereVars, Here!vars, Here!callVars, Here!mediaVars, Here!timerVars,
       Here!uiVars, Here!networkVars
  <2>2. openings' = openings
    BY <1>1 DEF hereVars
  <2> QED BY <2>1, <2>2, HereAssumptions, Here!ClientWaits DEF PartiesInvariant, HereBegun
<1>5. LinkToHere'
  <2>1. Said(OnTheWire(thereSent'), There!Stanzas, ThereBegun, ThereBegun', PeerSids, OwnSids)
    BY <1>3, ThereSays
  <2>2. Link(inbox', There!Stanzas, ThereBegun', HereBegun, PeerSids, OwnSids)
    BY <1>1, <2>1, LinkSends DEF PartiesInvariant, LinkToHere
  <2> QED BY <1>4, <2>2 DEF LinkToHere, There!Stanzas
<1>6. LinkToThere'
  <2>1. ThereBegun \subseteq ThereBegun' /\ ThereBegun' \ ThereBegun = There!NewlyBegun
    BY <1>3 DEF There!StepInRole, ThereBegun, There!NewlyBegun
  <2>2. \A o \in ThereBegun' \ ThereBegun :
           ~OpenedBy(OwnSids, PeerSids, o) \/ o = <<head.sid, head.action>>
    BY <1>3, <2>1, PartiesAssumption DEF OpenedBy
  <2>3. Link(Tail(thereInbox), Here!Stanzas, HereBegun, ThereBegun', OwnSids, PeerSids)
    BY <1>3, <2>1, <2>2, LinkTakes DEF PartiesInvariant, LinkToThere
  <2> QED BY <1>3, <1>4, <2>3 DEF LinkToThere, Here!Stanzas
<1>7. There!ClientInvariant'
  BY <1>3 DEF There!StepInRole
<1> QED BY <1>4, <1>5, <1>6, <1>7 DEF PartiesInvariant

\* At first nothing is on its way and nothing has begun.
LEMMA InitParties == PartiesInit => PartiesInvariant
<1> SUFFICES ASSUME PartiesInit PROVE PartiesInvariant
  OBVIOUS
<1>1. Here!ClientInvariant /\ HereBegun = {} /\ inbox = <<>>
  BY HereAssumptions, Here!ClientInit DEF PartiesInit, HereBegun
<1>2. There!ClientInvariant /\ ThereBegun = {} /\ thereInbox = <<>>
  BY ThereAssumptions, There!ClientInit DEF PartiesInit, ThereBegun
<1>3. LinkToThere
  BY <1>1, <1>2 DEF LinkToThere, Link, OpensNew
<1>4. LinkToHere
  BY <1>1, <1>2 DEF LinkToHere, Link, OpensNew
<1> QED BY <1>1, <1>2, <1>3, <1>4 DEF PartiesInvariant

\* Every step of the network keeps the invariant.
LEMMA NextParties == PartiesInvariant /\ [PartiesNext]_bothVars => PartiesInvariant'
<1> SUFFICES ASSUME PartiesInvariant, [PartiesNext]_bothVars PROVE PartiesInvariant'
  OBVIOUS
<1>1. CASE PartiesNext
  BY <1>1, HereActsKeeps, ThereActsKeeps, HereReceivesKeeps, ThereReceivesKeeps DEF PartiesNext
<1>2. CASE UNCHANGED bothVars
  <2>1. /\ UNCHANGED Here!vars /\ UNCHANGED There!vars
        /\ openings' = openings /\ thereOpenings' = thereOpenings
        /\ inbox' = inbox /\ thereInbox' = thereInbox
    BY <1>2 DEF bothVars, hereVars, thereVars,
       Here!vars, Here!callVars, Here!mediaVars, Here!timerVars, Here!uiVars, Here!networkVars,
       There!vars, There!callVars, There!mediaVars, There!timerVars, There!uiVars,
       There!networkVars
  <2>2. Here!ClientInvariant' /\ There!ClientInvariant'
    BY <2>1, HereAssumptions, ThereAssumptions, Here!ClientWaits, There!ClientWaits
       DEF PartiesInvariant
  <2>3. LinkToThere' /\ LinkToHere'
    BY <2>1 DEF PartiesInvariant, LinkToThere, LinkToHere, HereBegun, ThereBegun,
       Here!Stanzas, There!Stanzas
  <2> QED BY <2>2, <2>3 DEF PartiesInvariant
<1> QED BY <1>1, <1>2

\* So the invariant is what was promised.
LEMMA PartiesKeepRoles == PartiesInvariant => RolesAreKept
<1> SUFFICES ASSUME PartiesInvariant PROVE RolesAreKept
  OBVIOUS
<1>1. ASSUME inbox # <<>>, Here!MayOvertake
      PROVE  LET stanza == Head(inbox) IN
             IF stanza.action \in Here!JmiActions
               THEN Here!MaySendJmi(contactDevice, stanza.action, stanza.sid)
               ELSE Here!MaySendJingle(contactDevice, stanza.action, stanza.sid)
  <2> DEFINE sid == Head(inbox).sid
             action == Head(inbox).action
             Heard(what) == <<sid, what>> \in HereBegun
  <2>1. /\ SaidInRole(Head(inbox), ThereBegun, PeerSids, OwnSids)
        /\ action \in Openers => ~Heard(action)
        /\ action # "propose" => Heard("propose")
        /\ action \in {"session-accept", "transport-info"} /\ sid \in OwnSids =>
              Heard("session-initiate")
    <3>1. Link(inbox, There!Stanzas, ThereBegun, HereBegun, PeerSids, OwnSids)
      BY DEF PartiesInvariant, LinkToHere
    <3>2. \A o \in ThereBegun : OpenedBy(OwnSids, PeerSids, o) => o \in HereBegun
      BY DEF PartiesInvariant, LinkToThere, Link
    <3> QED BY <1>1, <3>1, <3>2, HeadFits
  <2>2. /\ sid \in OwnSids \cup PeerSids /\ action \in WireActions
        /\ action \in {"propose", "retract", "session-initiate"} => sid \in PeerSids
        /\ action \in {"ringing", "proceed", "reject", "session-accept"} => sid \in OwnSids
    BY <2>1 DEF SaidInRole
  <2>3. /\ attached /\ openings \in SUBSET Here!Openings
        /\ \A o \in openings : o[3] # "propose" => o[2] = contactDevice
    BY DEF PartiesInvariant, Here!ClientInvariant, Here!EngineInvariant, Here!CallInvariant,
       Here!TypeOK, Here!NetworkTyped, Here!RoleInvariant, Here!OpeningsAreNamed
  <2> HIDE DEF sid, action
  <2>4. ASSUME NEW what
        PROVE  /\ \A d : <<sid, d, what>> \in openings => Heard(what)
               /\ Heard(what) => \E d : <<sid, d, what>> \in openings
    BY <2>3, Here!BegunIs, HereAssumptions DEF HereBegun
  <2>5. Here!Proposed(sid) <=> Heard("propose")
    BY <2>3, Here!BegunIs, HereAssumptions DEF HereBegun, Here!Proposed
  <2>6. ASSUME NEW what, what # "propose", Heard(what)
        PROVE  <<sid, contactDevice, what>> \in openings
    <3>1. PICK d : <<sid, d, what>> \in openings
      BY <2>4, <2>6
    <3>2. <<sid, d, what>>[2] = d /\ <<sid, d, what>>[3] = what
      OBVIOUS
    <3> QED BY <2>3, <2>6, <3>1, <3>2
  <2>7. [d \in {contactDevice} |-> contact][contactDevice] = [s \in Sids |-> contact][sid]
    BY <2>2 DEF Sids
  <2>8. CASE action \in Here!JmiActions
    <3>1. Here!MaySendJmi(contactDevice, action, sid)
      BY <1>1, <2>1, <2>2, <2>3, <2>4, <2>5, <2>7, <2>8, PartiesAssumption
         DEF Here!MaySendJmi, Here!JmiActions, Openers, action, sid
    <3> QED BY <2>8, <3>1 DEF action, sid
  <2>9. CASE action \notin Here!JmiActions
    <3>1. action \in {"session-initiate", "session-accept", "transport-info",
                      "session-terminate"}
      BY <2>2, <2>9 DEF WireActions, Here!JmiActions
    <3>2. Here!MaySendJingle(contactDevice, action, sid)
      <4>1. CASE action = "session-initiate"
        BY <1>1, <2>1, <2>2, <2>3, <2>4, <2>5, <2>7, <4>1 DEF Here!MaySendJingle, Openers, action, sid
      <4>2. CASE action = "session-accept"
        BY <1>1, <2>1, <2>2, <2>3, <2>6, <2>7, <4>2 DEF Here!MaySendJingle, action, sid
      <4>3. CASE action = "transport-info"
        BY <1>1, <2>1, <2>2, <2>3, <2>5, <2>6, <2>7, <4>3 DEF Here!MaySendJingle, action, sid
      <4>4. CASE action = "session-terminate"
        BY <1>1, <2>1, <2>2, <2>3, <2>5, <2>7, <4>4 DEF Here!MaySendJingle, action, sid
      <4> QED BY <3>1, <4>1, <4>2, <4>3, <4>4
    <3> QED BY <2>9, <3>2 DEF action, sid
  <2> QED BY <2>8, <2>9
<1>2. ASSUME thereInbox # <<>>, There!MayOvertake
      PROVE  LET stanza == Head(thereInbox) IN
             IF stanza.action \in There!JmiActions
               THEN There!MaySendJmi(selfDevice, stanza.action, stanza.sid)
               ELSE There!MaySendJingle(selfDevice, stanza.action, stanza.sid)
  <2> DEFINE sid == Head(thereInbox).sid
             action == Head(thereInbox).action
             Heard(what) == <<sid, what>> \in ThereBegun
  <2>1. /\ SaidInRole(Head(thereInbox), HereBegun, OwnSids, PeerSids)
        /\ action \in Openers => ~Heard(action)
        /\ action # "propose" => Heard("propose")
        /\ action \in {"session-accept", "transport-info"} /\ sid \in PeerSids =>
              Heard("session-initiate")
    <3>1. Link(thereInbox, Here!Stanzas, HereBegun, ThereBegun, OwnSids, PeerSids)
      BY DEF PartiesInvariant, LinkToThere
    <3>2. \A o \in HereBegun : OpenedBy(PeerSids, OwnSids, o) => o \in ThereBegun
      BY DEF PartiesInvariant, LinkToHere, Link
    <3> QED BY <1>2, <3>1, <3>2, HeadFits
  <2>2. /\ sid \in OwnSids \cup PeerSids /\ action \in WireActions
        /\ action \in {"propose", "retract", "session-initiate"} => sid \in OwnSids
        /\ action \in {"ringing", "proceed", "reject", "session-accept"} => sid \in PeerSids
    BY <2>1 DEF SaidInRole
  <2>3. /\ thereAttached /\ thereOpenings \in SUBSET There!Openings
        /\ \A o \in thereOpenings : o[3] # "propose" => o[2] = selfDevice
    BY DEF PartiesInvariant, There!ClientInvariant, There!EngineInvariant, There!CallInvariant,
       There!TypeOK, There!NetworkTyped, There!RoleInvariant, There!OpeningsAreNamed
  <2> HIDE DEF sid, action
  <2>4. ASSUME NEW what
        PROVE  /\ \A d : <<sid, d, what>> \in thereOpenings => Heard(what)
               /\ Heard(what) => \E d : <<sid, d, what>> \in thereOpenings
    BY <2>3, There!BegunIs, ThereAssumptions DEF ThereBegun
  <2>5. There!Proposed(sid) <=> Heard("propose")
    BY <2>3, There!BegunIs, ThereAssumptions DEF ThereBegun, There!Proposed
  <2>6. ASSUME NEW what, what # "propose", Heard(what)
        PROVE  <<sid, selfDevice, what>> \in thereOpenings
    <3>1. PICK d : <<sid, d, what>> \in thereOpenings
      BY <2>4, <2>6
    <3>2. <<sid, d, what>>[2] = d /\ <<sid, d, what>>[3] = what
      OBVIOUS
    <3> QED BY <2>3, <2>6, <3>1, <3>2
  <2>7. [d \in {selfDevice} |-> self][selfDevice] = [s \in Sids |-> self][sid]
    BY <2>2 DEF Sids
  <2>8. CASE action \in There!JmiActions
    <3>1. There!MaySendJmi(selfDevice, action, sid)
      BY <1>2, <2>1, <2>2, <2>3, <2>4, <2>5, <2>7, <2>8, PartiesAssumption
         DEF There!MaySendJmi, There!JmiActions, Openers, action, sid
    <3> QED BY <2>8, <3>1 DEF action, sid
  <2>9. CASE action \notin There!JmiActions
    <3>1. action \in {"session-initiate", "session-accept", "transport-info",
                      "session-terminate"}
      BY <2>2, <2>9 DEF WireActions, There!JmiActions
    <3>2. There!MaySendJingle(selfDevice, action, sid)
      <4>1. CASE action = "session-initiate"
        BY <1>2, <2>1, <2>2, <2>3, <2>4, <2>5, <2>7, <4>1 DEF There!MaySendJingle, Openers, action, sid
      <4>2. CASE action = "session-accept"
        BY <1>2, <2>1, <2>2, <2>3, <2>6, <2>7, <4>2 DEF There!MaySendJingle, action, sid
      <4>3. CASE action = "transport-info"
        BY <1>2, <2>1, <2>2, <2>3, <2>5, <2>6, <2>7, <4>3 DEF There!MaySendJingle, action, sid
      <4>4. CASE action = "session-terminate"
        BY <1>2, <2>1, <2>2, <2>3, <2>5, <2>7, <4>4 DEF There!MaySendJingle, action, sid
      <4> QED BY <3>1, <4>1, <4>2, <4>3, <4>4
    <3> QED BY <2>9, <3>2 DEF action, sid
  <2> QED BY <2>8, <2>9
<1> QED BY <1>1, <1>2 DEF RolesAreKept

\* MaySendJmi and MaySendJingle, all that the controller's model and so every theorem
\* about it takes of the other end, hold of two clients that run this plugin: the
\* handlers of module.py are given nothing that the model of controller.py leaves out.
THEOREM RolesKept == PartiesSpec => []RolesAreKept
<1>1. PartiesInit => PartiesInvariant
  BY InitParties
<1>2. PartiesInvariant /\ [PartiesNext]_bothVars => PartiesInvariant'
  BY NextParties
<1>3. PartiesInvariant => RolesAreKept
  BY PartiesKeepRoles
<1> QED BY <1>1, <1>2, <1>3, PTL DEF PartiesSpec

-----------------------------------------------------------------------------
(* The two sides of a call.                                                *)

\* Each has one contact, with one device.
LEMMA SidesArePaired == Here!Paired /\ There!Paired
BY DEF Here!Paired, There!Paired

AccordToThere == Accord(thereInbox, Here!View, There!View, OwnSids, PeerSids)
AccordToHere == Accord(inbox, There!View, Here!View, PeerSids, OwnSids)

SidesInvariant ==
    /\ PartiesInvariant /\ Here!SideInvariant /\ There!SideInvariant
    /\ AccordToThere /\ AccordToHere

\* What a client has of a call is sound.
LEMMA HereIsSound ==
    Here!SideInvariant => Sound(Here!View, OwnSids, PeerSids) /\ Here!View.begun = HereBegun
BY SidesArePaired, HereAssumptions, Here!SideIsSound DEF Sound, Here!View, HereBegun

\* So is what the other has.
LEMMA ThereIsSound ==
    There!SideInvariant => Sound(There!View, PeerSids, OwnSids) /\ There!View.begun = ThereBegun
BY SidesArePaired, ThereAssumptions, There!SideIsSound DEF Sound, There!View, ThereBegun

\* A client that does nothing has what it had.
LEMMA HereWaits ==
    ASSUME Here!SideInvariant, UNCHANGED hereVars
    PROVE  Here!SideInvariant' /\ Here!View' = Here!View
<1>1. UNCHANGED Here!vars
  BY DEF hereVars, Here!vars, Here!callVars, Here!mediaVars, Here!timerVars,
     Here!uiVars, Here!networkVars
<1>2. Here!SideInvariant'
  BY <1>1, HereAssumptions, Here!SideWaits
<1> QED BY <1>2 DEF hereVars, Here!View, Here!Alive, Here!Straight, Here!Asking, Here!Given,
     Here!AnsweredSids, Here!Live

\* Nor has the other anything else then.
LEMMA ThereWaits ==
    ASSUME There!SideInvariant, UNCHANGED thereVars
    PROVE  There!SideInvariant' /\ There!View' = There!View
<1>1. UNCHANGED There!vars
  BY DEF thereVars, There!vars, There!callVars, There!mediaVars, There!timerVars,
     There!uiVars, There!networkVars
<1>2. There!SideInvariant'
  BY <1>1, ThereAssumptions, There!SideWaits
<1> QED BY <1>2 DEF thereVars, There!View, There!Alive, There!Straight, There!Asking,
     There!Given, There!AnsweredSids, There!Live

\* A client that moves the call so keeps in accord with the other.
LEMMA HereAgrees ==
    ASSUME SidesInvariant, PartiesInvariant', Here!SideInvariant', NEW head,
           Here!StepInRole, Here!SideMoves(head), UNCHANGED thereVars,
           thereInbox' = thereInbox \o OnTheWire(sent'),
           \/ inbox' = inbox /\ head.action = "none"
           \/ inbox # <<>> /\ head = Head(inbox) /\ inbox' = Tail(inbox)
    PROVE  SidesInvariant'
<1> DEFINE words == OnTheWire(sent')
<1>1. There!SideInvariant' /\ There!View' = There!View /\ ThereBegun' = ThereBegun
  BY ThereWaits DEF SidesInvariant, thereVars, ThereBegun
<1>2. /\ Sound(Here!View, OwnSids, PeerSids) /\ Here!View.begun = HereBegun
      /\ Sound(There!View, PeerSids, OwnSids) /\ There!View.begun = ThereBegun
  BY HereIsSound, ThereIsSound DEF SidesInvariant
<1>3. (Sound(Here!View, OwnSids, PeerSids) /\ Here!View.begun = HereBegun)'
  BY HereIsSound, PTL
<1>4. Said(words, Here!Stanzas, HereBegun, HereBegun', OwnSids, PeerSids)
  BY HereSays
<1>5. Moves(Here!View, Here!View', words, head, OwnSids, PeerSids)
  <2>1. Moves(Here!View, Here!View', sent', head, OwnSids, PeerSids)
    BY DEF Here!SideMoves, Moves, Here!View, Carries, Bears, Endings, SessionActions,
       TalkActions, Here!EndActions, Here!SessionActions, Here!TalkActions, Here!Ends, Here!NewlyBegun
  <2>2. sent' \in Seq(Here!Stanzas)
    BY DEF Here!StepInRole
  <2> QED BY <2>1, <2>2, WireMoves
<1> HIDE DEF words
<1>6. /\ Link(thereInbox, Here!Stanzas, HereBegun, ThereBegun, OwnSids, PeerSids)
      /\ Link(thereInbox \o words, Here!Stanzas, HereBegun', ThereBegun, OwnSids, PeerSids)
      /\ Link(inbox, There!Stanzas, ThereBegun, HereBegun, PeerSids, OwnSids)
      /\ Link(inbox', There!Stanzas, ThereBegun, HereBegun', PeerSids, OwnSids)
  BY <1>1 DEF SidesInvariant, PartiesInvariant, LinkToThere, LinkToHere, words,
     Here!Stanzas, There!Stanzas
<1>7. /\ Accord(thereInbox \o words, Here!View', There!View, OwnSids, PeerSids)
      /\ Accord(inbox', There!View, Here!View', PeerSids, OwnSids)
  BY <1>2, <1>3, <1>4, <1>5, <1>6, PartiesAssumption, AccordMoves
     DEF SidesInvariant, AccordToThere, AccordToHere
<1> QED BY <1>1, <1>7 DEF SidesInvariant, AccordToThere, AccordToHere, words

\* When its engines connect the call is one set up in JMI: the other would have left a
\* session that rang alone.
LEMMA HereJoins ==
    ASSUME SidesInvariant, NEW e \in Here!Engines, Joined(e[1])
    PROVE  context.jmi
<1> DEFINE s == e[1]
           other == <<s, selfDevice>>
<1>1. /\ e = <<s, contactDevice>> /\ other \in There!Engines
      /\ engines[e] = "open" /\ thereEngines[other] = "open" /\ other \in thereAnswered
  BY DEF Joined, Here!Engines, There!Engines, Here!Sids, There!Sids
<1>2. /\ Here!Live(context) /\ context.sid = s
      /\ There!Live(thereContext) /\ thereContext.sid = other[1]
  BY <1>1, HereAssumptions, ThereAssumptions, Here!OpenIsLive, There!OpenIsLive
     DEF SidesInvariant
<1>3. other[1] = s
  OBVIOUS
<1> HIDE DEF s
<1>4. s \in There!View.answered
  BY <1>1, <1>3 DEF There!View, There!AnsweredSids
<1> SUFFICES ASSUME ~context.jmi PROVE FALSE
  OBVIOUS
<1>5. s \in Here!View.straight
  BY <1>2 DEF Here!View, Here!Straight
<1>6. s \notin There!View.straight
  BY <1>5, HereIsSound, ThereIsSound, PartiesAssumption DEF SidesInvariant, Sound
<1>7. s \in There!View.alive
  BY <1>2, <1>3, <1>6 DEF There!View, There!Alive, There!Straight
<1> QED BY <1>4, <1>5, <1>7 DEF SidesInvariant, AccordToThere, Accord, BelatedIsLost

\* A client that acts of its own accord keeps in accord with the other.
LEMMA HereActsAgrees ==
    ASSUME SidesInvariant, HereActs
    PROVE  SidesInvariant'
<1> DEFINE reportable == {r \in Here!Engines \X Here!Reports : CanReport(r[1], r[2])}
           none == [action |-> "none", sid |-> 0]
<1>1. /\ Here!Act(reportable) /\ reportable \in SUBSET (Here!Engines \X Here!Reports)
      /\ UNCHANGED thereVars /\ thereInbox' = thereInbox \o OnTheWire(sent')
  BY DEF HereActs, ToThere
<1>2. \A r \in reportable :
         r[2] = "connected" => engines[r[1]] = "open" /\ context.jmi
  <2> SUFFICES ASSUME NEW r \in reportable, r[2] = "connected"
               PROVE  engines[r[1]] = "open" /\ context.jmi
    OBVIOUS
  <2>1. r[1] \in Here!Engines /\ Joined(r[1][1])
    BY DEF CanReport
  <2>2. r[1] = <<r[1][1], contactDevice>>
    BY <2>1 DEF Here!Engines
  <2> QED BY <2>1, <2>2, HereJoins DEF Joined
<1> HIDE DEF reportable
<1>3. PartiesInvariant'
  BY HereActsKeeps DEF SidesInvariant
<1>4. Here!StepInRole /\ inbox' = inbox
  BY <1>1, HereAssumptions, Here!ClientActs DEF SidesInvariant, PartiesInvariant
<1>5. Here!SideInvariant' /\ Here!SideMoves(none)
  <2>1. none.action = "none"
    OBVIOUS
  <2> HIDE DEF none
  <2> QED BY <1>1, <1>2, <2>1, SidesArePaired, HereAssumptions, Here!SideActs DEF SidesInvariant
<1>6. none.action = "none"
  OBVIOUS
<1> HIDE DEF none
<1> QED BY <1>1, <1>3, <1>4, <1>5, <1>6, HereAgrees

\* So does one that takes a stanza.
LEMMA HereReceivesAgrees ==
    ASSUME SidesInvariant, HereReceives
    PROVE  SidesInvariant'
<1> DEFINE head == Head(inbox)
<1>1. /\ Here!Receive(contactDevice) /\ UNCHANGED thereVars
      /\ thereInbox' = thereInbox \o OnTheWire(sent') /\ inbox # <<>>
  BY DEF HereReceives, ToThere, Here!Receive, Here!Arrives
<1>2. 1 \in DOMAIN inbox /\ head = inbox[1]
  BY <1>1 DEF SidesInvariant, PartiesInvariant, LinkToHere, Link
<1>3. head.sid \in Here!Sids
  <2>1. SaidInRole(head, ThereBegun, PeerSids, OwnSids)
    BY <1>2 DEF SidesInvariant, PartiesInvariant, LinkToHere, Link
  <2> QED BY <2>1 DEF SaidInRole, Here!Sids
<1>4. head.action = "session-initiate" =>
         \A sid \in Here!Given \cup (Here!Alive \ Here!Asking) : head.sid = sid
  BY <1>2 DEF SidesInvariant, AccordToHere, Accord, NoOtherOffer, Held, Here!View
<1>5. PartiesInvariant'
  BY HereReceivesKeeps DEF SidesInvariant
<1>6. Here!StepInRole /\ inbox' = Tail(inbox)
  BY <1>1, <1>3, HereAssumptions, Here!ClientReceives DEF SidesInvariant, PartiesInvariant
<1>7. Here!SideInvariant' /\ Here!SideMoves(head)
  BY <1>1, <1>3, <1>4, SidesArePaired, HereAssumptions, Here!SideReceives DEF SidesInvariant
<1> HIDE DEF head
<1> QED BY <1>1, <1>5, <1>6, <1>7, HereAgrees DEF head
\* Whichever client it is.
LEMMA ThereAgrees ==
    ASSUME SidesInvariant, PartiesInvariant', There!SideInvariant', NEW head,
           There!StepInRole, There!SideMoves(head), UNCHANGED hereVars,
           inbox' = inbox \o OnTheWire(thereSent'),
           \/ thereInbox' = thereInbox /\ head.action = "none"
           \/ thereInbox # <<>> /\ head = Head(thereInbox) /\ thereInbox' = Tail(thereInbox)
    PROVE  SidesInvariant'
<1> DEFINE words == OnTheWire(thereSent')
<1>1. Here!SideInvariant' /\ Here!View' = Here!View /\ HereBegun' = HereBegun
  BY HereWaits DEF SidesInvariant, hereVars, HereBegun
<1>2. /\ Sound(There!View, PeerSids, OwnSids) /\ There!View.begun = ThereBegun
      /\ Sound(Here!View, OwnSids, PeerSids) /\ Here!View.begun = HereBegun
  BY ThereIsSound, HereIsSound DEF SidesInvariant
<1>3. (Sound(There!View, PeerSids, OwnSids) /\ There!View.begun = ThereBegun)'
  BY ThereIsSound, PTL
<1>4. Said(words, There!Stanzas, ThereBegun, ThereBegun', PeerSids, OwnSids)
  BY ThereSays
<1>5. Moves(There!View, There!View', words, head, PeerSids, OwnSids)
  <2>1. Moves(There!View, There!View', thereSent', head, PeerSids, OwnSids)
    BY DEF There!SideMoves, Moves, There!View, Carries, Bears, Endings, SessionActions,
       TalkActions, There!EndActions, There!SessionActions, There!TalkActions, There!Ends, There!NewlyBegun
  <2>2. thereSent' \in Seq(There!Stanzas)
    BY DEF There!StepInRole
  <2> QED BY <2>1, <2>2, WireMoves
<1> HIDE DEF words
<1>6. /\ Link(inbox, There!Stanzas, ThereBegun, HereBegun, PeerSids, OwnSids)
      /\ Link(inbox \o words, There!Stanzas, ThereBegun', HereBegun, PeerSids, OwnSids)
      /\ Link(thereInbox, Here!Stanzas, HereBegun, ThereBegun, OwnSids, PeerSids)
      /\ Link(thereInbox', Here!Stanzas, HereBegun, ThereBegun', OwnSids, PeerSids)
  BY <1>1 DEF SidesInvariant, PartiesInvariant, LinkToHere, LinkToThere, words,
     There!Stanzas, Here!Stanzas
<1>7. /\ Accord(inbox \o words, There!View', Here!View, PeerSids, OwnSids)
      /\ Accord(thereInbox', Here!View, There!View', OwnSids, PeerSids)
  BY <1>2, <1>3, <1>4, <1>5, <1>6, PartiesAssumption, AccordMoves
     DEF SidesInvariant, AccordToHere, AccordToThere
<1> QED BY <1>1, <1>7 DEF SidesInvariant, AccordToHere, AccordToThere, words

\* The other's call is one too.
LEMMA ThereJoins ==
    ASSUME SidesInvariant, NEW e \in There!Engines, Joined(e[1])
    PROVE  thereContext.jmi
<1> DEFINE s == e[1]
           other == <<s, contactDevice>>
<1>1. /\ e = <<s, selfDevice>> /\ other \in Here!Engines
      /\ thereEngines[e] = "open" /\ engines[other] = "open" /\ other \in answered
  BY DEF Joined, There!Engines, Here!Engines, There!Sids, Here!Sids
<1>2. /\ There!Live(thereContext) /\ thereContext.sid = s
      /\ Here!Live(context) /\ context.sid = other[1]
  BY <1>1, ThereAssumptions, HereAssumptions, There!OpenIsLive, Here!OpenIsLive
     DEF SidesInvariant
<1>3. other[1] = s
  OBVIOUS
<1> HIDE DEF s
<1>4. s \in Here!View.answered
  BY <1>1, <1>3 DEF Here!View, Here!AnsweredSids
<1> SUFFICES ASSUME ~thereContext.jmi PROVE FALSE
  OBVIOUS
<1>5. s \in There!View.straight
  BY <1>2 DEF There!View, There!Straight
<1>6. s \notin Here!View.straight
  BY <1>5, ThereIsSound, HereIsSound, PartiesAssumption DEF SidesInvariant, Sound
<1>7. s \in Here!View.alive
  BY <1>2, <1>3, <1>6 DEF Here!View, Here!Alive, Here!Straight
<1> QED BY <1>4, <1>5, <1>7 DEF SidesInvariant, AccordToHere, Accord, BelatedIsLost

\* The other acts in accord,
LEMMA ThereActsAgrees ==
    ASSUME SidesInvariant, ThereActs
    PROVE  SidesInvariant'
<1> DEFINE reportable == {r \in There!Engines \X There!Reports : CanReport(r[1], r[2])}
           none == [action |-> "none", sid |-> 0]
<1>1. /\ There!Act(reportable) /\ reportable \in SUBSET (There!Engines \X There!Reports)
      /\ UNCHANGED hereVars /\ inbox' = inbox \o OnTheWire(thereSent')
  BY DEF ThereActs, ToHere
<1>2. \A r \in reportable :
         r[2] = "connected" => thereEngines[r[1]] = "open" /\ thereContext.jmi
  <2> SUFFICES ASSUME NEW r \in reportable, r[2] = "connected"
               PROVE  thereEngines[r[1]] = "open" /\ thereContext.jmi
    OBVIOUS
  <2>1. r[1] \in There!Engines /\ Joined(r[1][1])
    BY DEF CanReport
  <2>2. r[1] = <<r[1][1], selfDevice>>
    BY <2>1 DEF There!Engines
  <2> QED BY <2>1, <2>2, ThereJoins DEF Joined
<1> HIDE DEF reportable
<1>3. PartiesInvariant'
  BY ThereActsKeeps DEF SidesInvariant
<1>4. There!StepInRole /\ thereInbox' = thereInbox
  BY <1>1, ThereAssumptions, There!ClientActs DEF SidesInvariant, PartiesInvariant
<1>5. There!SideInvariant' /\ There!SideMoves(none)
  <2>1. none.action = "none"
    OBVIOUS
  <2> HIDE DEF none
  <2> QED BY <1>1, <1>2, <2>1, SidesArePaired, ThereAssumptions, There!SideActs DEF SidesInvariant
<1>6. none.action = "none"
  OBVIOUS
<1> HIDE DEF none
<1> QED BY <1>1, <1>3, <1>4, <1>5, <1>6, ThereAgrees

\* and takes a stanza so.
LEMMA ThereReceivesAgrees ==
    ASSUME SidesInvariant, ThereReceives
    PROVE  SidesInvariant'
<1> DEFINE head == Head(thereInbox)
<1>1. /\ There!Receive(selfDevice) /\ UNCHANGED hereVars
      /\ inbox' = inbox \o OnTheWire(thereSent') /\ thereInbox # <<>>
  BY DEF ThereReceives, ToHere, There!Receive, There!Arrives
<1>2. 1 \in DOMAIN thereInbox /\ head = thereInbox[1]
  BY <1>1 DEF SidesInvariant, PartiesInvariant, LinkToThere, Link
<1>3. head.sid \in There!Sids
  <2>1. SaidInRole(head, HereBegun, OwnSids, PeerSids)
    BY <1>2 DEF SidesInvariant, PartiesInvariant, LinkToThere, Link
  <2> QED BY <2>1 DEF SaidInRole, There!Sids
<1>4. head.action = "session-initiate" =>
         \A sid \in There!Given \cup (There!Alive \ There!Asking) : head.sid = sid
  BY <1>2 DEF SidesInvariant, AccordToThere, Accord, NoOtherOffer, Held, There!View
<1>5. PartiesInvariant'
  BY ThereReceivesKeeps DEF SidesInvariant
<1>6. There!StepInRole /\ thereInbox' = Tail(thereInbox)
  BY <1>1, <1>3, ThereAssumptions, There!ClientReceives DEF SidesInvariant, PartiesInvariant
<1>7. There!SideInvariant' /\ There!SideMoves(head)
  BY <1>1, <1>3, <1>4, SidesArePaired, ThereAssumptions, There!SideReceives DEF SidesInvariant
<1> HIDE DEF head
<1> QED BY <1>1, <1>5, <1>6, <1>7, ThereAgrees DEF head

\* At first neither side has anything.
LEMMA InitSides == PartiesInit => SidesInvariant
<1> SUFFICES ASSUME PartiesInit PROVE SidesInvariant
  OBVIOUS
<1>1. /\ PartiesInvariant
      /\ Here!SideInvariant /\ Here!Alive = {} /\ Here!Straight = {} /\ answered = {}
      /\ There!SideInvariant /\ There!Alive = {} /\ There!Straight = {} /\ thereAnswered = {}
  BY InitParties, HereAssumptions, ThereAssumptions, Here!SideInit, There!SideInit DEF PartiesInit
<1>2. inbox = <<>> /\ thereInbox = <<>> /\ HereBegun = {} /\ ThereBegun = {}
  BY HereAssumptions, ThereAssumptions, Here!ClientInit, There!ClientInit
     DEF PartiesInit, HereBegun, ThereBegun
<1>3. /\ Here!View.begun = {} /\ Here!View.alive = {} /\ Here!View.straight = {}
      /\ Here!View.answered = {}
      /\ There!View.begun = {} /\ There!View.alive = {} /\ There!View.straight = {}
      /\ There!View.answered = {}
  BY <1>1, <1>2 DEF Here!View, There!View, HereBegun, ThereBegun, Here!AnsweredSids,
     There!AnsweredSids
<1>4. /\ Here!View.asking = {} /\ Here!View.given = {}
      /\ There!View.asking = {} /\ There!View.given = {}
  BY <1>1, <1>3, HereIsSound, ThereIsSound DEF Sound
<1>5. AccordToThere /\ AccordToHere
  BY <1>2, <1>3, <1>4 DEF AccordToThere, AccordToHere, Accord, LossIsTold, EndsAreFinal,
     AnswerIsComing, CallComesLast, NoOtherGiven, NoOtherOffer, OffersAreSingle, BelatedIsLost,
     AnswersWereOffered, Held
<1> QED BY <1>1, <1>5 DEF SidesInvariant

\* Every step of the network keeps the sides in accord.
LEMMA NextSides ==
    ASSUME SidesInvariant, [PartiesNext]_bothVars
    PROVE  SidesInvariant'
<1>1. CASE PartiesNext
  BY <1>1, HereActsAgrees, ThereActsAgrees, HereReceivesAgrees, ThereReceivesAgrees
     DEF PartiesNext
<1>2. CASE UNCHANGED bothVars
  <2>1. UNCHANGED hereVars /\ UNCHANGED thereVars /\ inbox' = inbox /\ thereInbox' = thereInbox
    BY <1>2 DEF bothVars
  <2>2. /\ Here!SideInvariant' /\ Here!View' = Here!View
        /\ There!SideInvariant' /\ There!View' = There!View
    BY <2>1, HereWaits, ThereWaits DEF SidesInvariant
  <2>3. PartiesInvariant'
    BY <1>2, NextParties DEF SidesInvariant
  <2> QED BY <2>1, <2>2, <2>3 DEF SidesInvariant, AccordToThere, AccordToHere
<1> QED BY <1>1, <1>2

\* When nothing is on its way both are as far with a call.
LEMMA SidesInvariantAgrees == SidesInvariant => SidesAgree
<1> SUFFICES ASSUME SidesInvariant, Quiet, NEW sid \in Sids, ~Belated(sid) PROVE Agree(sid)
  BY DEF SidesAgree
<1> DEFINE p == Here!Phase(sid)
           q == There!Phase(sid)
<1>1. /\ Sound(Here!View, OwnSids, PeerSids) /\ Here!View.begun = HereBegun
      /\ Sound(There!View, PeerSids, OwnSids) /\ There!View.begun = ThereBegun
  BY HereIsSound, ThereIsSound DEF SidesInvariant
<1>2. /\ Accord(<<>>, Here!View, There!View, OwnSids, PeerSids)
      /\ Accord(<<>>, There!View, Here!View, PeerSids, OwnSids)
      /\ Link(<<>>, Here!Stanzas, HereBegun, ThereBegun, OwnSids, PeerSids)
      /\ Link(<<>>, There!Stanzas, ThereBegun, HereBegun, PeerSids, OwnSids)
  BY DEF Quiet, SidesInvariant, AccordToThere, AccordToHere, PartiesInvariant, LinkToThere,
     LinkToHere
<1>3. sid \in Here!Sids /\ sid \in There!Sids /\ sid \in OwnSids \cup PeerSids
  BY DEF Sids, Here!Sids, There!Sids
<1>4. InPhase(p, sid, Here!View, OwnSids, PeerSids)
  <2>1. context.sid = sid => context.jmi
    BY DEF Belated
  <2> QED BY <1>3, <2>1, HereAssumptions, SidesArePaired, PartiesAssumption, Here!SidePhases
          DEF SidesInvariant, InPhase, Here!View, Here!TalkStates
<1>5. InPhase(q, sid, There!View, PeerSids, OwnSids)
  <2>1. thereContext.sid = sid => thereContext.jmi
    BY DEF Belated
  <2> QED BY <1>3, <2>1, ThereAssumptions, SidesArePaired, PartiesAssumption, There!SidePhases
          DEF SidesInvariant, InPhase, There!View, There!TalkStates
<1> HIDE DEF p, q
<1>6. /\ p \in {"negotiating", "connected"} <=> q \in {"negotiating", "connected"}
      /\ p = "proposing" <=> q = "ringing"
      /\ p = "ringing" <=> q = "proposing"
  <2>1. CASE sid \in OwnSids
    BY <1>1, <1>2, <1>4, <1>5, <2>1, PartiesAssumption, EndsAgree
  <2>2. CASE sid \in PeerSids
    <3>1. PeerSids \cap OwnSids = {}
      BY PartiesAssumption
    <3>2. /\ q \in {"negotiating", "connected"} <=> p \in {"negotiating", "connected"}
          /\ q = "proposing" <=> p = "ringing"
          /\ q = "ringing" <=> p = "proposing"
      BY <1>1, <1>2, <1>4, <1>5, <2>2, <3>1, EndsAgree
    <3> QED BY <3>2
  <2> QED BY <1>3, <2>1, <2>2
<1> QED BY <1>6 DEF Agree, Talking, p, q

\* The two sides agree on every call once nothing is on its way, a session that rang for
\* itself apart (Belated), for any session ids, queues and reports: a report that an
\* engine made before it was closed and that reaches the next call is one of them
\* (media_engine.py:203-204), and on_connected takes no call along that was not
\* answered (controller.py:382-394).
THEOREM SidesAlwaysAgree == PartiesSpec => []SidesAgree
<1>1. PartiesInit => SidesInvariant
  BY InitSides
<1>2. SidesInvariant /\ [PartiesNext]_bothVars => SidesInvariant'
  BY NextSides
<1>3. SidesInvariant => SidesAgree
  BY SidesInvariantAgrees
<1> QED BY <1>1, <1>2, <1>3, PTL DEF PartiesSpec
=============================================================================
